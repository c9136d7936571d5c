---------------------------- MODULE PolicyEngine ----------------------------
(***************************************************************************)
(* The decisions of the policy engine and the table of the tool registry:   *)
(* whether an operation is allowed and whether it requires an approval.     *)
(***************************************************************************)
EXTENDS Integers

RiskLevels   == {"low", "medium", "high", "critical"}
Environments == {"test", "staging", "production"}
Operations   == {"read", "write", "delete", "execute", "merge", "deploy"}
BlastRadii   == {"none", "org_wide", "customer_facing"}

\* What evaluate is given; admin stands for the two actor ids it knows.
PolicyInput ==
    [admin : BOOLEAN, environment : Environments, risk_level : RiskLevels,
     operation : Operations, rollback : BOOLEAN, blast : BlastRadii]

RISK_MODE_MAP ==
    [r \in RiskLevels |-> CASE r = "low"      -> "workspace_write"
                            [] r = "critical" -> "admin_full_access"
                            [] OTHER          -> "approval_required"]

ENV_ESCALATION ==
    [e \in Environments |-> CASE e = "test"    -> 0
                              [] e = "staging" -> 1
                              [] OTHER         -> 2]

OP_RISK_BONUS ==
    [o \in Operations |-> CASE o = "read"                -> 0
                            [] o \in {"write", "execute"} -> 1
                            [] OTHER                     -> 2]

\* Mutant: the score is compared with = 2.
ForcedAtTwo(i) ==
    \/ i.environment = "production" /\ i.operation \in {"delete", "merge", "deploy"}
    \/ ~i.rollback /\ i.risk_level \in {"high", "critical"}
    \/ i.blast # "none"
    \/ ENV_ESCALATION[i.environment] + OP_RISK_BONUS[i.operation] = 2

\* The branches of evaluate that require an approval whatever the risk level.
Forced(i) ==
    \/ i.environment = "production" /\ i.operation \in {"delete", "merge", "deploy"}
    \/ ~i.rollback /\ i.risk_level \in {"high", "critical"}
    \/ i.blast # "none"
    \/ ENV_ESCALATION[i.environment] + OP_RISK_BONUS[i.operation] >= 2

Mode(i) ==
    IF Forced(i) THEN "approval_required" ELSE RISK_MODE_MAP[i.risk_level]

\* An administrator is never asked; the others as the mode says.
Evaluate(i) ==
    [allowed |-> i.admin \/ Mode(i) # "read_only" \/ i.operation = "read",
     requires_approval |-> ~i.admin /\ Mode(i) = "approval_required"]

-----------------------------------------------------------------------------
(* The tool registry *)

RegisteredTools ==
    {"mock.analyze", "file.write", "file.read", "github.create_issue",
     "github.create_branch", "github.create_commit", "github.create_pr",
     "github.merge_pr", "github.revert_commit", "github.get_repo_files",
     "supabase.execute_sql", "supabase.query", "lark.write_doc",
     "lark.send_message", "lark.create_task", "telegram.send",
     "mcp.call_tool", "mcp.list_tools"}

HighRisk   == {"github.merge_pr", "supabase.execute_sql"}
MediumRisk == {"github.create_issue", "github.create_commit", "github.create_pr",
               "github.revert_commit", "lark.write_doc", "mcp.call_tool"}
Compensated == {"github.create_issue", "github.create_pr", "github.revert_commit",
                "lark.create_task", "mcp.call_tool"}
OnApproval == HighRisk \cup (MediumRisk \ {"github.revert_commit", "mcp.call_tool"})

\* requires_approval_on names production or nothing.
RequiresApproval(tool, environment) ==
    tool \in OnApproval /\ environment = "production"

RiskOf(tool) == IF tool \in HighRisk THEN "high"
                ELSE IF tool \in MediumRisk THEN "medium" ELSE "low"

\* What check_tool_permission passes on for a registered tool; plan steps are
\* always of the operation "execute".
InputFor(tool, environment, admin) ==
    [admin       |-> admin,
     environment |-> environment,
     risk_level  |-> RiskOf(tool),
     operation   |-> "execute",
     rollback    |-> tool \notin Compensated,
     blast       |-> IF tool = "github.merge_pr" THEN "org_wide" ELSE "none"]

CheckToolPermission(tool, environment, admin) ==
    LET decision == Evaluate(InputFor(tool, environment, admin))
    IN  [decision EXCEPT !.requires_approval =
            @ \/ RequiresApproval(tool, environment)]

-----------------------------------------------------------------------------
(* Properties *)

\* What needs an approval in one environment needs it in every one that
\* escalates at least as much: the four branches, the table and the
\* administrator's exemption never make production the more lenient one.
EvaluateIsMonotone ==
    \A i \in PolicyInput, e \in Environments :
        /\ ENV_ESCALATION[i.environment] <= ENV_ESCALATION[e]
        /\ Evaluate(i).requires_approval
        => Evaluate([i EXCEPT !.environment = e]).requires_approval
=============================================================================
