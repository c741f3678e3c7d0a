----------------------------- MODULE PolicyEngine -----------------------------
(***************************************************************************)
(* aep.policy.engine.PolicyEngine: the decision on one action of one task. *)
(* The decision is a pure function of the two contracts, so it is an       *)
(* operator; expiration and policy version carry no behaviour.             *)
(***************************************************************************)
EXTENDS Integers, Sequences

RiskClass ==
  {"READ_ONLY", "REVERSIBLE_WRITE", "CONSEQUENTIAL_WRITE", "FINANCIAL",
   "PRIVILEGED_ADMINISTRATIVE", "PHYSICAL_OR_SAFETY_RELATED"}

PolicyDecisionKind == {"allow", "deny", "require_approval"}

\* The risk classes that need a human.
HighRisk ==
  {"CONSEQUENTIAL_WRITE", "FINANCIAL", "PRIVILEGED_ADMINISTRATIVE",
   "PHYSICAL_OR_SAFETY_RELATED"}

\* An empty allowed_tools list allows every tool.
ToolAllowed(task, action) ==
  task.allowed_tools = {} \/ action.operation \in task.allowed_tools

\* The reason codes, in the order evaluate appends them.
ReasonCodes(task, action) ==
  LET when(condition, codes) == IF condition THEN codes ELSE <<>>
  IN  when(action.risk_class \in HighRisk, <<"high_risk_action">>)
      \o when(action.risk_class = "FINANCIAL", <<"financial_limit_enforced">>)
      \o when(task.risk_budget <= 0, <<"risk_budget_exhausted">>)

\* Who has to approve; computed whatever the decision turns out to be.
RequiredApprovals(action) ==
  {p \in {"human_principal", "finance_authorizer"} :
     \/ p = "human_principal" /\ action.risk_class \in HighRisk
     \/ p = "finance_authorizer" /\ action.risk_class = "FINANCIAL"}

\* Mutant of Decision: a budget of zero still counts as budget.
DecisionOffByOne(task, action) ==
  IF ~ToolAllowed(task, action) \/ task.risk_budget < 0 THEN "deny"
  ELSE IF action.risk_class \in HighRisk THEN "require_approval"
  ELSE "allow"

\* An exhausted budget overrides the request for approval.
Decision(task, action) ==
  IF ~ToolAllowed(task, action) \/ task.risk_budget <= 0 THEN "deny"
  ELSE IF action.risk_class \in HighRisk THEN "require_approval"
  ELSE "allow"

Evaluate(task, action) ==
  IF ~ToolAllowed(task, action)
  THEN [decision |-> "deny", reason_codes |-> <<"tool_not_allowed">>,
        required_approvals |-> {}]
  ELSE [decision |-> Decision(task, action),
        reason_codes |-> ReasonCodes(task, action),
        required_approvals |-> RequiredApprovals(action)]
===============================================================================
