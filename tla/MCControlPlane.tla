---------------------------- MODULE MCControlPlane ----------------------------
(* Small contracts, actions and observations for ControlPlane.              *)
EXTENDS ControlPlane

CONSTANTS t1, t2

Contract(goal, tools) ==
  [task_id |-> "task", goal |-> goal, allowed_tools |-> tools,
   risk_budget |-> 1]

Action(channel, risk) ==
  [action_id |-> "a", task_id |-> "task", channel |-> channel,
   operation |-> "click", risk_class |-> risk, observation_version |-> "v1"]

Observation(id, version, deadline) ==
  [observation_id |-> id, task_id |-> "task", state_version |-> version,
   freshness_deadline |-> deadline]

OneContract  == {Contract("g", {})}
TwoContracts == {Contract("g", {}), Contract("h", {"scroll"})}

LowRisk  == {Action("browser", "READ_ONLY")}
HighRisk == {Action("browser", "FINANCIAL")}

\* What the policy allows, and what it leaves to an approval.
BothRisks == LowRisk \cup HighRisk

\* Two observations: one of the version the action names or of another, and
\* one of that version which goes stale or does not.
MCObservations ==
  {Observation("o1", "v1", 0), Observation("o1", "v2", 0),
   Observation("o2", "v1", 0), Observation("o2", "v1", 1)}

Resubmitted == {Observation("o1", "v1", 0), Observation("o1", "v2", 0)}
================================================================================
