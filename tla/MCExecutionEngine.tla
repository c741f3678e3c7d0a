--------------------------- MODULE MCExecutionEngine ---------------------------
(* Small requests for ExecutionEngine.                                      *)
EXTENDS ExecutionEngine

CONSTANTS t1, t2

Task(tools, budget) == [allowed_tools |-> tools, risk_budget |-> budget]

Open == Task({}, 1)

Request(id, channel, operation, risk, task) ==
  [action_id |-> id, channel |-> channel, operation |-> operation,
   risk_class |-> risk, task |-> task]

MCActionIds == {"a", "b"}

\* Action a comes in variants that differ in what the policy and the adapter
\* make of it; b is an independent action of another task.
MCRequests ==
  {Request("a", "http", "get", "READ_ONLY", Task({"get"}, 1)),
   Request("a", "http", "get", "READ_ONLY", Task({"put"}, 1)),
   Request("a", "filesystem", "delete_file", "REVERSIBLE_WRITE", Open),
   Request("a", "messaging", "send", "FINANCIAL", Open),
   Request("b", "simulated", "search_policy", "READ_ONLY", Open),
   Request("b", "browser", "click", "REVERSIBLE_WRITE", Open),
   Request("b", "process", "run", "READ_ONLY", Task({}, 0)),
   Request("b", "process", "run", "READ_ONLY", Open)}

\* The overlapping case concentrates on one action: two threads compete for
\* its status.
OneActionId == {"a"}

OneActionRequests ==
  {Request("a", "filesystem", "create_file", "REVERSIBLE_WRITE", Open),
   Request("a", "browser", "scroll", "READ_ONLY", Open),
   Request("a", "messaging", "send", "FINANCIAL", Open),
   Request("a", "simulated", "search_policy", "READ_ONLY", Open),
   Request("a", "process", "run", "READ_ONLY", Task({}, 0))}
================================================================================
