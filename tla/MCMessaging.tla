------------------------------ MODULE MCMessaging ------------------------------
(* Small requests for Messaging: those of MCExecutionEngine, and one message *)
(* under two action ids, in a form that is drafted and two that are refused. *)
EXTENDS Messaging, MCExecutionEngine

Letter(id, operation) ==
  Request(id, "messaging", operation, "REVERSIBLE_WRITE", Open)

\* A request of the messaging channel says by its operation what its message is.
MCMessage(r) ==
  [key |-> "k", mode |-> IF r.operation = "send" THEN "send" ELSE "draft",
   internal |-> r.operation # "draft_external"]

MCMessagingRequests ==
  MCRequests \cup {Letter("a", "draft"), Letter("b", "draft"),
                   Letter("a", "send"), Letter("a", "draft_external")}
================================================================================
