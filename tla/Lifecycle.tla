------------------------------ MODULE Lifecycle ------------------------------
(***************************************************************************)
(* The life cycle of an action: the statuses of                            *)
(* aep.contracts.models.ActionStatus and the transition table of           *)
(* aep.actions.state_machine, which every status change goes through.      *)
(***************************************************************************)

ActionStatus ==
  {"PROPOSED", "VALIDATING", "DENIED", "AWAITING_APPROVAL", "AUTHORIZED",
   "PRECONDITION_CHECK", "READY", "EXECUTING", "VERIFYING", "VERIFIED",
   "FAILED", "RECOVERING", "COMPENSATING", "CANCELLED", "ESCALATED"}

\* ALLOWED_TRANSITIONS: the statuses that may follow each status.
AllowedTransitions ==
  [PROPOSED           |-> {"VALIDATING", "DENIED"},
   VALIDATING         |-> {"DENIED", "AWAITING_APPROVAL", "AUTHORIZED"},
   DENIED             |-> {},
   AWAITING_APPROVAL  |-> {"AUTHORIZED", "CANCELLED"},
   AUTHORIZED         |-> {"PRECONDITION_CHECK", "CANCELLED"},
   PRECONDITION_CHECK |-> {"READY", "FAILED", "RECOVERING"},
   READY              |-> {"EXECUTING", "CANCELLED"},
   EXECUTING          |-> {"VERIFYING", "FAILED", "CANCELLED"},
   VERIFYING          |-> {"VERIFIED", "FAILED", "RECOVERING",
                           "COMPENSATING", "ESCALATED"},
   VERIFIED           |-> {},
   FAILED             |-> {"RECOVERING", "COMPENSATING", "ESCALATED"},
   RECOVERING         |-> {"READY", "COMPENSATING", "ESCALATED"},
   COMPENSATING       |-> {"ESCALATED", "CANCELLED", "VERIFIED"},
   CANCELLED          |-> {},
   ESCALATED          |-> {}]

\* Mutant of ValidTransition: an action submitted again starts over.
ValidTransitionOrRestart(current, nxt) ==
  nxt \in AllowedTransitions[current] \cup {"VALIDATING"}

\* validate_transition: the call returns (TRUE) or raises (FALSE).
ValidTransition(current, nxt) == nxt \in AllowedTransitions[current]
==============================================================================
