---------------------------- MODULE ExecutionEngine ----------------------------
(***************************************************************************)
(* aep.execution.engine.ActionExecutionEngine.  One engine object serves   *)
(* all requests; the API's endpoints are plain functions, so the requests  *)
(* run in the threads of a pool and interleave wherever the interpreter    *)
(* switches.  execute is split at every access to the shared _states       *)
(* table: _set_state reads the current status and validates the transition *)
(* (CheckTransition, RejectTransition), and stores the new one in a later  *)
(* step (the Store actions).  Nothing locks the two together.              *)
(*                                                                         *)
(* The policy, the verifier and the adapters are operators of the modules  *)
(* extended here.  The audit ledger is reduced to the number of events of  *)
(* each kind that were appended for an action; AuditLedger models the file.*)
(***************************************************************************)
EXTENDS Lifecycle, PolicyEngine, Adapters

CONSTANTS
  Threads,        \* the threads of the API's pool
  ActionIds,      \* the action_id values the callers use
  Requests,       \* the calls of execute: an action together with its task
  AllowOverlap,   \* may two requests for one action_id be in flight at once?
  AdaptersRaise,  \* may an adapter call end with an exception?
  AuditMayFail,   \* may audit.append end with an exception?
  NoRequest       \* the request of an idle thread

ASSUME EngineAssumption ==
  /\ AllowOverlap \in BOOLEAN
  /\ AdaptersRaise \in BOOLEAN
  /\ AuditMayFail \in BOOLEAN
  /\ NoRequest \notin Requests
  /\ \A r \in Requests : /\ r.action_id \in ActionIds
                         /\ r.risk_class \in RiskClass
                         /\ r.task.risk_budget \in Nat

AuditKinds == {"action_denied", "executed_verified", "executed_failed"}

VARIABLES
  states,    \* _states: absent entries read as PROPOSED
  pc,        \* where each thread is in execute
  req,       \* the request each thread serves
  target,    \* the status the thread's current _set_state call is to store
  evidence,  \* the status and error of the thread's evidence
  calls,     \* calls[a]: how often an adapter was called for action a
  audit,     \* audit[a][k]: audit events of kind k appended for action a
  replies    \* the replies execute has returned

vars == <<states, pc, req, target, evidence, calls, audit, replies>>

\* Where a thread can be: before the read of a _set_state, before its store,
\* before the adapter call, inside it, and before audit.append.
Places == {"idle", "check", "store", "invoke", "adapter", "audit"}

NoEvidence == [status |-> "none", error |-> NoError]

Evidences ==
  Response \cup {NoEvidence}
    \cup {DeniedEvidence(s) : s \in {"policy_denied", "awaiting_approval"}}

NoEvents == [k \in AuditKinds |-> 0]

Id(t) == req[t].action_id

InFlight(a) == \E t \in Threads : pc[t] # "idle" /\ Id(t) = a

Init ==
  /\ states   = [a \in ActionIds |-> "PROPOSED"]
  /\ pc       = [t \in Threads |-> "idle"]
  /\ req      = [t \in Threads |-> NoRequest]
  /\ target   = [t \in Threads |-> "PROPOSED"]
  /\ evidence = [t \in Threads |-> NoEvidence]
  /\ calls    = [a \in ActionIds |-> 0]
  /\ audit    = [a \in ActionIds |-> NoEvents]
  /\ replies  = {}

-----------------------------------------------------------------------------
(* The two ways execute ends.  The thread's locals are forgotten.           *)

Leave(t) ==
  /\ pc'       = [pc EXCEPT ![t] = "idle"]
  /\ req'      = [req EXCEPT ![t] = NoRequest]
  /\ target'   = [target EXCEPT ![t] = "PROPOSED"]
  /\ evidence' = [evidence EXCEPT ![t] = NoEvidence]

\* The caller gets the evidence and the verdict on it.
Return(t, e) ==
  /\ Leave(t)
  /\ replies' = replies \cup {[action_id |-> Id(t), status |-> e.status,
                               verdict |-> Verdict(e)]}

\* An exception reaches the caller; the status stays as it is.
Raise(t) == Leave(t) /\ UNCHANGED replies

-----------------------------------------------------------------------------
(* _set_state.                                                              *)

\* A caller submits a request, and execute starts with VALIDATING.
Call(t, r) ==
  /\ pc[t] = "idle"
  /\ AllowOverlap \/ ~InFlight(r.action_id)
  /\ pc'     = [pc EXCEPT ![t] = "check"]
  /\ req'    = [req EXCEPT ![t] = r]
  /\ target' = [target EXCEPT ![t] = "VALIDATING"]
  /\ UNCHANGED <<states, evidence, calls, audit, replies>>

\* Mutant of CheckTransition: the status is stored without validation.
CheckNothing(t) ==
  /\ pc[t] = "check"
  /\ pc' = [pc EXCEPT ![t] = "store"]
  /\ UNCHANGED <<states, req, target, evidence, calls, audit, replies>>

\* _set_state reads the current status; the transition is legal.
CheckTransition(t) ==
  /\ pc[t] = "check"
  /\ ValidTransition(states[Id(t)], target[t])
  /\ pc' = [pc EXCEPT ![t] = "store"]
  /\ UNCHANGED <<states, req, target, evidence, calls, audit, replies>>

\* Mutant of RejectTransition: wait until the transition becomes legal.
RetryTransition(t) ==
  /\ pc[t] = "check"
  /\ ~ValidTransition(states[Id(t)], target[t])
  /\ UNCHANGED vars

\* It is not: InvalidTransitionError leaves execute.
RejectTransition(t) ==
  /\ pc[t] = "check"
  /\ ~ValidTransition(states[Id(t)], target[t])
  /\ Raise(t)
  /\ UNCHANGED <<states, calls, audit>>

\* _set_state stores the status it has checked.
Store(t) ==
  /\ pc[t] = "store"
  /\ states' = [states EXCEPT ![Id(t)] = target[t]]

\* execute goes on with the next _set_state.
Set(t, s) ==
  /\ pc'     = [pc EXCEPT ![t] = "check"]
  /\ target' = [target EXCEPT ![t] = s]

-----------------------------------------------------------------------------
(* What execute does after each of its _set_state calls.                    *)

\* Mutant of DecidedStatus: the decision itself is taken for a status.
DecisionAsStatus(r) == Evaluate(r.task, r).decision

\* Mutant of DecidedStatus: what needs an approval is authorized.
UngatedStatus(r) ==
  IF Evaluate(r.task, r).decision = "deny" THEN "DENIED" ELSE "AUTHORIZED"

\* The status each policy decision leads to.
DecidedStatus(r) ==
  LET decision == Evaluate(r.task, r).decision
  IN  CASE decision = "deny"             -> "DENIED"
        [] decision = "require_approval" -> "AWAITING_APPROVAL"
        [] decision = "allow"            -> "AUTHORIZED"

\* VALIDATING: the policy decides.
StoreValidating(t) ==
  /\ target[t] = "VALIDATING"
  /\ Store(t)
  /\ Set(t, DecidedStatus(req[t]))
  /\ UNCHANGED <<req, evidence, calls, audit, replies>>

\* DENIED: the evidence of the denial goes to the audit.
StoreDenied(t) ==
  /\ target[t] = "DENIED"
  /\ Store(t)
  /\ pc'       = [pc EXCEPT ![t] = "audit"]
  /\ evidence' = [evidence EXCEPT ![t] = DeniedEvidence("policy_denied")]
  /\ UNCHANGED <<req, target, calls, audit, replies>>

\* Mutant of StoreAwaiting: the evidence goes to the audit, as after a run.
StoreAwaitingLogged(t) ==
  /\ target[t] = "AWAITING_APPROVAL"
  /\ Store(t)
  /\ pc'       = [pc EXCEPT ![t] = "audit"]
  /\ evidence' = [evidence EXCEPT ![t] = DeniedEvidence("awaiting_approval")]
  /\ UNCHANGED <<req, target, calls, audit, replies>>

\* AWAITING_APPROVAL: execute returns without an audit event.
StoreAwaiting(t) ==
  /\ target[t] = "AWAITING_APPROVAL"
  /\ Store(t)
  /\ Return(t, DeniedEvidence("awaiting_approval"))
  /\ UNCHANGED <<calls, audit>>

\* Mutant of Following: the step to READY is forgotten.
FollowingWithoutReady ==
  [AUTHORIZED         |-> "PRECONDITION_CHECK",
   PRECONDITION_CHECK |-> "EXECUTING",
   FAILED             |-> "RECOVERING"]

\* The statuses that execute sets one right after the other.
Following ==
  [AUTHORIZED         |-> "PRECONDITION_CHECK",
   PRECONDITION_CHECK |-> "READY",
   READY              |-> "EXECUTING",
   FAILED             |-> "RECOVERING"]

StoreStraight(t) ==
  /\ target[t] \in DOMAIN Following
  /\ Store(t)
  /\ Set(t, Following[target[t]])
  /\ UNCHANGED <<req, evidence, calls, audit, replies>>

\* EXECUTING: the adapter is next.
StoreExecuting(t) ==
  /\ target[t] = "EXECUTING"
  /\ Store(t)
  /\ pc' = [pc EXCEPT ![t] = "invoke"]
  /\ UNCHANGED <<req, target, evidence, calls, audit, replies>>

\* Mutant of StoreVerifying: only an error counts as a failure.
StoreVerifyingByError(t) ==
  /\ target[t] = "VERIFYING"
  /\ Store(t)
  /\ Set(t, IF evidence[t].error = NoError THEN "VERIFIED" ELSE "FAILED")
  /\ UNCHANGED <<req, evidence, calls, audit, replies>>

\* VERIFYING: the verdict on the evidence decides.
StoreVerifying(t) ==
  /\ target[t] = "VERIFYING"
  /\ Store(t)
  /\ Set(t, IF Verdict(evidence[t]) = "verified" THEN "VERIFIED" ELSE "FAILED")
  /\ UNCHANGED <<req, evidence, calls, audit, replies>>

\* VERIFIED or RECOVERING (the recovery plan is computed and dropped).
StoreOutcome(t) ==
  /\ target[t] \in {"VERIFIED", "RECOVERING"}
  /\ Store(t)
  /\ pc' = [pc EXCEPT ![t] = "audit"]
  /\ UNCHANGED <<req, target, evidence, calls, audit, replies>>

-----------------------------------------------------------------------------
(* The adapter call.                                                        *)

\* adapters[action.channel] finds the adapter, and execute is entered.
InvokeAdapter(t) ==
  /\ pc[t] = "invoke"
  /\ req[t].channel \in RegisteredChannels
  /\ pc'    = [pc EXCEPT ![t] = "adapter"]
  /\ calls' = [calls EXCEPT ![Id(t)] = @ + 1]
  /\ UNCHANGED <<states, req, target, evidence, audit, replies>>

\* Mutant of UnknownChannel: an unknown channel counts as a failed execution.
UnknownChannelFails(t) ==
  /\ pc[t] = "invoke"
  /\ req[t].channel \notin RegisteredChannels
  /\ evidence' = [evidence EXCEPT ![t] = Failure("unsupported_operation")]
  /\ Set(t, "VERIFYING")
  /\ UNCHANGED <<states, req, calls, audit, replies>>

\* adapters[action.channel] raises KeyError.
UnknownChannel(t) ==
  /\ pc[t] = "invoke"
  /\ req[t].channel \notin RegisteredChannels
  /\ Raise(t)
  /\ UNCHANGED <<states, calls, audit>>

\* The adapter returns; VERIFYING is set next.
AdapterReturns(t) ==
  /\ pc[t] = "adapter"
  /\ \E response \in Responses(req[t].channel, req[t].operation) :
       evidence' = [evidence EXCEPT ![t] = response]
  /\ Set(t, "VERIFYING")
  /\ UNCHANGED <<states, req, calls, audit, replies>>

\* Mutant of AdapterRaises: a call that raised is made once more.
AdapterRetries(t) ==
  /\ pc[t] = "adapter"
  /\ AdaptersRaise
  /\ req[t].channel \in RaisingChannels
  /\ pc' = [pc EXCEPT ![t] = "invoke"]
  /\ UNCHANGED <<states, req, target, evidence, calls, audit, replies>>

\* The adapter raises, and execute catches nothing.
AdapterRaises(t) ==
  /\ pc[t] = "adapter"
  /\ AdaptersRaise
  /\ req[t].channel \in RaisingChannels
  /\ Raise(t)
  /\ UNCHANGED <<states, calls, audit>>

-----------------------------------------------------------------------------
(* The audit event and the return.                                          *)

\* Mutant of EventKind: denials are logged like failed executions.
EventKindOfVerdict(t) ==
  IF Verdict(evidence[t]) = "verified" THEN "executed_verified"
  ELSE "executed_failed"

\* The kind of event for the thread's evidence: a denial, or an execution
\* with its verdict.
EventKind(t) ==
  IF target[t] = "DENIED" THEN "action_denied"
  ELSE IF Verdict(evidence[t]) = "verified" THEN "executed_verified"
  ELSE "executed_failed"

AuditAppend(t) ==
  /\ pc[t] = "audit"
  /\ audit' = [audit EXCEPT ![Id(t)][EventKind(t)] = @ + 1]
  /\ Return(t, evidence[t])
  /\ UNCHANGED <<states, calls>>

\* The ledger's file cannot be read, parsed or written.
AuditRaises(t) ==
  /\ pc[t] = "audit"
  /\ AuditMayFail
  /\ Raise(t)
  /\ UNCHANGED <<states, calls, audit>>

-----------------------------------------------------------------------------

\* The steps of a thread that is inside execute.
Step(t) ==
  \/ CheckTransition(t) \/ RejectTransition(t)
  \/ StoreValidating(t) \/ StoreDenied(t) \/ StoreAwaiting(t)
  \/ StoreStraight(t) \/ StoreExecuting(t) \/ StoreVerifying(t)
  \/ StoreOutcome(t)
  \/ InvokeAdapter(t) \/ UnknownChannel(t)
  \/ AdapterReturns(t) \/ AdapterRaises(t)
  \/ AuditAppend(t) \/ AuditRaises(t)

Next == \E t \in Threads : Step(t) \/ \E r \in Requests : Call(t, r)

\* A thread that has entered execute keeps running: nothing in it waits for
\* another thread, and every adapter call is bounded by a timeout.  Whether
\* callers ever submit a request is up to them.
Fairness == \A t \in Threads : WF_vars(Step(t))

Spec == Init /\ [][Next]_vars /\ Fairness

-----------------------------------------------------------------------------
(* Properties.                                                              *)

\* The type of every variable of the engine.
TypeOK ==
  /\ states   \in [ActionIds -> ActionStatus]
  /\ pc       \in [Threads -> Places]
  /\ req      \in [Threads -> Requests \cup {NoRequest}]
  /\ target   \in [Threads -> ActionStatus]
  /\ evidence \in [Threads -> Evidences]
  /\ calls    \in [ActionIds -> Nat]
  /\ audit    \in [ActionIds -> [AuditKinds -> Nat]]
  /\ replies  \subseteq [action_id : ActionIds,
                         status : {e.status : e \in Evidences},
                         verdict : VerificationVerdict]

\* docs/action-lifecycle.md: "Invalid transitions fail closed".  No step of
\* any thread changes a status other than along the transition table.  The
\* check and the store of _set_state are separate steps, so this needs the
\* callers' promise that requests for one action do not overlap.
LegalTransitions ==
  [][\A a \in ActionIds :
       states'[a] # states[a] => ValidTransition(states[a], states'[a])]_vars

\* The status of an action tells whether its adapter ran, at every moment:
\* not before EXECUTING, exactly once from VERIFYING on, and never twice,
\* however often and in whatever order requests for it are repeated.
StatusTellsExecution ==
  \A a \in ActionIds :
    /\ calls[a] <= 1
    /\ states[a] \in {"VERIFYING", "VERIFIED", "FAILED", "RECOVERING"}
         => calls[a] = 1
    /\ calls[a] = 1 => states[a] \in {"EXECUTING", "VERIFYING", "VERIFIED",
                                      "FAILED", "RECOVERING"}

\* The engine's own path through the life cycle is legal: a request can only
\* be rejected at its very first transition, before it has changed anything.
\* In particular no execution is cut off between the adapter and the audit.
RejectedOnlyAtStart ==
  \A t \in Threads :
    pc[t] = "check" /\ target[t] # "VALIDATING"
      => ValidTransition(states[Id(t)], target[t])

\* Where the policy stands between the caller and an adapter: whatever the
\* interleaving, a thread inside an adapter serves a low-risk request whose
\* tool the task allows and whose task has budget left.
OnlyPermittedExecute ==
  \A t \in Threads :
    pc[t] = "adapter" =>
      /\ req[t].risk_class \in {"READ_ONLY", "REVERSIBLE_WRITE"}
      /\ req[t].task.risk_budget > 0
      /\ req[t].task.allowed_tools # {}
           => req[t].operation \in req[t].task.allowed_tools

\* The audit event that an action at rest in a status should have.
ExpectedEvents(s) ==
  [k \in AuditKinds |->
     IF \/ s = "DENIED"     /\ k = "action_denied"
        \/ s = "VERIFIED"   /\ k = "executed_verified"
        \/ s = "RECOVERING" /\ k = "executed_failed"
     THEN 1 ELSE 0]

\* When no request works on an action, the audit holds exactly the event its
\* status calls for, or, where audit.append may fail, no event at all: never
\* a second one, and never one of another kind.
AuditMatchesStatus ==
  \A a \in ActionIds :
    ~InFlight(a) => \/ audit[a] = ExpectedEvents(states[a])
                    \/ AuditMayFail /\ audit[a] = NoEvents

\* A reply stays true: the status an action had when execute returned is
\* final, so whoever holds a reply knows the status without asking again.
RepliesAreFinal ==
  \A p \in replies :
    states[p.action_id] =
      IF p.status = "policy_denied"          THEN "DENIED"
      ELSE IF p.status = "awaiting_approval" THEN "AWAITING_APPROVAL"
      ELSE IF p.verdict = "verified"         THEN "VERIFIED"
      ELSE "RECOVERING"

\* Every execution event in the audit stands for an adapter call of its own,
\* even when requests for one action overlap.
AuditedCallsHappened ==
  \A a \in ActionIds :
    audit[a]["executed_verified"] + audit[a]["executed_failed"] <= calls[a]

\* docs/architecture.md: verification is followed by "Immutable audit
\* recording".  An action at rest whose adapter was called has an execution
\* event.  This fails where an adapter raises.
EveryCallAudited ==
  \A a \in ActionIds :
    calls[a] > 0 /\ ~InFlight(a) =>
      audit[a]["executed_verified"] + audit[a]["executed_failed"] > 0

\* The engine keeps the promise it makes about each action: its statuses and its
\* calls are the promise's own, so a second call would be no step of it.
Promise == INSTANCE ActionPromise WITH status <- states, invocations <- calls

KeepsPromise == Promise!Spec
================================================================================
