------------------------- MODULE ExecutionEngineProofs -------------------------
(***************************************************************************)
(* Theorems about ExecutionEngine, for any set of threads, actions and     *)
(* requests.                                                               *)
(***************************************************************************)
EXTENDS ExecutionEngine, TLAPS

-----------------------------------------------------------------------------
(* What the operators of the model return.                                  *)

\* The policy engine's decision leads to one of three statuses.
LEMMA DecidedStatusType ==
  \A r : DecidedStatus(r) \in {"DENIED", "AWAITING_APPROVAL", "AUTHORIZED"}
BY DEF DecidedStatus, Evaluate, Decision

\* The policy engine authorizes only low risk, an allowed tool and a budget.
LEMMA AuthorizedMeansPermitted ==
  ASSUME NEW r \in Requests, DecidedStatus(r) = "AUTHORIZED"
  PROVE  /\ r.risk_class \in {"READ_ONLY", "REVERSIBLE_WRITE"}
         /\ r.task.risk_budget > 0
         /\ r.task.allowed_tools # {} => r.operation \in r.task.allowed_tools
BY EngineAssumption
   DEF EngineAssumption, DecidedStatus, Evaluate, Decision, ToolAllowed,
       HighRisk, RiskClass

\* The statuses set one right after the other are statuses.
LEMMA FollowingType ==
  /\ DOMAIN Following = {"AUTHORIZED", "PRECONDITION_CHECK", "READY", "FAILED"}
  /\ \A s \in DOMAIN Following : Following[s] \in ActionStatus
BY DEF Following, ActionStatus

\* Whatever a registered adapter returns is a success or one of its errors.
LEMMA ResponsesAreResponse ==
  ASSUME NEW channel \in RegisteredChannels, NEW operation
  PROVE  Responses(channel, operation) \subseteq Response
<1>1. CASE channel = "filesystem"
  BY <1>1 DEF Responses, FilesystemResponses, Response, Errors
<1>2. CASE channel = "process"
  BY <1>2 DEF Responses, ProcessResponses, Response, Errors
<1>3. CASE channel = "http"
  BY <1>3 DEF Responses, HttpResponses, Response, Errors
<1>4. CASE channel = "messaging"
  BY <1>4 DEF Responses, MessagingResponses, Response, Errors
<1>5. CASE channel = "browser"
  BY <1>5 DEF Responses, BrowserResponses, Response, Errors
<1>6. QED
  BY <1>1, <1>2, <1>3, <1>4, <1>5 DEF RegisteredChannels

\* Every adapter response is an evidence.
LEMMA ResponsesType ==
  ASSUME NEW channel \in RegisteredChannels, NEW operation
  PROVE  Responses(channel, operation) \subseteq Evidences
BY ResponsesAreResponse DEF Evidences

\* A reply built from an evidence is well typed.
LEMMA ReplyType ==
  ASSUME NEW e \in Evidences, NEW a \in ActionIds
  PROVE  [action_id |-> a, status |-> e.status, verdict |-> Verdict(e)] \in
           [action_id : ActionIds, status : {d.status : d \in Evidences},
            verdict : VerificationVerdict]
BY DEF Verdict, VerificationVerdict

\* A thread inside execute serves a request for a known action.
LEMMA BusyHasRequest ==
  ASSUME TypeOK, NEW t \in Threads, req[t] # NoRequest
  PROVE  req[t] \in Requests /\ Id(t) \in ActionIds
BY EngineAssumption DEF TypeOK, EngineAssumption, Id

-----------------------------------------------------------------------------
(* Typing.  A thread is idle exactly when it has no request, and a thread   *)
(* is only inside adapters that exist.                                      *)

IdleInv ==
  \A t \in Threads :
    /\ pc[t] = "idle" <=> req[t] = NoRequest
    /\ pc[t] = "adapter" => req[t].channel \in RegisteredChannels

TypeInv == TypeOK /\ IdleInv

\* The initial state has the right types.
LEMMA TypeInit == Init => TypeInv
BY EngineAssumption
   DEF Init, TypeInv, TypeOK, IdleInv, ActionStatus, Places, Evidences,
       NoEvents, AuditKinds

\* Ending a request keeps the types.
LEMMA LeaveType ==
  ASSUME TypeInv, NEW t \in Threads, Leave(t)
  PROVE  /\ IdleInv'
         /\ pc' \in [Threads -> Places]
         /\ req' \in [Threads -> Requests \cup {NoRequest}]
         /\ target' \in [Threads -> ActionStatus]
         /\ evidence' \in [Threads -> Evidences]
BY DEF Leave, TypeInv, TypeOK, IdleInv, Places, ActionStatus, Evidences

\* Answering a request keeps the types.
LEMMA ReturnType ==
  ASSUME TypeInv, NEW t \in Threads, NEW e \in Evidences, pc[t] # "idle",
         Return(t, e)
  PROVE  /\ Leave(t)
         /\ replies' \subseteq [action_id : ActionIds,
                                status : {d.status : d \in Evidences},
                                verdict : VerificationVerdict]
<1>1. Id(t) \in ActionIds
  BY BusyHasRequest DEF TypeInv, IdleInv
<1>2. replies \subseteq [action_id : ActionIds,
                         status : {d.status : d \in Evidences},
                         verdict : VerificationVerdict]
  BY DEF TypeInv, TypeOK
<1>3. QED
  BY <1>1, <1>2, ReplyType DEF Return

\* Every step of execute keeps the types.
LEMMA TypeStep == TypeInv /\ [Next]_vars => TypeInv'
<1> SUFFICES ASSUME TypeInv, [Next]_vars
             PROVE  TypeInv'
  OBVIOUS
<1> USE DEF TypeInv, TypeOK, IdleInv
<1>0. ASSUME NEW t \in Threads, pc[t] # "idle"
      PROVE  Id(t) \in ActionIds
  BY <1>0, BusyHasRequest
<1>1. ASSUME NEW t \in Threads, NEW r \in Requests, Call(t, r)
      PROVE  TypeInv'
  BY <1>1, EngineAssumption DEF EngineAssumption, Call, Places, ActionStatus
<1>2. ASSUME NEW t \in Threads, CheckTransition(t)
      PROVE  TypeInv'
  BY <1>2 DEF CheckTransition, Places
<1>3. ASSUME NEW t \in Threads, RejectTransition(t)
      PROVE  TypeInv'
  BY <1>3, LeaveType DEF RejectTransition, Raise
<1>4. ASSUME NEW t \in Threads, Store(t)
      PROVE  states' \in [ActionIds -> ActionStatus]
  BY <1>4 DEF Store
<1>5. ASSUME NEW t \in Threads, StoreValidating(t)
      PROVE  TypeInv'
  BY <1>4, <1>5, DecidedStatusType
     DEF StoreValidating, Store, Set, Places, ActionStatus
<1>6. ASSUME NEW t \in Threads, StoreDenied(t)
      PROVE  TypeInv'
  <2>1. DeniedEvidence("policy_denied") \in Evidences
    BY DEF Evidences
  <2>2. QED
    BY <1>4, <1>6, <2>1 DEF StoreDenied, Store, Places
<1>7. ASSUME NEW t \in Threads, StoreAwaiting(t)
      PROVE  TypeInv'
  <2>1. DeniedEvidence("awaiting_approval") \in Evidences
    BY DEF Evidences
  <2>2. pc[t] # "idle"
    BY <1>7 DEF StoreAwaiting, Store
  <2>3. QED
    BY <1>4, <1>7, <2>1, <2>2, ReturnType, LeaveType DEF StoreAwaiting
<1>8. ASSUME NEW t \in Threads, StoreStraight(t)
      PROVE  TypeInv'
  BY <1>4, <1>8, FollowingType DEF StoreStraight, Store, Set, Places
<1>9. ASSUME NEW t \in Threads, StoreExecuting(t)
      PROVE  TypeInv'
  BY <1>4, <1>9 DEF StoreExecuting, Store, Places
<1>10. ASSUME NEW t \in Threads, StoreVerifying(t)
       PROVE  TypeInv'
  BY <1>4, <1>10 DEF StoreVerifying, Store, Set, Places, ActionStatus
<1>11. ASSUME NEW t \in Threads, StoreOutcome(t)
       PROVE  TypeInv'
  BY <1>4, <1>11 DEF StoreOutcome, Store, Places
<1>12. ASSUME NEW t \in Threads, InvokeAdapter(t)
       PROVE  TypeInv'
  BY <1>0, <1>12 DEF InvokeAdapter, Places
<1>13. ASSUME NEW t \in Threads, UnknownChannel(t)
       PROVE  TypeInv'
  BY <1>13, LeaveType DEF UnknownChannel, Raise
<1>14. ASSUME NEW t \in Threads, AdapterReturns(t)
       PROVE  TypeInv'
  BY <1>14, ResponsesType DEF AdapterReturns, Set, Places, ActionStatus
<1>15. ASSUME NEW t \in Threads, AdapterRaises(t)
       PROVE  TypeInv'
  BY <1>15, LeaveType DEF AdapterRaises, Raise
<1>16. ASSUME NEW t \in Threads, AuditAppend(t)
       PROVE  TypeInv'
  <2>1. audit' \in [ActionIds -> [AuditKinds -> Nat]]
    <3>1. Id(t) \in ActionIds /\ EventKind(t) \in AuditKinds
      BY <1>0, <1>16 DEF AuditAppend, AuditKinds, EventKind
    <3>2. QED
      BY <1>16, <3>1 DEF AuditAppend
  <2>2. pc[t] # "idle" /\ evidence[t] \in Evidences
    BY <1>16 DEF AuditAppend
  <2>3. QED
    BY <1>16, <2>1, <2>2, ReturnType, LeaveType DEF AuditAppend
<1>17. ASSUME NEW t \in Threads, AuditRaises(t)
       PROVE  TypeInv'
  BY <1>17, LeaveType DEF AuditRaises, Raise
<1>18. CASE UNCHANGED vars
  BY <1>18 DEF vars, Id
<1>19. QED
  BY <1>1, <1>2, <1>3, <1>5, <1>6, <1>7, <1>8, <1>9, <1>10, <1>11, <1>12,
     <1>13, <1>14, <1>15, <1>16, <1>17, <1>18 DEF Next, Step

\* Every variable of the engine keeps its type, whether requests overlap or
\* not.
THEOREM Typing == Spec => []TypeOK
<1>1. Spec => []TypeInv
  BY TypeInit, TypeStep, PTL DEF Spec
<1>2. TypeInv => TypeOK
  BY DEF TypeInv
<1>3. QED
  BY <1>1, <1>2, PTL

-----------------------------------------------------------------------------
(* The policy guards the adapters.  A thread that is past VALIDATING, and   *)
(* was neither denied nor sent to approval, holds an authorization for its  *)
(* own request; no other thread can interfere with that.                    *)

Authorized(t) == DecidedStatus(req[t]) = "AUTHORIZED"

PermitInv ==
  \A t \in Threads :
    /\ pc[t] \in {"check", "store"} =>
         \/ target[t] \in {"VALIDATING", "DENIED", "AWAITING_APPROVAL"}
         \/ Authorized(t)
    /\ pc[t] \in {"invoke", "adapter"} => Authorized(t)

\* Every step keeps what a thread past the policy check is known to hold:
\* its request was authorized.
LEMMA PermitStep == TypeInv /\ PermitInv /\ [Next]_vars => PermitInv'
<1> SUFFICES ASSUME TypeInv, PermitInv, [Next]_vars
             PROVE  PermitInv'
  OBVIOUS
<1> USE DEF PermitInv, Authorized, TypeInv, TypeOK
<1>1. ASSUME NEW t \in Threads, Leave(t)
      PROVE  PermitInv'
  BY <1>1 DEF Leave
<1>2. ASSUME NEW t \in Threads, NEW r \in Requests, Call(t, r)
      PROVE  PermitInv'
  BY <1>2 DEF Call
<1>3. ASSUME NEW t \in Threads, CheckTransition(t)
      PROVE  PermitInv'
  BY <1>3 DEF CheckTransition
<1>4. ASSUME NEW t \in Threads, StoreValidating(t)
      PROVE  PermitInv'
  BY <1>4, DecidedStatusType DEF StoreValidating, Set
<1>5. ASSUME NEW t \in Threads, StoreDenied(t)
      PROVE  PermitInv'
  BY <1>5 DEF StoreDenied
<1>6. ASSUME NEW t \in Threads, StoreStraight(t)
      PROVE  PermitInv'
  BY <1>6, FollowingType DEF StoreStraight, Store, Set
<1>7. ASSUME NEW t \in Threads, StoreExecuting(t)
      PROVE  PermitInv'
  BY <1>7 DEF StoreExecuting, Store
<1>8. ASSUME NEW t \in Threads, StoreVerifying(t)
      PROVE  PermitInv'
  BY <1>8 DEF StoreVerifying, Store, Set
<1>9. ASSUME NEW t \in Threads, StoreOutcome(t)
      PROVE  PermitInv'
  BY <1>9 DEF StoreOutcome
<1>10. ASSUME NEW t \in Threads, InvokeAdapter(t)
       PROVE  PermitInv'
  BY <1>10 DEF InvokeAdapter
<1>11. ASSUME NEW t \in Threads, AdapterReturns(t)
       PROVE  PermitInv'
  BY <1>11 DEF AdapterReturns, Set
<1>12. CASE UNCHANGED vars
  BY <1>12 DEF vars
<1>13. QED
  BY <1>1, <1>2, <1>3, <1>4, <1>5, <1>6, <1>7, <1>8, <1>9, <1>10, <1>11, <1>12
     DEF Next, Step, RejectTransition, StoreAwaiting, UnknownChannel,
         AdapterRaises, AuditAppend, AuditRaises, Raise, Return

\* A thread that runs an adapter does so for an authorized, hence permitted,
\* request.
LEMMA PermitImplied == TypeInv /\ PermitInv => OnlyPermittedExecute
<1> SUFFICES ASSUME TypeInv, PermitInv, NEW t \in Threads, pc[t] = "adapter"
             PROVE  /\ req[t].risk_class \in {"READ_ONLY", "REVERSIBLE_WRITE"}
                    /\ req[t].task.risk_budget > 0
                    /\ req[t].task.allowed_tools # {}
                         => req[t].operation \in req[t].task.allowed_tools
  BY DEF OnlyPermittedExecute
<1>1. req[t] \in Requests
  BY BusyHasRequest DEF TypeInv, IdleInv
<1>2. DecidedStatus(req[t]) = "AUTHORIZED"
  BY DEF PermitInv, Authorized
<1>3. QED
  BY <1>1, <1>2, AuthorizedMeansPermitted

\* However requests overlap, an adapter only ever runs for a low-risk request
\* whose tool the task allows and whose task has budget left.
THEOREM PolicyGuardsAdapters == Spec => []OnlyPermittedExecute
<1>1. Init => PermitInv
  BY DEF Init, PermitInv
<1>2. Spec => [](TypeInv /\ PermitInv)
  BY <1>1, TypeInit, TypeStep, PermitStep, PTL DEF Spec
<1>3. QED
  BY <1>2, PermitImplied, PTL

-----------------------------------------------------------------------------
(* The life cycle, when requests for one action do not overlap.  What a     *)
(* thread has checked can then go stale no more: until it stores, the       *)
(* status of its action is the one that execute takes the step from.        *)

\* The status that execute leaves with each of its _set_state calls.
Predecessor ==
  [VALIDATING         |-> "PROPOSED",
   DENIED             |-> "VALIDATING",
   AWAITING_APPROVAL  |-> "VALIDATING",
   AUTHORIZED         |-> "VALIDATING",
   PRECONDITION_CHECK |-> "AUTHORIZED",
   READY              |-> "PRECONDITION_CHECK",
   EXECUTING          |-> "READY",
   VERIFYING          |-> "EXECUTING",
   VERIFIED           |-> "VERIFYING",
   FAILED             |-> "VERIFYING",
   RECOVERING         |-> "FAILED"]

\* execute's own path follows the transition table, and nothing but a fresh
\* action may become VALIDATING.
LEMMA PathIsLegal ==
  \A s \in DOMAIN Predecessor : ValidTransition(Predecessor[s], s)
BY DEF Predecessor, ValidTransition, AllowedTransitions

\* Only from PROPOSED does the table lead to VALIDATING.
LEMMA OnlyProposedStarts ==
  \A s \in ActionStatus : ValidTransition(s, "VALIDATING") => s = "PROPOSED"
BY DEF ActionStatus, ValidTransition, AllowedTransitions

BeforeExecution ==
  {"PROPOSED", "VALIDATING", "DENIED", "AWAITING_APPROVAL", "AUTHORIZED",
   "PRECONDITION_CHECK", "READY"}

AfterExecution == {"VERIFYING", "VERIFIED", "FAILED", "RECOVERING"}

\* No two threads work on one action.
ExclusiveInv ==
  \A t, u \in Threads :
    pc[t] # "idle" /\ pc[u] # "idle" /\ Id(t) = Id(u) => t = u

\* The status and the number of adapter calls of the action a busy thread
\* works on, from where the thread is.  The calls are counted from those of a
\* base: none for the engine by itself, those of earlier processes for the
\* engine inside the control plane.
ThreadInv(base, t) ==
  /\ pc[t] \in {"check", "store"} => target[t] \in DOMAIN Predecessor
  /\ pc[t] = "store" => states[Id(t)] = Predecessor[target[t]]
  /\ pc[t] = "check" /\ target[t] # "VALIDATING"
       => states[Id(t)] = Predecessor[target[t]]
  /\ pc[t] \in {"check", "store"} /\ target[t] = "VERIFYING"
       => calls[Id(t)] = base[Id(t)] + 1
  /\ pc[t] = "invoke"  => states[Id(t)] = "EXECUTING" /\ calls[Id(t)] = base[Id(t)]
  /\ pc[t] = "adapter" => states[Id(t)] = "EXECUTING" /\ calls[Id(t)] = base[Id(t)] + 1

ActionInv(base, a) ==
  /\ states[a] \in BeforeExecution \cup {"EXECUTING"} \cup AfterExecution
  /\ calls[a] \in {base[a], base[a] + 1}
  /\ states[a] \in BeforeExecution => calls[a] = base[a]
  /\ states[a] \in AfterExecution => calls[a] = base[a] + 1

LifecycleFrom(base) ==
  /\ base \in [ActionIds -> Nat]
  /\ ExclusiveInv
  /\ \A t \in Threads : ThreadInv(base, t)
  /\ \A a \in ActionIds : ActionInv(base, a)

NoCalls == [a \in ActionIds |-> 0]

LifecycleInv == LifecycleFrom(NoCalls)

\* A step of one thread cannot disturb what holds of another.
LEMMA Undisturbed ==
  ASSUME NEW base, TypeInv, LifecycleFrom(base),
         NEW t \in Threads, pc[t] # "idle", NEW id, id = Id(t),
         NEW u \in Threads, u # t,
         pc'[u] = pc[u], req'[u] = req[u], target'[u] = target[u],
         \A a \in ActionIds : a # id => states'[a] = states[a]
                                         /\ calls'[a] = calls[a]
  PROVE  ThreadInv(base, u)'
<1>1. CASE pc[u] = "idle"
  BY <1>1 DEF ThreadInv
<1>2. CASE pc[u] # "idle"
  <2>1. Id(u) # Id(t)
    BY <1>2 DEF LifecycleFrom, ExclusiveInv
  <2>2. Id(u) \in ActionIds /\ Id(u)' = Id(u)
    BY <1>2, BusyHasRequest DEF TypeInv, IdleInv, Id
  <2>3. ThreadInv(base, u)
    BY DEF LifecycleFrom
  <2>4. QED
    BY <2>1, <2>2, <2>3 DEF ThreadInv
<1>3. QED
  BY <1>1, <1>2

\* A step that changes at most the stepping thread's own action preserves the
\* invariant if it does so for that thread and that action.
LEMMA OwnStep ==
  ASSUME NEW base, TypeInv, LifecycleFrom(base),
         NEW t \in Threads, pc[t] # "idle", NEW id, id = Id(t),
         \A u \in Threads : u # t => /\ pc'[u] = pc[u] /\ req'[u] = req[u]
                                     /\ target'[u] = target[u],
         \A a \in ActionIds : a # id => states'[a] = states[a]
                                         /\ calls'[a] = calls[a],
         pc'[t] = "idle" \/ req'[t] = req[t],
         ThreadInv(base, t)', ActionInv(base, id)'
  PROVE  LifecycleFrom(base)'
<1>1. ExclusiveInv'
  BY DEF LifecycleFrom, ExclusiveInv, Id
<1>2. \A u \in Threads : ThreadInv(base, u)'
  BY Undisturbed
<1>3. ASSUME NEW a \in ActionIds
      PROVE  ActionInv(base, a)'
  <2>1. CASE a = id
    BY <2>1
  <2>2. CASE a # id
    BY <2>2 DEF LifecycleFrom, ActionInv
  <2>3. QED
    BY <2>1, <2>2
<1>4. QED
  BY <1>1, <1>2, <1>3 DEF LifecycleFrom

\* Nothing has been executed at the start.
LEMMA LifecycleInit == Init => LifecycleInv
BY DEF Init, LifecycleInv, LifecycleFrom, NoCalls, ExclusiveInv, ThreadInv,
       ActionInv, BeforeExecution, AfterExecution

\* When the requests for one action do not overlap, every step keeps the
\* relation between its status, its thread and its adapter calls.
LEMMA LifecycleStep ==
  ASSUME ~AllowOverlap, NEW base, TypeInv, LifecycleFrom(base), [Next]_vars
  PROVE  LifecycleFrom(base)'
<1> USE DEF TypeInv, TypeOK
<1>1. ASSUME NEW t \in Threads, pc[t] # "idle"
      PROVE  Id(t) \in ActionIds /\ ThreadInv(base, t) /\ ActionInv(base, Id(t))
  BY <1>1, BusyHasRequest DEF LifecycleFrom, IdleInv
\* Leaving execute ends what the invariant says of the thread.
<1>2. ASSUME NEW t \in Threads, pc[t] # "idle", Leave(t),
             UNCHANGED <<states, calls>>
      PROVE  LifecycleFrom(base)'
  <2>1. PICK id \in ActionIds : id = Id(t) /\ ActionInv(base, id)
    BY <1>1, <1>2
  <2>2. ThreadInv(base, t)' /\ ActionInv(base, id)'
    BY <1>2, <2>1 DEF Leave, ThreadInv, ActionInv
  <2>3. QED
    BY <1>2, <2>1, <2>2, OwnStep DEF Leave
\* Storing a status changes that of the thread's own action only.
<1>3. ASSUME NEW t \in Threads, Store(t), UNCHANGED calls,
             \A u \in Threads : u # t => /\ pc'[u] = pc[u] /\ req'[u] = req[u]
                                         /\ target'[u] = target[u],
             pc'[t] = "idle" \/ req'[t] = req[t],
             ThreadInv(base, t)'
      PROVE  LifecycleFrom(base)'
  <2>1. PICK id \in ActionIds : id = Id(t) /\ ActionInv(base, id) /\ ThreadInv(base, t)
    BY <1>1, <1>3 DEF Store
  <2>2. /\ states'[id] = target[t]
        /\ \A a \in ActionIds : a # id => states'[a] = states[a]
    BY <1>3, <2>1 DEF Store
  <2>3. ActionInv(base, id)'
    BY <1>3, <2>1, <2>2
       DEF Store, ActionInv, ThreadInv, Predecessor, BeforeExecution,
           AfterExecution
  <2>4. QED
    BY <1>3, <2>1, <2>2, <2>3, OwnStep DEF Store
<1>4. ASSUME NEW t \in Threads, NEW r \in Requests, Call(t, r)
      PROVE  LifecycleFrom(base)'
  <2>1. ~InFlight(r.action_id)
    BY <1>4 DEF Call
  <2>2. ExclusiveInv'
    BY <1>4, <2>1 DEF Call, InFlight, LifecycleFrom, ExclusiveInv, Id
  <2>3. ASSUME NEW u \in Threads
        PROVE  ThreadInv(base, u)'
    <3>1. CASE u = t
      BY <1>4, <3>1 DEF Call, ThreadInv, Predecessor
    <3>2. CASE u # t
      BY <1>4, <3>2 DEF Call, LifecycleFrom, ThreadInv, Id
    <3>3. QED
      BY <3>1, <3>2
  <2>4. QED
    BY <1>4, <2>2, <2>3 DEF Call, LifecycleFrom, ActionInv
<1>5. ASSUME NEW t \in Threads, CheckTransition(t)
      PROVE  LifecycleFrom(base)'
  <2>1. PICK id \in ActionIds : id = Id(t) /\ ActionInv(base, id) /\ ThreadInv(base, t)
    BY <1>1, <1>5 DEF CheckTransition
  <2>2. target[t] = "VALIDATING" => states[id] = "PROPOSED"
    BY <1>5, <2>1, OnlyProposedStarts DEF CheckTransition
  <2>3. ThreadInv(base, t)'
    BY <1>5, <2>1, <2>2 DEF CheckTransition, ThreadInv, Predecessor, Id
  <2>4. ActionInv(base, id)'
    BY <1>5, <2>1 DEF CheckTransition, ActionInv
  <2>5. QED
    BY <1>5, <2>1, <2>3, <2>4, OwnStep DEF CheckTransition
<1>6. ASSUME NEW t \in Threads, StoreValidating(t)
      PROVE  LifecycleFrom(base)'
  <2>1. ThreadInv(base, t)'
    <3>1. PICK id \in ActionIds : id = Id(t)
      BY <1>1, <1>6 DEF StoreValidating, Store
    <3>2. states'[id] = "VALIDATING" /\ Id(t)' = id
      BY <1>6, <3>1 DEF StoreValidating, Store, Id
    <3>3. QED
      BY <1>6, <3>2, DecidedStatusType
         DEF StoreValidating, Store, Set, ThreadInv, Predecessor
  <2>2. QED
    BY <1>3, <1>6, <2>1 DEF StoreValidating, Set
<1>7. ASSUME NEW t \in Threads, StoreDenied(t)
      PROVE  LifecycleFrom(base)'
  <2>1. ThreadInv(base, t)'
    BY <1>7 DEF StoreDenied, Store, ThreadInv
  <2>2. QED
    BY <1>3, <1>7, <2>1 DEF StoreDenied
<1>8. ASSUME NEW t \in Threads, StoreAwaiting(t)
      PROVE  LifecycleFrom(base)'
  <2>1. ThreadInv(base, t)'
    BY <1>8 DEF StoreAwaiting, Store, Return, Leave, ThreadInv
  <2>2. QED
    BY <1>3, <1>8, <2>1 DEF StoreAwaiting, Return, Leave
<1>9. ASSUME NEW t \in Threads, StoreStraight(t)
      PROVE  LifecycleFrom(base)'
  <2>1. ThreadInv(base, t)'
    <3>1. PICK id \in ActionIds : id = Id(t)
      BY <1>1, <1>9 DEF StoreStraight, Store
    <3>2. states'[id] = target[t] /\ Id(t)' = id
      BY <1>9, <3>1 DEF StoreStraight, Store, Id
    <3>3. QED
      BY <1>9, <3>2 DEF StoreStraight, Store, Set, Following, ThreadInv, Predecessor
  <2>2. QED
    BY <1>3, <1>9, <2>1 DEF StoreStraight, Set
<1>10. ASSUME NEW t \in Threads, StoreExecuting(t)
       PROVE  LifecycleFrom(base)'
  <2>1. PICK id \in ActionIds : id = Id(t) /\ ActionInv(base, id) /\ ThreadInv(base, t)
    BY <1>1, <1>10 DEF StoreExecuting, Store
  <2>2. /\ states'[id] = "EXECUTING" /\ Id(t)' = id
        /\ calls'[id] = base[id]
    BY <1>10, <2>1
       DEF StoreExecuting, Store, Id, ThreadInv, ActionInv, Predecessor,
           BeforeExecution
  <2>3. ThreadInv(base, t)'
    BY <1>10, <2>2 DEF StoreExecuting, ThreadInv
  <2>4. QED
    BY <1>3, <1>10, <2>3 DEF StoreExecuting
<1>11. ASSUME NEW t \in Threads, StoreVerifying(t)
       PROVE  LifecycleFrom(base)'
  <2>1. ThreadInv(base, t)'
    <3>1. PICK id \in ActionIds : id = Id(t)
      BY <1>1, <1>11 DEF StoreVerifying, Store
    <3>2. states'[id] = "VERIFYING" /\ Id(t)' = id
      BY <1>11, <3>1 DEF StoreVerifying, Store, Id
    <3>3. QED
      BY <1>11, <3>2 DEF StoreVerifying, Store, Set, ThreadInv, Predecessor
  <2>2. QED
    BY <1>3, <1>11, <2>1 DEF StoreVerifying, Set
<1>12. ASSUME NEW t \in Threads, StoreOutcome(t)
       PROVE  LifecycleFrom(base)'
  <2>1. ThreadInv(base, t)'
    BY <1>12 DEF StoreOutcome, Store, ThreadInv
  <2>2. QED
    BY <1>3, <1>12, <2>1 DEF StoreOutcome
<1>13. ASSUME NEW t \in Threads, InvokeAdapter(t)
       PROVE  LifecycleFrom(base)'
  <2>1. PICK id \in ActionIds : id = Id(t) /\ ActionInv(base, id) /\ ThreadInv(base, t)
    BY <1>1, <1>13 DEF InvokeAdapter
  <2>2. /\ calls'[id] = base[id] + 1 /\ states[id] = "EXECUTING" /\ Id(t)' = id
        /\ \A a \in ActionIds : a # id => calls'[a] = calls[a]
    BY <1>13, <2>1 DEF InvokeAdapter, ThreadInv, Id
  <2>3. ThreadInv(base, t)' /\ ActionInv(base, id)'
    BY <1>13, <2>2
       DEF InvokeAdapter, ThreadInv, ActionInv, BeforeExecution
  <2>4. QED
    BY <1>13, <2>1, <2>2, <2>3, OwnStep DEF InvokeAdapter
<1>14. ASSUME NEW t \in Threads, AdapterReturns(t)
       PROVE  LifecycleFrom(base)'
  <2>1. PICK id \in ActionIds : id = Id(t) /\ ActionInv(base, id) /\ ThreadInv(base, t)
    BY <1>1, <1>14 DEF AdapterReturns
  <2>2. states[id] = "EXECUTING" /\ calls[id] = base[id] + 1 /\ Id(t)' = id
    BY <1>14, <2>1 DEF AdapterReturns, ThreadInv, Id
  <2>3. ThreadInv(base, t)' /\ ActionInv(base, id)'
    BY <1>14, <2>1, <2>2
       DEF AdapterReturns, Set, ThreadInv, ActionInv, Predecessor
  <2>4. QED
    BY <1>14, <2>1, <2>2, <2>3, OwnStep DEF AdapterReturns, Set
<1>15. CASE UNCHANGED vars
  BY <1>15
     DEF vars, LifecycleFrom, ExclusiveInv, ThreadInv, ActionInv, Id
<1>16. QED
  BY <1>2, <1>4, <1>5, <1>6, <1>7, <1>8, <1>9, <1>10, <1>11, <1>12, <1>13,
     <1>14, <1>15
     DEF Next, Step, RejectTransition, UnknownChannel, AdapterRaises,
         AuditAppend, AuditRaises, Raise, Return

\* When the requests for one action do not overlap, the relation between
\* status, thread and adapter calls holds in every state.
THEOREM LifecycleInvariance ==
  ASSUME ~AllowOverlap
  PROVE  Spec => [](TypeInv /\ LifecycleInv)
<1>1. TypeInv /\ LifecycleInv /\ [Next]_vars => LifecycleInv'
  BY LifecycleStep DEF LifecycleInv
<1>2. QED
  BY <1>1, TypeInit, TypeStep, LifecycleInit, PTL DEF Spec

\* A status tells whether the adapter ran, and it never runs twice.
THEOREM StatusTellsExecutionHolds ==
  ASSUME ~AllowOverlap
  PROVE  Spec => []StatusTellsExecution
<1>1. TypeInv /\ LifecycleInv => StatusTellsExecution
  BY DEF TypeInv, TypeOK, LifecycleInv, LifecycleFrom, NoCalls, ActionInv,
         StatusTellsExecution,
         BeforeExecution, AfterExecution
<1>2. QED
  BY <1>1, LifecycleInvariance, PTL

\* Only the first transition of a request can be rejected.
THEOREM RejectedOnlyAtStartHolds ==
  ASSUME ~AllowOverlap
  PROVE  Spec => []RejectedOnlyAtStart
<1>1. TypeInv /\ LifecycleInv => RejectedOnlyAtStart
  BY PathIsLegal DEF LifecycleInv, LifecycleFrom, ThreadInv, RejectedOnlyAtStart
<1>2. QED
  BY <1>1, LifecycleInvariance, PTL

-----------------------------------------------------------------------------
(* The engine implements ActionPromise.                                     *)

\* A step that changes a status stores the target of a thread, along the
\* transition table.
LEMMA StoreIsLegal ==
  ASSUME NEW base, TypeInv, LifecycleFrom(base), NEW t \in Threads, Store(t)
  PROVE  \E id \in ActionIds : /\ ValidTransition(states[id], target[t])
                               /\ target[t] \in ActionStatus
                               /\ states' = [states EXCEPT ![id] = target[t]]
<1>1. PICK id \in ActionIds : id = Id(t) /\ ThreadInv(base, t)
  BY BusyHasRequest DEF Store, TypeInv, IdleInv, LifecycleFrom
<1>2. ValidTransition(states[id], target[t]) /\ target[t] \in ActionStatus
  BY <1>1, PathIsLegal DEF Store, ThreadInv, TypeInv, TypeOK
<1>3. states' = [states EXCEPT ![id] = target[t]]
  BY <1>1 DEF Store
<1>4. QED
  BY <1>2, <1>3

\* Nothing but a store changes a status.
LEMMA OnlyStoresChange ==
  ASSUME [Next]_vars
  PROVE  UNCHANGED states \/ \E t \in Threads : Store(t)
BY DEF Next, Step, vars, Call, CheckTransition, RejectTransition, StoreValidating,
       StoreDenied, StoreAwaiting, StoreStraight, StoreExecuting, StoreVerifying,
       StoreOutcome, InvokeAdapter, UnknownChannel, AdapterReturns, AdapterRaises,
       AuditAppend, AuditRaises

\* What the engine does to a status is in the table, whatever calls were made
\* before it came to be.
LEMMA StepIsLegal ==
  ASSUME NEW base, TypeInv, LifecycleFrom(base), [Next]_vars
  PROVE  \A a \in ActionIds :
           states'[a] # states[a] => ValidTransition(states[a], states'[a])
<1>1. CASE UNCHANGED states
  BY <1>1
<1>2. CASE \E t \in Threads : Store(t)
  BY <1>2, StoreIsLegal DEF TypeInv, TypeOK
<1>3. QED
  BY <1>1, <1>2, OnlyStoresChange

\* A store is a step along the promised life cycle.
LEMMA StoreAdvances ==
  ASSUME TypeInv, LifecycleInv, NEW t \in Threads, Store(t), UNCHANGED calls
  PROVE  Promise!Next
<1>1. PICK id \in ActionIds : /\ ValidTransition(states[id], target[t])
                              /\ target[t] \in ActionStatus
                              /\ states' = [states EXCEPT ![id] = target[t]]
  BY StoreIsLegal DEF LifecycleInv
<1>2. Promise!Advance(id)
  BY <1>1 DEF Promise!Advance, Promise!ValidTransition, ValidTransition,
              Promise!ActionStatus, ActionStatus,
              Promise!AllowedTransitions, AllowedTransitions
<1>3. QED
  BY <1>2 DEF Promise!Next

\* The call of an adapter is the one that the promise allows.
LEMMA InvokeIsPromised ==
  ASSUME TypeInv, LifecycleInv, NEW t \in Threads, InvokeAdapter(t)
  PROVE  Promise!Next
<1>1. PICK id \in ActionIds : id = Id(t) /\ ThreadInv(NoCalls, t)
  BY BusyHasRequest DEF InvokeAdapter, TypeInv, IdleInv, LifecycleInv, LifecycleFrom
<1>2. states[id] = "EXECUTING" /\ calls[id] = 0
  BY <1>1, BusyHasRequest DEF InvokeAdapter, ThreadInv, NoCalls
<1>3. calls' = [calls EXCEPT ![id] = 1] /\ UNCHANGED states
  BY <1>1, <1>2 DEF InvokeAdapter
<1>4. Promise!Invoke(id)
  BY <1>2, <1>3 DEF Promise!Invoke
<1>5. QED
  BY <1>4 DEF Promise!Next

\* A step of the engine is a step of the promise, or changes nothing it sees.
LEMMA StepKeepsPromise ==
  ASSUME TypeInv, LifecycleInv, [Next]_vars
  PROVE  [Promise!Next]_(Promise!vars)
<1>1. CASE \E t \in Threads : Store(t) /\ UNCHANGED calls
  BY <1>1, StoreAdvances
<1>2. CASE \E t \in Threads : InvokeAdapter(t)
  BY <1>2, InvokeIsPromised DEF InvokeAdapter
<1>3. CASE UNCHANGED <<states, calls>>
  BY <1>3 DEF Promise!vars
<1>4. QED
  BY <1>1, <1>2, <1>3
     DEF Next, Step, vars, Call, CheckTransition, RejectTransition,
         StoreValidating, StoreDenied, StoreAwaiting, StoreStraight,
         StoreExecuting, StoreVerifying, StoreOutcome, UnknownChannel,
         AdapterReturns, AdapterRaises, AuditAppend, AuditRaises

\* No step of any thread changes a status other than along the transition
\* table.
THEOREM LegalTransitionsHold ==
  ASSUME ~AllowOverlap
  PROVE  Spec => LegalTransitions
<1>1. TypeInv /\ LifecycleInv /\ [Next]_vars
        => [\A a \in ActionIds :
              states'[a] # states[a] => ValidTransition(states[a], states'[a])]_vars
  BY StepIsLegal DEF LifecycleInv
<1>2. QED
  BY <1>1, LifecycleInvariance, PTL DEF Spec, LegalTransitions

\* The engine implements the abstract life cycle with at most one adapter
\* call per action.
THEOREM EngineKeepsPromise ==
  ASSUME ~AllowOverlap
  PROVE  Spec => KeepsPromise
<1>1. Init => Promise!Init
  BY DEF Init, Promise!Init
<1>2. TypeInv /\ LifecycleInv /\ [Next]_vars => [Promise!Next]_(Promise!vars)
  BY StepKeepsPromise
<1>3. QED
  BY <1>1, <1>2, LifecycleInvariance, PTL DEF Spec, KeepsPromise, Promise!Spec
-----------------------------------------------------------------------------
(* The safe half of progress, under any overlap: a request only moves       *)
(* towards its end.  What the model's fairness adds is that it does move.   *)

\* How many steps are left at most when a status is about to be stored.
LeftAfterStore ==
  [VALIDATING         |-> 18,
   DENIED             |-> 2,
   AWAITING_APPROVAL  |-> 2,
   AUTHORIZED         |-> 16,
   PRECONDITION_CHECK |-> 14,
   READY              |-> 12,
   EXECUTING          |-> 10,
   VERIFYING          |-> 6,
   VERIFIED           |-> 2,
   FAILED             |-> 4,
   RECOVERING         |-> 2]

StepsLeft(t) ==
  CASE pc[t] = "idle"    -> 0
    [] pc[t] = "audit"   -> 1
    [] pc[t] = "adapter" -> 8
    [] pc[t] = "invoke"  -> 9
    [] pc[t] = "store"   -> LeftAfterStore[target[t]]
    [] pc[t] = "check"   -> LeftAfterStore[target[t]] + 1

\* No _set_state call of execute sets PROPOSED.
TargetInv ==
  \A t \in Threads : pc[t] \in {"check", "store"} => target[t] \in DOMAIN LeftAfterStore

\* A thread inside execute gets nearer to its end with each of its own steps,
\* and neither nearer nor further with those of the others.
Onwards ==
  \A t \in Threads :
    /\ Step(t) => StepsLeft(t)' < StepsLeft(t)
    /\ pc[t] # "idle" /\ ~Step(t) => StepsLeft(t)' = StepsLeft(t)

\* The statuses execute goes on to after its stores are all nearer to the end.
LEMMA FollowingIsNearer ==
  /\ \A s \in DOMAIN LeftAfterStore : LeftAfterStore[s] \in 2 .. 18
  /\ \A s \in DOMAIN Following : /\ Following[s] \in DOMAIN LeftAfterStore
                                 /\ LeftAfterStore[Following[s]] + 1 < LeftAfterStore[s]
<1>1. \A s \in DOMAIN LeftAfterStore : LeftAfterStore[s] \in 2 .. 18
  BY DEF LeftAfterStore
<1>2. ASSUME NEW s \in DOMAIN Following
      PROVE  /\ Following[s] \in DOMAIN LeftAfterStore
             /\ LeftAfterStore[Following[s]] + 1 < LeftAfterStore[s]
  <2>1. s \in {"AUTHORIZED", "PRECONDITION_CHECK", "READY", "FAILED"}
    BY FollowingType
  <2>2. CASE s = "AUTHORIZED"
    BY <2>2 DEF Following, LeftAfterStore
  <2>3. CASE s = "PRECONDITION_CHECK"
    BY <2>3 DEF Following, LeftAfterStore
  <2>4. CASE s = "READY"
    BY <2>4 DEF Following, LeftAfterStore
  <2>5. CASE s = "FAILED"
    BY <2>5 DEF Following, LeftAfterStore
  <2>6. QED
    BY <2>1, <2>2, <2>3, <2>4, <2>5
<1>3. QED
  BY <1>1, <1>2

\* Whichever step a thread takes, it has fewer steps left.
LEMMA StepIsNearer ==
  ASSUME TypeInv, TargetInv, NEW t \in Threads, Step(t)
  PROVE  /\ StepsLeft(t)' < StepsLeft(t)
         /\ pc'[t] \in {"check", "store"} => target'[t] \in DOMAIN LeftAfterStore
<1> USE DEF TypeInv, TypeOK
<1>1. CASE CheckTransition(t)
  <2>1. pc'[t] = "store" /\ target'[t] = target[t] /\ pc[t] = "check"
    BY <1>1 DEF CheckTransition
  <2>2. QED
    BY <2>1, FollowingIsNearer DEF StepsLeft, TargetInv
<1>2. CASE Leave(t) /\ pc[t] # "idle"
  <2>1. pc'[t] = "idle"
    BY <1>2 DEF Leave
  <2>2. StepsLeft(t)' = 0
    BY <2>1 DEF StepsLeft
  <2>3. StepsLeft(t) > 0
    BY <1>2, FollowingIsNearer DEF StepsLeft, TargetInv, Places
  <2>4. QED
    BY <2>1, <2>2, <2>3
\* A store that is followed by another _set_state.
<1>3. ASSUME pc[t] = "store", NEW s \in DOMAIN LeftAfterStore, Set(t, s),
             LeftAfterStore[s] + 1 < LeftAfterStore[target[t]]
      PROVE  /\ StepsLeft(t)' < StepsLeft(t)
             /\ pc'[t] \in {"check", "store"} => target'[t] \in DOMAIN LeftAfterStore
  <2>1. pc'[t] = "check" /\ target'[t] = s
    BY <1>3 DEF Set
  <2>2. QED
    BY <1>3, <2>1 DEF StepsLeft
<1>4. CASE StoreValidating(t)
  <2>1. /\ target[t] = "VALIDATING" /\ pc[t] = "store"
        /\ Set(t, DecidedStatus(req[t]))
    BY <1>4 DEF StoreValidating, Store
  <2>2. /\ DecidedStatus(req[t]) \in DOMAIN LeftAfterStore
        /\ LeftAfterStore[DecidedStatus(req[t])] + 1 < LeftAfterStore["VALIDATING"]
    BY DecidedStatusType DEF LeftAfterStore
  <2>3. QED
    BY <1>3, <2>1, <2>2
<1>5. CASE StoreStraight(t)
  <2>1. pc[t] = "store" /\ target[t] \in DOMAIN Following /\ Set(t, Following[target[t]])
    BY <1>5 DEF StoreStraight, Store
  <2>2. QED
    BY <1>3, <2>1, FollowingIsNearer DEF TargetInv
<1>6. CASE StoreVerifying(t)
  <2>1. PICK s \in {"VERIFIED", "FAILED"} :
           Set(t, s) /\ target[t] = "VERIFYING" /\ pc[t] = "store"
    BY <1>6 DEF StoreVerifying, Store
  <2>2. s \in DOMAIN LeftAfterStore /\ LeftAfterStore[s] + 1 < LeftAfterStore["VERIFYING"]
    BY DEF LeftAfterStore
  <2>3. QED
    BY <1>3, <2>1, <2>2
<1>7. CASE StoreDenied(t) \/ StoreOutcome(t) \/ StoreExecuting(t)
  <2>1. /\ pc[t] = "store"
        /\ \/ pc'[t] = "audit"
           \/ pc'[t] = "invoke" /\ target[t] = "EXECUTING"
    BY <1>7 DEF StoreDenied, StoreOutcome, StoreExecuting, Store
  <2>2. QED
    BY <2>1, FollowingIsNearer DEF StepsLeft, TargetInv, LeftAfterStore
<1>8. CASE InvokeAdapter(t)
  <2>1. pc[t] = "invoke" /\ pc'[t] = "adapter"
    BY <1>8 DEF InvokeAdapter
  <2>2. QED
    BY <2>1 DEF StepsLeft
<1>9. CASE AdapterReturns(t)
  <2>1. pc[t] = "adapter" /\ pc'[t] = "check" /\ target'[t] = "VERIFYING"
    BY <1>9 DEF AdapterReturns, Set
  <2>2. QED
    BY <2>1 DEF StepsLeft, LeftAfterStore
<1>10. QED
  BY <1>1, <1>2, <1>4, <1>5, <1>6, <1>7, <1>8, <1>9
     DEF Step, RejectTransition, StoreAwaiting, Store, UnknownChannel, AdapterRaises,
         AuditAppend, AuditRaises, Raise, Return

\* A step of one thread leaves the others where they are.
LEMMA OthersStay ==
  ASSUME TypeInv, NEW t \in Threads, Step(t), NEW u \in Threads, u # t
  PROVE  pc'[u] = pc[u] /\ target'[u] = target[u]
<1> USE DEF TypeInv, TypeOK
<1>1. CASE Leave(t)
  BY <1>1 DEF Leave
<1>2. CASE \E s : Set(t, s)
  BY <1>2 DEF Set
<1>3. CASE /\ \E p \in Places : pc' = [pc EXCEPT ![t] = p]
           /\ UNCHANGED target
  BY <1>3
<1>4. QED
  BY <1>1, <1>2, <1>3
     DEF Step, CheckTransition, RejectTransition, StoreValidating, StoreDenied,
         StoreAwaiting, StoreStraight, StoreExecuting, StoreVerifying,
         StoreOutcome, InvokeAdapter, UnknownChannel, AdapterReturns,
         AdapterRaises, AuditAppend, AuditRaises, Raise, Return, Places

\* Whichever step is taken, threads only move towards their ends.
LEMMA OnwardsStep ==
  ASSUME TypeInv, TargetInv, [Next]_vars
  PROVE  TargetInv' /\ Onwards
<1>1. ASSUME NEW t \in Threads, Step(t)
      PROVE  TargetInv' /\ Onwards
  <2>1. TargetInv'
    BY <1>1, StepIsNearer, OthersStay DEF TargetInv
  <2>2. ASSUME NEW u \in Threads, ~Step(u)
        PROVE  StepsLeft(u)' = StepsLeft(u)
    BY <1>1, <2>2, OthersStay DEF StepsLeft
  <2>3. QED
    BY <2>1, <2>2, StepIsNearer DEF Onwards
<1>2. ASSUME NEW t \in Threads, NEW r \in Requests, Call(t, r)
      PROVE  TargetInv' /\ Onwards
  <2>1. \A u \in Threads : u # t => pc'[u] = pc[u] /\ target'[u] = target[u]
    BY <1>2 DEF Call
  <2>2. pc[t] = "idle" /\ target'[t] = "VALIDATING"
    BY <1>2 DEF Call, TypeInv, TypeOK
  <2>3. TargetInv'
    BY <2>1, <2>2 DEF TargetInv, LeftAfterStore
  <2>4. \A u \in Threads : pc[u] # "idle" => StepsLeft(u)' = StepsLeft(u)
    BY <2>1, <2>2 DEF StepsLeft
  <2>5. QED
    BY <2>3, <2>4, StepIsNearer DEF Onwards
<1>3. CASE UNCHANGED vars
  <2>1. TargetInv' /\ \A u \in Threads : StepsLeft(u)' = StepsLeft(u)
    BY <1>3 DEF vars, TargetInv, StepsLeft
  <2>2. QED
    BY <2>1, StepIsNearer DEF Onwards
<1>4. QED
  BY <1>1, <1>2, <1>3 DEF Next

\* However requests overlap and whatever raises, a thread inside execute only
\* moves towards its end: no step of it repeats, and no other thread's sets it
\* back.
THEOREM RequestsMoveOnwards == Spec => [][Onwards]_vars
<1>1. Init => TargetInv
  BY DEF Init, TargetInv
<1>2. TypeInv /\ TargetInv /\ [Next]_vars => TargetInv' /\ Onwards
  BY OnwardsStep
<1>3. QED
  BY <1>1, <1>2, TypeInit, TypeStep, PTL DEF Spec

\* At every moment a request has at most nineteen steps of its thread left.
COROLLARY RequestsAreShort == Spec => [](\A t \in Threads : StepsLeft(t) \in 0 .. 19)
<1>1. TypeInv /\ TargetInv => \A t \in Threads : StepsLeft(t) \in 0 .. 19
  BY FollowingIsNearer DEF TypeInv, TypeOK, TargetInv, StepsLeft, Places
<1>2. Init => TargetInv
  BY DEF Init, TargetInv
<1>3. TypeInv /\ TargetInv /\ [Next]_vars => TargetInv'
  BY OnwardsStep
<1>4. QED
  BY <1>1, <1>2, <1>3, TypeInit, TypeStep, PTL DEF Spec
================================================================================
