--------------------------- MODULE ControlPlaneProofs ---------------------------
(***************************************************************************)
(* Theorems about ControlPlane, for any number of threads, tasks, actions, *)
(* observations and restarts.                                              *)
(***************************************************************************)
EXTENDS ControlPlane, FiniteSetTheorems, SequenceTheorems, TLAPS

\* The engine with what is proved about it.
Proved == INSTANCE EngineAuditProofs

-----------------------------------------------------------------------------
(* The steps of the engine inside the control plane are those that the      *)
(* engine's theorems are about.                                             *)

\* The control plane gives the engine what the engine assumes.
LEMMA EngineParameters ==
  /\ EnableDestructive \in BOOLEAN
  /\ AllowOverlap \in BOOLEAN
  /\ AdaptersRaise \in BOOLEAN
  /\ AuditMayFail \in BOOLEAN
  /\ NoRequest \notin Requests
  /\ \A r \in Requests : /\ r.action_id \in ActionIds
                         /\ r.risk_class \in Proved!RiskClass
                         /\ r.task.risk_budget \in Nat
BY ControlAssumption, RequestAssumption
   DEF ControlAssumption, RequestAssumption, Requests, Request,
       Engine!RiskClass, Proved!RiskClass

\* Table, policy, adapters and verdict are the same.
LEMMA OperatorsAgree ==
  /\ \A s, n : Engine!ValidTransition(s, n) = Proved!ValidTransition(s, n)
  /\ \A r : Engine!DecidedStatus(r) = Proved!DecidedStatus(r)
  /\ \A c, o : Engine!Responses(c, o) = Proved!Responses(c, o)
  /\ \A e : Engine!Verdict(e) = Proved!Verdict(e)
<1>1. \A s, n : Engine!ValidTransition(s, n) = Proved!ValidTransition(s, n)
  BY DEF Engine!ValidTransition, Proved!ValidTransition,
         Engine!AllowedTransitions, Proved!AllowedTransitions
<1>2. \A c, a : Engine!Evaluate(c, a) = Proved!Evaluate(c, a)
  BY DEF Engine!Evaluate, Proved!Evaluate, Engine!Decision, Proved!Decision,
         Engine!HighRisk, Proved!HighRisk, Engine!ToolAllowed,
         Proved!ToolAllowed, Engine!ReasonCodes, Proved!ReasonCodes,
         Engine!RequiredApprovals, Proved!RequiredApprovals
<1>3. \A r : Engine!DecidedStatus(r) = Proved!DecidedStatus(r)
  BY <1>2 DEF Engine!DecidedStatus, Proved!DecidedStatus
<1>4. \A c, o : Engine!Responses(c, o) = Proved!Responses(c, o)
  BY DEF Engine!Responses, Proved!Responses, Engine!FilesystemResponses,
         Proved!FilesystemResponses, Engine!ProcessResponses,
         Proved!ProcessResponses, Engine!HttpResponses, Proved!HttpResponses,
         Engine!MessagingResponses, Proved!MessagingResponses,
         Engine!BrowserResponses, Proved!BrowserResponses, Engine!Success,
         Proved!Success, Engine!Failure, Proved!Failure, Engine!NoError,
         Proved!NoError
<1>5. \A e : Engine!Verdict(e) = Proved!Verdict(e)
  BY DEF Engine!Verdict, Proved!Verdict, Engine!NoError, Proved!NoError
<1>6. QED
  BY <1>1, <1>3, <1>4, <1>5

\* A thread's step inside the engine is a step of the engine.
LEMMA StepsAgree ==
  ASSUME NEW t \in Threads, Engine!Step(t)
  PROVE  Proved!Next
<1>1. Engine!CheckTransition(t) => Proved!CheckTransition(t)
  BY OperatorsAgree
     DEF Engine!CheckTransition, Proved!CheckTransition, Engine!Id,
         Proved!Id
<1>2. Engine!RejectTransition(t) => Proved!RejectTransition(t)
  BY OperatorsAgree
     DEF Engine!RejectTransition, Proved!RejectTransition, Engine!Id,
         Proved!Id, Engine!Raise, Proved!Raise, Engine!Leave, Proved!Leave,
         Engine!NoEvidence, Proved!NoEvidence, Engine!NoError,
         Proved!NoError
<1>3. Engine!StoreValidating(t) => Proved!StoreValidating(t)
  BY OperatorsAgree
     DEF Engine!StoreValidating, Proved!StoreValidating, Engine!Store,
         Proved!Store, Engine!Set, Proved!Set, Engine!Id, Proved!Id
<1>4. Engine!StoreDenied(t) => Proved!StoreDenied(t)
  BY OperatorsAgree
     DEF Engine!StoreDenied, Proved!StoreDenied, Engine!Store, Proved!Store,
         Engine!Id, Proved!Id, Engine!DeniedEvidence, Proved!DeniedEvidence
<1>5. Engine!StoreAwaiting(t) => Proved!StoreAwaiting(t)
  BY OperatorsAgree
     DEF Engine!StoreAwaiting, Proved!StoreAwaiting, Engine!Store,
         Proved!Store, Engine!Id, Proved!Id, Engine!DeniedEvidence,
         Proved!DeniedEvidence, Engine!Return, Proved!Return, Engine!Leave,
         Proved!Leave, Engine!NoEvidence, Proved!NoEvidence, Engine!NoError,
         Proved!NoError
<1>6. Engine!StoreStraight(t) => Proved!StoreStraight(t)
  BY OperatorsAgree
     DEF Engine!StoreStraight, Proved!StoreStraight, Engine!Store,
         Proved!Store, Engine!Id, Proved!Id, Engine!Set, Proved!Set,
         Engine!Following, Proved!Following
<1>7. Engine!StoreExecuting(t) => Proved!StoreExecuting(t)
  BY OperatorsAgree
     DEF Engine!StoreExecuting, Proved!StoreExecuting, Engine!Store,
         Proved!Store, Engine!Id, Proved!Id
<1>8. Engine!StoreVerifying(t) => Proved!StoreVerifying(t)
  BY OperatorsAgree
     DEF Engine!StoreVerifying, Proved!StoreVerifying, Engine!Store,
         Proved!Store, Engine!Id, Proved!Id, Engine!Set, Proved!Set
<1>9. Engine!StoreOutcome(t) => Proved!StoreOutcome(t)
  BY OperatorsAgree
     DEF Engine!StoreOutcome, Proved!StoreOutcome, Engine!Store,
         Proved!Store, Engine!Id, Proved!Id
<1>10. Engine!InvokeAdapter(t) => Proved!InvokeAdapter(t)
  BY OperatorsAgree
     DEF Engine!InvokeAdapter, Proved!InvokeAdapter, Engine!Id, Proved!Id,
         Engine!RegisteredChannels, Proved!RegisteredChannels
<1>11. Engine!UnknownChannel(t) => Proved!UnknownChannel(t)
  BY OperatorsAgree
     DEF Engine!UnknownChannel, Proved!UnknownChannel,
         Engine!RegisteredChannels, Proved!RegisteredChannels, Engine!Raise,
         Proved!Raise, Engine!Leave, Proved!Leave, Engine!NoEvidence,
         Proved!NoEvidence, Engine!NoError, Proved!NoError
<1>12. Engine!AdapterReturns(t) => Proved!AdapterReturns(t)
  BY OperatorsAgree
     DEF Engine!AdapterReturns, Proved!AdapterReturns, Engine!Set,
         Proved!Set
<1>13. Engine!AdapterRaises(t) => Proved!AdapterRaises(t)
  BY OperatorsAgree
     DEF Engine!AdapterRaises, Proved!AdapterRaises, Engine!RaisingChannels,
         Proved!RaisingChannels, Engine!Raise, Proved!Raise, Engine!Leave,
         Proved!Leave, Engine!NoEvidence, Proved!NoEvidence, Engine!NoError,
         Proved!NoError
<1>14. Engine!AuditAppend(t) => Proved!AuditAppend(t)
  BY OperatorsAgree
     DEF Engine!AuditAppend, Proved!AuditAppend, Engine!EventKind,
         Proved!EventKind, Engine!Id, Proved!Id, Engine!Return,
         Proved!Return, Engine!Leave, Proved!Leave, Engine!NoEvidence,
         Proved!NoEvidence, Engine!NoError, Proved!NoError
<1>15. Engine!AuditRaises(t) => Proved!AuditRaises(t)
  BY OperatorsAgree
     DEF Engine!AuditRaises, Proved!AuditRaises, Engine!Raise, Proved!Raise,
         Engine!Leave, Proved!Leave, Engine!NoEvidence, Proved!NoEvidence,
         Engine!NoError, Proved!NoError
<1>16. Proved!Step(t)
  BY <1>1, <1>2, <1>3, <1>4, <1>5, <1>6, <1>7, <1>8, <1>9,
     <1>10, <1>11, <1>12, <1>13, <1>14, <1>15
     DEF Engine!Step, Proved!Step
<1>17. QED
  BY <1>16 DEF Proved!Next

-----------------------------------------------------------------------------
(* Typing.  A thread is in a handler or in the engine, never in both; and   *)
(* what it read about a task is a contract of that task.                    *)

HandlerInv(t) ==
  /\ handler[t] # Free => pc[t] = "idle"
  /\ handler[t].at \in {"begin", "scan"} =>
       handler[t].contract.task_id = handler[t].action.task_id

TypeInv ==
  /\ TypeOK
  /\ Proved!TypeInv
  /\ \A t \in Threads : HandlerInv(t)
  /\ \A id \in TaskIds : tasks[id] # None => tasks[id].task_id = id

\* Where a handler can be, and what it then holds.
LEMMA HandlerFields ==
  ASSUME TypeOK, NEW t \in Threads
  PROVE  /\ handler[t].at \in {"free", "log", "begin", "scan"}
         /\ handler[t].at = "free" <=> handler[t] = Free
         /\ handler[t].at # "free" => handler[t].contract \in Contracts
         /\ handler[t].at \in {"begin", "scan"} => handler[t].action \in Actions
         /\ handler[t].at = "scan" =>
              /\ handler[t].size \in Nat /\ handler[t].next \in Nat \ {0}
              /\ handler[t] = [at |-> "scan", action |-> handler[t].action,
                               contract |-> handler[t].contract,
                               size |-> handler[t].size, next |-> handler[t].next]
<1>1. handler[t] \in Handlers
  BY DEF TypeOK
<1>2. QED
  BY <1>1 DEF Handlers, Free

\* A request that is admitted is one the engine may get.
LEMMA AdmittedRequest ==
  ASSUME TypeInv, NEW t \in Threads, handler[t].at \in {"begin", "scan"}
  PROVE  Request(handler[t].action, handler[t].contract) \in Requests
<1>1. /\ handler[t].action \in Actions /\ handler[t].contract \in Contracts
      /\ handler[t].action.task_id = handler[t].contract.task_id
  BY HandlerFields DEF TypeInv, HandlerInv
<1>2. PICK q : q = <<handler[t].action, handler[t].contract>>
  OBVIOUS
<1>3. q \in {p \in Actions \X Contracts : p[1].task_id = p[2].task_id}
  BY <1>1, <1>2
<1>4. Request(handler[t].action, handler[t].contract) = Request(q[1], q[2])
  BY <1>2
<1>5. QED
  BY <1>3, <1>4 DEF Requests

\* A step of the control plane is one of the engine, or changes nothing of the
\* engine, or ends the process.
LEMMA EngineView ==
  ASSUME TypeInv, [Next]_vars
  PROVE  [Proved!Next]_(Proved!vars) \/ Restart
<1>1. ASSUME NEW t \in Threads, Admit(t)
      PROVE  Proved!Next
  <2>1. PICK r \in Requests : Engine!Call(t, r)
    BY <1>1, AdmittedRequest DEF Admit, Scanning
  <2>2. Proved!Call(t, r)
    BY <2>1 DEF Engine!Call, Proved!Call, Engine!InFlight, Proved!InFlight,
                Engine!Id, Proved!Id
  <2>3. QED
    BY <2>2 DEF Proved!Next
<1>2. ASSUME NEW t \in Threads, EngineStep(t)
      PROVE  Proved!Next
  BY <1>2, StepsAgree DEF EngineStep
<1>3. CASE UNCHANGED engineVars
  BY <1>3 DEF engineVars, Proved!vars
<1>4. QED
  BY <1>1, <1>2, <1>3
     DEF Next, ThreadStep, vars, StoreTask, LogTask, LogTaskRaises, Cancel,
         SubmitObservation, Tick, CreateApproval, DecideApproval, Arrive,
         BeginScan, ScanRaises, ScanNext, RefuseStale

\* The engine's part keeps its types, through restarts too.
LEMMA EngineTypeStep ==
  ASSUME TypeInv, [Next]_vars
  PROVE  Proved!TypeInv'
<1>1. CASE [Proved!Next]_(Proved!vars)
  BY <1>1, EngineParameters, Proved!TypeStep DEF TypeInv
<1>2. CASE Restart
  BY <1>2, EngineParameters
     DEF TypeInv, Restart, Proved!TypeInv, Proved!TypeOK, Proved!IdleInv,
         Proved!ActionStatus, Proved!Places, Proved!Evidences,
         Engine!NoEvidence, Proved!NoEvidence, Engine!NoError, Proved!NoError
<1>3. QED
  BY <1>1, <1>2, EngineView

\* What the step of a thread inside the engine leaves alone.
LEMMA EngineStepFrame ==
  ASSUME TypeInv, NEW t \in Threads, EngineStep(t)
  PROVE  /\ UNCHANGED apiVars
         /\ pc[t] # "idle"
         /\ \A u \in Threads : u # t => pc'[u] = pc[u]
BY DEF TypeInv, Proved!TypeInv, Proved!TypeOK, EngineStep, Engine!Step,
       Engine!CheckTransition, Engine!RejectTransition, Engine!StoreValidating,
       Engine!StoreDenied, Engine!StoreAwaiting, Engine!StoreStraight,
       Engine!StoreExecuting, Engine!StoreVerifying, Engine!StoreOutcome,
       Engine!InvokeAdapter, Engine!UnknownChannel, Engine!AdapterReturns,
       Engine!AdapterRaises, Engine!AuditAppend, Engine!AuditRaises,
       Engine!Store, Engine!Set, Engine!Raise, Engine!Return, Engine!Leave

\* A thread that goes on in its handler leaves the others where they are.
LEMMA GotoType ==
  ASSUME TypeInv, NEW t \in Threads, NEW h \in Handlers, Goto(t, h),
         pc' = pc, h # Free => pc[t] = "idle",
         h.at \in {"begin", "scan"} => h.contract.task_id = h.action.task_id
  PROVE  /\ handler' \in [Threads -> Handlers]
         /\ \A u \in Threads : HandlerInv(u)'
<1>1. handler \in [Threads -> Handlers]
  BY DEF TypeInv, TypeOK
<1>2. handler' = [handler EXCEPT ![t] = h]
  BY DEF Goto
<1>3. handler'[t] = h /\ \A u \in Threads : u # t => handler'[u] = handler[u]
  BY <1>1, <1>2
<1>4. ASSUME NEW u \in Threads
      PROVE  HandlerInv(u)'
  <2>1. CASE u = t
    BY <1>3, <2>1 DEF HandlerInv
  <2>2. CASE u # t
    BY <1>3, <2>2 DEF HandlerInv, TypeInv
  <2>3. QED
    BY <2>1, <2>2
<1>5. QED
  BY <1>1, <1>2, <1>4

\* The initial state has the right types.
LEMMA TypeInit == Init => TypeInv
<1> SUFFICES ASSUME Init PROVE TypeInv
  OBVIOUS
<1>1. Proved!Init
  BY DEF Init, Engine!Init, Proved!Init, Engine!NoEvidence, Proved!NoEvidence,
         Engine!NoError, Proved!NoError, Engine!NoEvents, Proved!NoEvents,
         Engine!AuditKinds, Proved!AuditKinds
<1>2. Proved!TypeInv
  BY <1>1, EngineParameters, Proved!TypeInit
<1>3. TypeOK
  BY ControlAssumption
     DEF ControlAssumption, Init, TypeOK, Handlers, Free, Unlogged
<1>4. \A t \in Threads : HandlerInv(t)
  BY DEF Init, HandlerInv, Free
<1>5. QED
  BY <1>2, <1>3, <1>4 DEF Init, TypeInv

\* Every step of the control plane keeps its types.
LEMMA TypeStep == TypeInv /\ [Next]_vars => TypeInv'
<1> SUFFICES ASSUME TypeInv, [Next]_vars
             PROVE  TypeInv'
  OBVIOUS
<1> DEFINE Registered == \A id \in TaskIds : tasks[id] # None => tasks[id].task_id = id
<1>a. TypeOK /\ Registered
  BY DEF TypeInv
<1>b. Proved!TypeInv'
  BY EngineTypeStep
<1>c. \A c \in Contracts : c.task_id \in TaskIds
  BY ControlAssumption DEF ControlAssumption
<1>d. \A u \in Threads : HandlerInv(u)
  BY DEF TypeInv
<1> SUFFICES TypeOK' /\ (\A u \in Threads : HandlerInv(u)') /\ Registered'
  BY <1>b DEF TypeInv
<1>1. ASSUME NEW t \in Threads, NEW c \in Contracts, StoreTask(t, c)
      PROVE  TypeOK' /\ (\A u \in Threads : HandlerInv(u)') /\ Registered'
  <2>1. [at |-> "log", contract |-> c] \in Handlers
    BY DEF Handlers
  <2>2. handler' \in [Threads -> Handlers] /\ \A u \in Threads : HandlerInv(u)'
    BY <1>1, <2>1, GotoType DEF StoreTask, Busy, engineVars
  <2>3. tasks' \in [TaskIds -> Contracts \cup {None}] /\ Registered'
    BY <1>1, <1>a, <1>c DEF StoreTask, TypeOK
  <2>4. QED
    BY <1>1, <1>a, <2>2, <2>3 DEF StoreTask, TypeOK
\* A handler that ends.
<1>2. ASSUME NEW t \in Threads, Goto(t, Free), pc' = pc
      PROVE  handler' \in [Threads -> Handlers] /\ \A u \in Threads : HandlerInv(u)'
  <2>1. Free \in Handlers
    BY DEF Handlers
  <2>2. QED
    BY <1>2, <2>1, GotoType DEF Free
<1>3. ASSUME NEW t \in Threads, LogTask(t)
      PROVE  TypeOK' /\ (\A u \in Threads : HandlerInv(u)') /\ Registered'
  <2>1. handler[t].contract \in Contracts
    BY <1>3, <1>a, HandlerFields DEF LogTask
  <2>2. taskLog' \in [TaskIds -> [goal : {None} \cup {c.goal : c \in Contracts},
                                 cancelled : BOOLEAN]]
    BY <1>3, <1>a, <1>c, <2>1 DEF LogTask, TypeOK
  <2>3. QED
    BY <1>2, <1>3, <1>a, <2>2 DEF LogTask, TypeOK, engineVars
<1>4. ASSUME NEW t \in Threads,
             LogTaskRaises(t) \/ ScanRaises(t) \/ RefuseStale(t)
      PROVE  TypeOK' /\ (\A u \in Threads : HandlerInv(u)') /\ Registered'
  BY <1>2, <1>4, <1>a DEF LogTaskRaises, ScanRaises, RefuseStale, TypeOK, engineVars
<1>5. ASSUME NEW id \in TaskIds, Cancel(id)
      PROVE  TypeOK' /\ (\A u \in Threads : HandlerInv(u)') /\ Registered'
  <2>1. taskLog' \in [TaskIds -> [goal : {None} \cup {c.goal : c \in Contracts},
                                 cancelled : BOOLEAN]]
    BY <1>5, <1>a DEF Cancel, TypeOK
  <2>2. QED
    BY <1>5, <1>a, <1>d, <2>1 DEF Cancel, TypeOK, engineVars, HandlerInv
<1>6. ASSUME NEW o \in Observations, SubmitObservation(o)
      PROVE  TypeOK' /\ (\A u \in Threads : HandlerInv(u)') /\ Registered'
  <2>1. observations' \in Seq(Observations)
    <3>1. observations \in Seq(Observations)
      BY <1>a DEF TypeOK
    <3>2. PICK K : \/ observations' = Append(observations, o)
                   \/ observations' = [i \in DOMAIN observations |->
                                         IF i \in K THEN o ELSE observations[i]]
      BY <1>6 DEF SubmitObservation
    <3>3. CASE observations' = Append(observations, o)
      BY <3>1, <3>3
    <3>4. CASE observations' = [i \in DOMAIN observations |->
                                  IF i \in K THEN o ELSE observations[i]]
      <4>1. DOMAIN observations = 1..Len(observations) /\ Len(observations) \in Nat
        BY <3>1
      <4>2. observations' \in [1..Len(observations) -> Observations]
        BY <3>1, <3>4, <4>1
      <4>3. QED
        BY <4>1, <4>2
    <3>5. QED
      BY <3>2, <3>3, <3>4
  <2>2. QED
    BY <1>6, <1>a, <1>d, <2>1 DEF SubmitObservation, TypeOK, engineVars, HandlerInv
<1>7. CASE Tick
  BY <1>7, <1>a, <1>d, ControlAssumption
     DEF ControlAssumption, Tick, TypeOK, engineVars, HandlerInv
<1>8. ASSUME NEW id \in ApprovalIds, NEW a \in ActionIds, CreateApproval(id, a)
      PROVE  TypeOK' /\ (\A u \in Threads : HandlerInv(u)') /\ Registered'
  BY <1>8, <1>a, <1>d DEF CreateApproval, TypeOK, engineVars, HandlerInv
<1>9. ASSUME NEW id \in ApprovalIds, NEW d \in {"approved", "denied"},
             DecideApproval(id, d)
      PROVE  TypeOK' /\ (\A u \in Threads : HandlerInv(u)') /\ Registered'
  BY <1>9, <1>a, <1>d DEF DecideApproval, TypeOK, engineVars, HandlerInv
<1>10. ASSUME NEW t \in Threads, NEW a \in Actions, Arrive(t, a)
       PROVE  TypeOK' /\ (\A u \in Threads : HandlerInv(u)') /\ Registered'
  <2>1. tasks[a.task_id] \in Contracts /\ tasks[a.task_id].task_id = a.task_id
    BY <1>10, <1>a, ControlAssumption DEF ControlAssumption, Arrive, TypeOK
  <2>2. PICK h \in Handlers :
          h = [at |-> "begin", action |-> a, contract |-> tasks[a.task_id]]
    BY <2>1 DEF Handlers
  <2>3. handler' \in [Threads -> Handlers] /\ \A u \in Threads : HandlerInv(u)'
    BY <1>10, <2>1, <2>2, GotoType DEF Arrive, Busy, engineVars
  <2>4. QED
    BY <1>10, <1>a, <2>3 DEF Arrive, TypeOK
<1>11. ASSUME NEW t \in Threads, BeginScan(t)
       PROVE  TypeOK' /\ (\A u \in Threads : HandlerInv(u)') /\ Registered'
  <2>1. /\ handler[t].action \in Actions /\ handler[t].contract \in Contracts
        /\ Len(observations) \in Nat
    BY <1>11, <1>a, HandlerFields DEF BeginScan, TypeOK
  <2>2. PICK h : h = [at |-> "scan", action |-> handler[t].action,
                      contract |-> handler[t].contract,
                      size |-> Len(observations), next |-> 1]
    OBVIOUS
  <2>3. h \in Handlers
    BY <2>1, <2>2 DEF Handlers
  <2>4. /\ pc[t] = "idle"
        /\ handler[t].contract.task_id = handler[t].action.task_id
    BY <1>11, <1>d, HandlerFields DEF BeginScan, HandlerInv, Free
  <2>5. handler' \in [Threads -> Handlers] /\ \A u \in Threads : HandlerInv(u)'
    BY <1>11, <2>2, <2>3, <2>4, GotoType DEF BeginScan, engineVars
  <2>6. QED
    BY <1>11, <1>a, <2>5 DEF BeginScan, TypeOK
<1>12. ASSUME NEW t \in Threads, ScanNext(t)
       PROVE  TypeOK' /\ (\A u \in Threads : HandlerInv(u)') /\ Registered'
  <2>1. /\ handler[t].action \in Actions /\ handler[t].contract \in Contracts
        /\ handler[t].size \in Nat /\ handler[t].next \in Nat \ {0}
        /\ handler[t] = [at |-> "scan", action |-> handler[t].action,
                         contract |-> handler[t].contract,
                         size |-> handler[t].size, next |-> handler[t].next]
    BY <1>12, <1>a, HandlerFields DEF ScanNext, Scanning
  <2>2. PICK h : h = [at |-> "scan", action |-> handler[t].action,
                      contract |-> handler[t].contract,
                      size |-> handler[t].size, next |-> handler[t].next + 1]
    OBVIOUS
  <2>3. h \in Handlers /\ h = [handler[t] EXCEPT !.next = @ + 1]
    BY <2>1, <2>2 DEF Handlers
  <2>4. /\ pc[t] = "idle"
        /\ handler[t].contract.task_id = handler[t].action.task_id
    BY <1>12, <1>d, HandlerFields DEF ScanNext, Scanning, HandlerInv, Free
  <2>5. handler' \in [Threads -> Handlers] /\ \A u \in Threads : HandlerInv(u)'
    BY <1>12, <2>2, <2>3, <2>4, GotoType DEF ScanNext, engineVars
  <2>6. QED
    BY <1>12, <1>a, <2>5 DEF ScanNext, TypeOK
<1>13. ASSUME NEW t \in Threads, Admit(t)
       PROVE  TypeOK' /\ (\A u \in Threads : HandlerInv(u)') /\ Registered'
  <2>1. handler' \in [Threads -> Handlers]
    BY <1>13, <1>a DEF Admit, Goto, TypeOK, Handlers
  <2>2. /\ handler'[t] = Free
        /\ \A u \in Threads : u # t => handler'[u] = handler[u] /\ pc'[u] = pc[u]
    BY <1>13, <1>a DEF Admit, Goto, TypeOK, Engine!Call, TypeInv, Proved!TypeInv,
                       Proved!TypeOK
  <2>3. \A u \in Threads : HandlerInv(u)'
    BY <1>d, <2>2 DEF HandlerInv, Free
  <2>4. QED
    BY <1>13, <1>a, <2>1, <2>3 DEF Admit, TypeOK
<1>14. ASSUME NEW t \in Threads, EngineStep(t)
       PROVE  TypeOK' /\ (\A u \in Threads : HandlerInv(u)') /\ Registered'
  <2>1. /\ UNCHANGED apiVars
        /\ pc[t] # "idle"
        /\ \A u \in Threads : u # t => pc'[u] = pc[u]
    BY <1>14, EngineStepFrame
  <2>2. \A u \in Threads : HandlerInv(u)'
    BY <1>d, <2>1 DEF HandlerInv, apiVars, Free
  <2>3. QED
    BY <1>a, <2>1, <2>2 DEF apiVars, TypeOK
<1>15. CASE Restart
  <2>1. restarts' \in 0..MaxRestarts
    BY <1>15, <1>a, ControlAssumption DEF ControlAssumption, Restart, TypeOK
  <2>2. \A u \in Threads : HandlerInv(u)'
    BY <1>15 DEF Restart, HandlerInv, Free
  <2>3. QED
    BY <1>15, <1>a, <2>1, <2>2 DEF Restart, TypeOK, Handlers
<1>16. CASE UNCHANGED vars
  BY <1>16, <1>a, <1>d DEF vars, engineVars, apiVars, TypeOK, HandlerInv
<1>17. QED
  BY <1>1, <1>3, <1>4, <1>5, <1>6, <1>7, <1>8, <1>9, <1>10, <1>11, <1>12, <1>13,
     <1>14, <1>15, <1>16 DEF Next, ThreadStep

\* The control plane's variables have their types in every state.
LEMMA TypeInvariance == Spec => []TypeInv
BY TypeInit, TypeStep, PTL DEF Spec

\* The API's tables keep their types under all interleavings and restarts.
THEOREM Typing == Spec => []TypeOK
<1>1. TypeInv => TypeOK
  BY DEF TypeInv
<1>2. QED
  BY <1>1, TypeInvariance, PTL

-----------------------------------------------------------------------------
(* What the engine's theorems say of the control plane.                     *)

\* No thread is past the policy check without an authorization.
LEMMA PermitStep ==
  TypeInv /\ Proved!PermitInv /\ [Next]_vars => Proved!PermitInv'
<1> SUFFICES ASSUME TypeInv, Proved!PermitInv, [Next]_vars
             PROVE  Proved!PermitInv'
  OBVIOUS
<1>1. CASE [Proved!Next]_(Proved!vars)
  BY <1>1, EngineParameters, Proved!PermitStep DEF TypeInv
<1>2. CASE Restart
  BY <1>2 DEF Restart, Proved!PermitInv
<1>3. QED
  BY <1>1, <1>2, EngineView

\* Through the API, too, adapters run only for what the policy allows: under
\* any overlap, with any approvals, and after any restart.
THEOREM OnlyPermittedExecuteHolds == Spec => []OnlyPermittedExecute
<1>1. Init => Proved!PermitInv
  BY DEF Init, Engine!Init, Proved!PermitInv
<1>2. TypeInv /\ Proved!PermitInv => OnlyPermittedExecute
  <2>1. TypeInv /\ Proved!PermitInv => Proved!OnlyPermittedExecute
    BY EngineParameters, Proved!PermitImplied DEF TypeInv
  <2>2. Proved!OnlyPermittedExecute => OnlyPermittedExecute
    BY DEF OnlyPermittedExecute, Engine!OnlyPermittedExecute,
           Proved!OnlyPermittedExecute
  <2>3. QED
    BY <2>1, <2>2
<1>3. QED
  BY <1>1, <1>2, PermitStep, TypeInvariance, PTL DEF Spec

\* The two modules mean the same by a finite set.
LEMMA FinitenessAgrees == IsFiniteSet(Threads) => Proved!IsFiniteSet(Threads)
BY DEF IsFiniteSet, Proved!IsFiniteSet

\* A process that ends leaves events unwritten, and writes none of its own.
LEMMA OwedStep ==
  ASSUME IsFiniteSet(Threads)
  PROVE  TypeInv /\ Proved!OwedInv /\ [Next]_vars => Proved!OwedInv'
<1> SUFFICES ASSUME TypeInv, Proved!OwedInv, [Next]_vars
             PROVE  Proved!OwedInv'
  OBVIOUS
<1>1. CASE [Proved!Next]_(Proved!vars)
  BY <1>1, EngineParameters, FinitenessAgrees, Proved!OwedStep DEF TypeInv
<1>2. CASE Restart
  <2>1. ASSUME NEW a \in ActionIds
        PROVE  Proved!ExecutionEvents(a)' + Proved!Cardinality(Proved!Owing(a)') <= calls'[a]
    <3>1. \A t \in Threads : ~Proved!Owes(t)'
      BY <1>2 DEF Restart, Proved!Owes
    <3>2. audit'[a] = audit[a] /\ calls'[a] = calls[a]
      BY <1>2 DEF Restart
    <3>3. QED
      BY <3>1, <3>2, EngineParameters, FinitenessAgrees, Proved!FewerOwe DEF TypeInv
  <2>2. QED
    BY <2>1 DEF Proved!OwedInv
<1>3. QED
  BY <1>1, <1>2, EngineView

\* The audit never tells of an execution that did not happen: not when requests
\* for one action overlap, and not after restarts.
THEOREM AuditedCallsHappenedHolds ==
  ASSUME IsFiniteSet(Threads)
  PROVE  Spec => []AuditedCallsHappened
<1>1. Init => Proved!OwedInv
  <2>1. Init => Proved!Init
    BY DEF Init, Engine!Init, Proved!Init, Engine!NoEvidence, Proved!NoEvidence,
           Engine!NoError, Proved!NoError, Engine!NoEvents, Proved!NoEvents,
           Engine!AuditKinds, Proved!AuditKinds
  <2>2. QED
    BY <2>1, EngineParameters, Proved!OwedInit
<1>2. TypeInv /\ Proved!OwedInv => AuditedCallsHappened
  <2>1. TypeInv /\ Proved!OwedInv => Proved!AuditedCallsHappened
    BY EngineParameters, FinitenessAgrees, Proved!OwedImplied DEF TypeInv
  <2>2. Proved!AuditedCallsHappened => AuditedCallsHappened
    BY DEF AuditedCallsHappened, Engine!AuditedCallsHappened,
           Proved!AuditedCallsHappened
  <2>3. QED
    BY <2>1, <2>2
<1>3. TypeInv /\ Proved!OwedInv /\ [Next]_vars => Proved!OwedInv'
  BY OwedStep
<1>4. QED
  BY <1>1, <1>2, <1>3, TypeInvariance, PTL DEF Spec

\* In the life of a process, the calls of an action are counted from those of
\* the processes before it, which were one each at most.
LifeInv ==
  \E base \in [ActionIds -> Nat] :
    /\ \A a \in ActionIds : base[a] <= restarts
    /\ Proved!LifecycleFrom(base)

\* Statuses and calls stay in step during a process's life, and the next life
\* starts from where this one ends.
LEMMA LifeStep ==
  ASSUME ~AllowOverlap
  PROVE  TypeInv /\ LifeInv /\ [Next]_vars => LifeInv'
<1> SUFFICES ASSUME TypeInv, LifeInv, [Next]_vars
             PROVE  LifeInv'
  OBVIOUS
<1>1. PICK base \in [ActionIds -> Nat] :
        /\ \A a \in ActionIds : base[a] <= restarts
        /\ Proved!LifecycleFrom(base)
  BY DEF LifeInv
<1>2. restarts \in Nat /\ calls \in [ActionIds -> Nat]
  BY ControlAssumption
     DEF ControlAssumption, TypeInv, TypeOK, Proved!TypeInv, Proved!TypeOK
<1>3. CASE [Proved!Next]_(Proved!vars) /\ ~Restart
  <2>1. Proved!LifecycleFrom(base)'
    BY <1>1, <1>3, EngineParameters, Proved!LifecycleStep DEF TypeInv
  <2>2. restarts' = restarts
    BY <1>3
       DEF Next, ThreadStep, vars, apiVars, StoreTask, LogTask, LogTaskRaises,
           Cancel, SubmitObservation, Tick, CreateApproval, DecideApproval,
           Arrive, BeginScan, ScanRaises, ScanNext, RefuseStale, Admit,
           EngineStep
  <2>3. QED
    BY <1>1, <2>1, <2>2 DEF LifeInv
<1>4. CASE Restart
  <2>1. PICK b \in [ActionIds -> Nat] : b = calls
    BY <1>2
  <2>2. \A a \in ActionIds : b[a] <= restarts'
    <3>1. \A a \in ActionIds : calls[a] \in {base[a], base[a] + 1}
      BY <1>1 DEF Proved!LifecycleFrom, Proved!ActionInv
    <3>2. restarts' = restarts + 1
      BY <1>4 DEF Restart
    <3>3. QED
      BY <1>1, <1>2, <2>1, <3>1, <3>2
  <2>3. calls' = b /\ states' = [a \in ActionIds |-> "PROPOSED"]
    BY <1>4, <2>1 DEF Restart
  <2>4. Proved!LifecycleFrom(b)'
    <3>1. Proved!ExclusiveInv' /\ \A t \in Threads : Proved!ThreadInv(b, t)'
      BY <1>4 DEF Restart, Proved!ExclusiveInv, Proved!ThreadInv
    <3>2. \A a \in ActionIds : Proved!ActionInv(b, a)'
      BY <2>1, <2>3
         DEF Proved!ActionInv, Proved!BeforeExecution, Proved!AfterExecution
    <3>3. QED
      BY <2>1, <3>1, <3>2 DEF Proved!LifecycleFrom
  <2>5. QED
    BY <2>1, <2>2, <2>4 DEF LifeInv
<1>5. QED
  BY <1>3, <1>4, EngineView

\* What the calls are counted from exists at every moment.
LEMMA LifeInvariance ==
  ASSUME ~AllowOverlap
  PROVE  Spec => [](TypeInv /\ LifeInv)
<1>1. Init => LifeInv
  <2> SUFFICES ASSUME Init PROVE LifeInv
    OBVIOUS
  <2>1. PICK b \in [ActionIds -> Nat] : b = [a \in ActionIds |-> 0]
    OBVIOUS
  <2>2. Proved!LifecycleFrom(b)
    BY <2>1
       DEF Init, Engine!Init, Proved!LifecycleFrom, Proved!ExclusiveInv,
           Proved!ThreadInv, Proved!ActionInv, Proved!BeforeExecution,
           Proved!AfterExecution
  <2>3. QED
    BY <2>1, <2>2 DEF Init, LifeInv
<1>2. TypeInv /\ LifeInv /\ [Next]_vars => LifeInv'
  BY LifeStep
<1>3. QED
  BY <1>1, <1>2, TypeInvariance, PTL DEF Spec

\* Where requests for one action do not overlap, only a restart makes a second
\* call of its adapter possible.
THEOREM OncePerLifeHolds ==
  ASSUME ~AllowOverlap
  PROVE  Spec => []OncePerLife
<1>1. TypeInv /\ LifeInv => OncePerLife
  <2> SUFFICES ASSUME TypeInv, LifeInv, NEW a \in ActionIds
               PROVE  calls[a] <= 1 + restarts
    BY DEF OncePerLife
  <2>1. PICK base \in [ActionIds -> Nat] :
          /\ \A b \in ActionIds : base[b] <= restarts
          /\ Proved!LifecycleFrom(base)
    BY DEF LifeInv
  <2>2. calls[a] \in {base[a], base[a] + 1} /\ base[a] <= restarts /\ base[a] \in Nat
    BY <2>1 DEF Proved!LifecycleFrom, Proved!ActionInv
  <2>3. restarts \in Nat
    BY ControlAssumption DEF ControlAssumption, TypeInv, TypeOK
  <2>4. QED
    BY <2>2, <2>3
<1>2. QED
  BY <1>1, LifeInvariance, PTL

\* In the life of a process the statuses only move along the life cycle, and an
\* adapter is only called for an action that is EXECUTING.
LifecycleKept ==
  /\ \A a \in ActionIds : states'[a] # states[a] =>
       Engine!ValidTransition(states[a], states'[a])
  /\ \A a \in ActionIds : calls'[a] # calls[a] =>
       calls'[a] = calls[a] + 1 /\ states[a] = "EXECUTING"

\* The engine calls an adapter from EXECUTING only, once at a time.
LEMMA CallsAreExecutions ==
  ASSUME NEW base, TypeInv, Proved!LifecycleFrom(base), [Proved!Next]_(Proved!vars)
  PROVE  \A a \in ActionIds : calls'[a] # calls[a] =>
           calls'[a] = calls[a] + 1 /\ states[a] = "EXECUTING"
<1>1. UNCHANGED calls \/ \E t \in Threads : Proved!InvokeAdapter(t)
  BY DEF Proved!Next, Proved!Step, Proved!vars, Proved!Call, Proved!CheckTransition,
         Proved!RejectTransition, Proved!StoreValidating, Proved!StoreDenied,
         Proved!StoreAwaiting, Proved!StoreStraight, Proved!StoreExecuting,
         Proved!StoreVerifying, Proved!StoreOutcome, Proved!UnknownChannel,
         Proved!AdapterReturns, Proved!AdapterRaises, Proved!AuditAppend,
         Proved!AuditRaises
<1>2. ASSUME NEW t \in Threads, Proved!InvokeAdapter(t)
      PROVE  \A a \in ActionIds : calls'[a] # calls[a] =>
               calls'[a] = calls[a] + 1 /\ states[a] = "EXECUTING"
  <2>1. states[Proved!Id(t)] = "EXECUTING"
    BY <1>2 DEF Proved!InvokeAdapter, Proved!LifecycleFrom, Proved!ThreadInv
  <2>2. QED
    BY <1>2, <2>1 DEF Proved!InvokeAdapter, TypeInv, Proved!TypeInv, Proved!TypeOK
<1>3. QED
  BY <1>1, <1>2

\* Behind the API, with its restarts, contracts and observations, the engine
\* still follows the life cycle: only a restart sets a status back.
THEOREM OnlyRestartSetsBack ==
  ASSUME ~AllowOverlap
  PROVE  Spec => [][Restart \/ LifecycleKept]_vars
<1>1. TypeInv /\ LifeInv /\ [Next]_vars => [Restart \/ LifecycleKept]_vars
  <2> SUFFICES ASSUME TypeInv, LifeInv, [Next]_vars, ~Restart
               PROVE  LifecycleKept
    OBVIOUS
  <2>1. PICK base \in [ActionIds -> Nat] : Proved!LifecycleFrom(base)
    BY DEF LifeInv
  <2>2. [Proved!Next]_(Proved!vars)
    BY EngineView
  <2>3. \A a \in ActionIds : states'[a] # states[a] =>
          Proved!ValidTransition(states[a], states'[a])
    BY <2>1, <2>2, EngineParameters, Proved!StepIsLegal DEF TypeInv
  <2>4. QED
    BY <2>1, <2>2, <2>3, OperatorsAgree, CallsAreExecutions DEF LifecycleKept
<1>2. QED
  BY <1>1, LifeInvariance, PTL DEF Spec

-----------------------------------------------------------------------------
(* The log names the contract in force, when creations of one task do not   *)
(* overlap and no append fails.                                             *)

Logging(t) == handler[t].at = "log"

LogInv ==
  /\ \A t, u \in Threads :
       Logging(t) /\ Logging(u)
         /\ handler[t].contract.task_id = handler[u].contract.task_id => t = u
  /\ \A t \in Threads :
       Logging(t) => tasks[handler[t].contract.task_id] = handler[t].contract
  /\ LogNamesContract

\* A step that creates no task, logs none and drops none.
LEMMA LogUndisturbed ==
  ASSUME LogInv,
         \A t \in Threads : \/ handler'[t] = handler[t]
                            \/ ~Logging(t) /\ ~Logging(t)',
         UNCHANGED tasks,
         \A id \in TaskIds : taskLog'[id].goal = taskLog[id].goal
  PROVE  LogInv'
<1>1. \A t \in Threads : /\ Logging(t)' <=> Logging(t)
                         /\ Logging(t) => handler'[t] = handler[t]
  BY DEF Logging
<1>2. \A id \in TaskIds : Creating(id)' <=> Creating(id)
  BY <1>1 DEF Creating, Logging
<1>3. LogNamesContract'
  BY <1>2 DEF LogInv, LogNamesContract
<1>4. QED
  BY <1>1, <1>3 DEF LogInv

\* Every step keeps log and contracts in agreement.
LEMMA LogStep ==
  ASSUME ~AllowOverlap, ~AuditMayFail
  PROVE  TypeInv /\ LogInv /\ [Next]_vars => LogInv'
<1> SUFFICES ASSUME TypeInv, LogInv, [Next]_vars
             PROVE  LogInv'
  OBVIOUS
<1>a. handler \in [Threads -> Handlers]
  BY DEF TypeInv, TypeOK
<1>b. tasks \in [TaskIds -> Contracts \cup {None}]
  BY DEF TypeInv, TypeOK
<1>c. taskLog \in [TaskIds -> [goal : {None} \cup {c.goal : c \in Contracts},
                              cancelled : BOOLEAN]]
  BY DEF TypeInv, TypeOK
<1>1. ASSUME NEW t \in Threads, NEW c \in Contracts, StoreTask(t, c)
      PROVE  LogInv'
  <2>1. PICK id \in TaskIds : id = c.task_id
    BY ControlAssumption DEF ControlAssumption
  <2>2. /\ handler'[t] = [at |-> "log", contract |-> c]
        /\ \A u \in Threads : u # t => handler'[u] = handler[u]
    BY <1>1, <1>a DEF StoreTask, Goto
  <2>3. /\ tasks'[id] = c
        /\ \A i \in TaskIds : i # id => tasks'[i] = tasks[i]
        /\ UNCHANGED taskLog
    BY <1>1, <1>b, <2>1 DEF StoreTask
  <2>4. \A u \in Threads : Logging(u) => handler[u].contract.task_id # id
    BY <1>1, <2>1 DEF StoreTask, Creating, Logging
  <2>5. \A u \in Threads : Logging(u) => handler[u].contract.task_id \in TaskIds
    BY HandlerFields, ControlAssumption DEF ControlAssumption, TypeInv, Logging
  <2>6. Creating(id)' /\ \A i \in TaskIds : Creating(i) /\ i # id => Creating(i)'
    <3>1. Creating(id)'
      BY <2>1, <2>2 DEF Creating
    <3>2. ASSUME NEW i \in TaskIds, Creating(i), i # id
          PROVE  Creating(i)'
      <4>1. PICK u \in Threads : Logging(u) /\ handler[u].contract.task_id = i
        BY <3>2 DEF Creating, Logging
      <4>2. u # t
        BY <1>1, <4>1 DEF StoreTask, Busy, Logging, Free
      <4>3. QED
        BY <2>2, <4>1, <4>2 DEF Creating, Logging
    <3>3. QED
      BY <3>1, <3>2
  <2>7. LogNamesContract'
    BY <2>3, <2>6 DEF LogInv, LogNamesContract
  <2>8. \A u \in Threads : Logging(u)' =>
           tasks'[handler'[u].contract.task_id] = handler'[u].contract
    BY <2>1, <2>2, <2>3, <2>4, <2>5 DEF LogInv, Logging
  <2>9. \A u, v \in Threads :
          Logging(u)' /\ Logging(v)'
            /\ handler'[u].contract.task_id = handler'[v].contract.task_id => u = v
    BY <2>1, <2>2, <2>4 DEF LogInv, Logging
  <2>10. QED
    BY <2>7, <2>8, <2>9 DEF LogInv
<1>2. ASSUME NEW t \in Threads, LogTask(t)
      PROVE  LogInv'
  <2>1. PICK c \in Contracts : c = handler[t].contract
    BY <1>2, HandlerFields DEF LogTask, TypeInv
  <2>2. PICK id \in TaskIds : id = c.task_id
    BY ControlAssumption DEF ControlAssumption
  <2>3. /\ handler'[t] = Free
        /\ \A u \in Threads : u # t => handler'[u] = handler[u]
        /\ UNCHANGED tasks
    BY <1>2, <1>a DEF LogTask, Goto
  <2>4. /\ taskLog'[id].goal = c.goal
        /\ \A i \in TaskIds : i # id => taskLog'[i] = taskLog[i]
    BY <1>2, <1>c, <2>1, <2>2 DEF LogTask
  <2>5. tasks[id] = c
    BY <1>2, <2>1, <2>2 DEF LogTask, LogInv, Logging
  <2>6. \A i \in TaskIds : i # id => (Creating(i) => Creating(i)')
    BY <2>1, <2>2, <2>3 DEF Creating
  <2>7. LogNamesContract'
    BY <2>3, <2>4, <2>5, <2>6 DEF LogInv, LogNamesContract
  <2>8. ~Logging(t)' /\ \A u \in Threads : u # t => handler'[u] = handler[u]
    BY <2>3 DEF Logging, Free
  <2>9. QED
    BY <2>3, <2>7, <2>8 DEF LogInv, Logging
<1>3. ASSUME NEW t \in Threads, NEW h, Goto(t, h), ~Logging(t), h.at # "log",
             UNCHANGED <<tasks, taskLog>>
      PROVE  LogInv'
  <2>1. handler'[t] = h /\ \A u \in Threads : u # t => handler'[u] = handler[u]
    BY <1>3, <1>a DEF Goto
  <2>2. ~Logging(t)'
    BY <1>3, <2>1 DEF Logging
  <2>3. QED
    BY <1>3, <2>1, <2>2, LogUndisturbed
<1>4. ASSUME NEW t \in Threads, NEW a \in Actions, Arrive(t, a)
      PROVE  LogInv'
  BY <1>3, <1>4 DEF Arrive, Busy, Logging, Free
<1>5. ASSUME NEW t \in Threads, BeginScan(t)
      PROVE  LogInv'
  BY <1>3, <1>5 DEF BeginScan, Logging
<1>6. ASSUME NEW t \in Threads, ScanRaises(t) \/ RefuseStale(t) \/ Admit(t)
      PROVE  LogInv'
  BY <1>3, <1>6 DEF ScanRaises, RefuseStale, Admit, Scanning, Logging, Free
<1>7. ASSUME NEW t \in Threads, ScanNext(t)
      PROVE  LogInv'
  <2>1. handler[t].at = "scan" /\ ~Logging(t)
    BY <1>7 DEF ScanNext, Scanning, Logging
  <2>2. PICK h : h = [handler[t] EXCEPT !.next = @ + 1]
    OBVIOUS
  <2>3. h.at # "log"
    BY <2>1, <2>2, HandlerFields DEF TypeInv
  <2>4. QED
    BY <1>3, <1>7, <2>1, <2>2, <2>3 DEF ScanNext
<1>8. ASSUME NEW id \in TaskIds, Cancel(id)
      PROVE  LogInv'
  <2>1. \A i \in TaskIds : taskLog'[i].goal = taskLog[i].goal
    BY <1>8, <1>c DEF Cancel
  <2>2. QED
    BY <1>8, <2>1, LogUndisturbed DEF Cancel
<1>9. CASE UNCHANGED <<tasks, taskLog, handler>>
  BY <1>9, LogUndisturbed
<1>10. CASE Restart
  BY <1>10 DEF Restart, LogInv, LogNamesContract, Logging, Free
<1>11. QED
  BY <1>1, <1>2, <1>4, <1>5, <1>6, <1>7, <1>8, <1>9, <1>10
     DEF Next, ThreadStep, vars, apiVars, LogTaskRaises, SubmitObservation, Tick,
         CreateApproval, DecideApproval, EngineStep

\* Where creations of one task do not overlap and no append fails, the log names
\* the contract in force, through any number of restarts.
THEOREM LogNamesContractHolds ==
  ASSUME ~AllowOverlap, ~AuditMayFail
  PROVE  Spec => []LogNamesContract
<1>1. Init => LogInv
  BY DEF Init, LogInv, LogNamesContract, Logging, Free
<1>2. TypeInv /\ LogInv /\ [Next]_vars => LogInv'
  BY LogStep
<1>3. LogInv => LogNamesContract
  BY DEF LogInv
<1>4. QED
  BY <1>1, <1>2, <1>3, TypeInvariance, PTL DEF Spec

-----------------------------------------------------------------------------
(* Admission sees the first match, when no observation id comes twice: the  *)
(* entries that a scan has passed are those that were there.                *)

Passed(t) ==
  handler[t].at = "scan" =>
    /\ handler[t].size <= Len(observations)
    /\ handler[t].next <= handler[t].size + 1
    /\ \A i \in 1..(handler[t].next - 1) :
         ~Matches(observations[i], handler[t].action)

ScanInv == \A t \in Threads : Passed(t)

\* Every step keeps the entries that a scan has passed.
LEMMA ScanStep ==
  ASSUME ~AllowResubmit
  PROVE  TypeInv /\ ScanInv /\ [Next]_vars => ScanInv'
<1> SUFFICES ASSUME TypeInv, ScanInv, [Next]_vars
             PROVE  ScanInv'
  OBVIOUS
<1>a. handler \in [Threads -> Handlers]
  BY DEF TypeInv, TypeOK
<1>b. observations \in Seq(Observations) /\ Len(observations) \in Nat
  BY DEF TypeInv, TypeOK
\* A thread moves in its handler, and the dictionary is as it was.
<1>1. ASSUME NEW t \in Threads, NEW h, Goto(t, h), UNCHANGED observations, Passed(t)'
      PROVE  ScanInv'
  <2>1. \A u \in Threads : u # t => handler'[u] = handler[u]
    BY <1>1, <1>a DEF Goto
  <2>2. QED
    BY <1>1, <2>1 DEF ScanInv, Passed
<1>2. ASSUME NEW t \in Threads, NEW h, Goto(t, h), UNCHANGED observations, h.at # "scan"
      PROVE  ScanInv'
  <2>1. handler'[t] = h
    BY <1>2, <1>a DEF Goto
  <2>2. QED
    BY <1>1, <1>2, <2>1 DEF Passed
<1>3. ASSUME NEW t \in Threads, NEW c \in Contracts, StoreTask(t, c)
      PROVE  ScanInv'
  BY <1>2, <1>3 DEF StoreTask
<1>4. ASSUME NEW t \in Threads, NEW a \in Actions, Arrive(t, a)
      PROVE  ScanInv'
  BY <1>2, <1>4 DEF Arrive
<1>5. ASSUME NEW t \in Threads,
             LogTask(t) \/ LogTaskRaises(t) \/ ScanRaises(t) \/ RefuseStale(t) \/ Admit(t)
      PROVE  ScanInv'
  BY <1>2, <1>5 DEF LogTask, LogTaskRaises, ScanRaises, RefuseStale, Admit, Free
<1>6. ASSUME NEW t \in Threads, BeginScan(t)
      PROVE  ScanInv'
  <2>1. PICK h : /\ Goto(t, h) /\ h.size = Len(observations)
                 /\ h.next = 1 /\ UNCHANGED observations
    BY <1>6 DEF BeginScan
  <2>2. handler'[t] = h
    BY <1>a, <2>1 DEF Goto
  <2>3. Passed(t)'
    BY <1>b, <2>1, <2>2 DEF Passed
  <2>4. QED
    BY <1>1, <2>1, <2>3
<1>7. ASSUME NEW t \in Threads, ScanNext(t)
      PROVE  ScanInv'
  <2>1. /\ handler[t].at = "scan"
        /\ handler[t].size \in Nat /\ handler[t].next \in Nat \ {0}
        /\ handler[t] = [at |-> "scan", action |-> handler[t].action,
                         contract |-> handler[t].contract,
                         size |-> handler[t].size, next |-> handler[t].next]
    BY <1>7, HandlerFields DEF TypeInv, ScanNext, Scanning
  <2>2. PICK h : h = [handler[t] EXCEPT !.next = @ + 1]
    OBVIOUS
  <2>3. /\ h.action = handler[t].action /\ h.size = handler[t].size
        /\ h.next = handler[t].next + 1
    BY <2>1, <2>2
  <2>4. Goto(t, h) /\ UNCHANGED observations /\ handler'[t] = h
    BY <1>7, <1>a, <2>2 DEF ScanNext, Goto
  <2>5. /\ handler[t].next <= handler[t].size
        /\ ~Matches(observations[handler[t].next], handler[t].action)
    BY <1>7, <2>1 DEF ScanNext, Exhausted, Found
  <2>6. Passed(t)
    BY DEF ScanInv
  <2>7. \A i \in 1..(h.next - 1) : ~Matches(observations[i], h.action)
    BY <2>1, <2>3, <2>5, <2>6 DEF Passed
  <2>8. Passed(t)'
    <3>1. /\ handler'[t].action = h.action /\ handler'[t].size = handler[t].size
          /\ handler'[t].next = h.next
      BY <2>3, <2>4
    <3>2. /\ handler'[t].size <= Len(observations')
          /\ handler'[t].next <= handler'[t].size + 1
      BY <2>1, <2>3, <2>4, <2>5, <2>6, <3>1 DEF Passed
    <3>3. \A i \in 1..(handler'[t].next - 1) :
            ~Matches(observations'[i], handler'[t].action)
      BY <2>4, <2>7, <3>1
    <3>4. (\A i \in 1..(handler[t].next - 1) :
             ~Matches(observations[i], handler[t].action))'
      BY <3>3 DEF Matches
    <3>5. QED
      BY <3>2, <3>4 DEF Passed
  <2>9. QED
    BY <1>1, <2>4, <2>8
<1>8. ASSUME NEW o \in Observations, SubmitObservation(o)
      PROVE  ScanInv'
  <2>1. observations' = Append(observations, o) /\ UNCHANGED handler
    BY <1>8 DEF SubmitObservation
  <2>2. /\ Len(observations') = Len(observations) + 1
        /\ \A i \in 1..Len(observations) : observations'[i] = observations[i]
    BY <1>b, <2>1
  <2>3. ASSUME NEW t \in Threads, handler[t].at = "scan"
        PROVE  Passed(t)'
    <3>1. handler[t].size \in Nat /\ handler[t].next \in Nat
      BY <2>3, HandlerFields DEF TypeInv
    <3>2. \A i \in 1..(handler[t].next - 1) :
             i \in 1..Len(observations) /\ ~Matches(observations[i], handler[t].action)
      BY <1>b, <2>3, <3>1 DEF ScanInv, Passed
    <3>3. \A i \in 1..(handler[t].next - 1) : ~Matches(observations'[i], handler[t].action)
      BY <2>2, <3>2
    <3>4. (\A i \in 1..(handler[t].next - 1) :
             ~Matches(observations[i], handler[t].action))'
      BY <2>1, <3>3 DEF Matches
    <3>5. /\ handler[t].size <= Len(observations')
          /\ handler[t].next <= handler[t].size + 1
      BY <1>b, <2>2, <2>3, <3>1 DEF ScanInv, Passed
    <3>6. QED
      BY <2>1, <3>4, <3>5 DEF Passed
  <2>4. QED
    BY <2>1, <2>3 DEF ScanInv, Passed
<1>9. CASE UNCHANGED <<observations, handler>>
  BY <1>9 DEF ScanInv, Passed
<1>10. CASE Restart
  BY <1>10 DEF Restart, ScanInv, Passed, Free
<1>11. QED
  BY <1>3, <1>4, <1>5, <1>6, <1>7, <1>8, <1>9, <1>10
     DEF Next, ThreadStep, vars, apiVars, Cancel, Tick, CreateApproval,
         DecideApproval, EngineStep

\* Only an admission takes a thread from its scan into the engine.
LEMMA ScanEndsInAdmission ==
  ASSUME TypeInv, [Next]_vars, NEW t \in Threads,
         handler[t].at = "scan", pc'[t] = "check"
  PROVE  Admit(t)
<1>1. pc[t] = "idle"
  BY DEF TypeInv, HandlerInv, Free
<1>2. ASSUME NEW u \in Threads, EngineStep(u)
      PROVE  FALSE
  <2>1. pc[u] # "idle" /\ (u # t => pc'[t] = pc[t])
    BY <1>2, EngineStepFrame
  <2>2. QED
    BY <1>1, <2>1
<1>3. ASSUME NEW u \in Threads, Admit(u)
      PROVE  u = t
  BY <1>1, <1>3 DEF Admit, Engine!Call, TypeInv, Proved!TypeInv, Proved!TypeOK
<1>4. QED
  BY <1>1, <1>2, <1>3
     DEF Next, ThreadStep, vars, engineVars, StoreTask, LogTask, LogTaskRaises,
         Cancel, SubmitObservation, Tick, CreateApproval, DecideApproval,
         Arrive, BeginScan, ScanRaises, ScanNext, RefuseStale, Restart

\* Where no observation id is submitted twice, a request enters the engine only
\* if the first observation of its version is fresh, or none is there, whatever
\* came in during the scan.
THEOREM AdmissionChecksFirstMatchHolds ==
  ASSUME ~AllowResubmit
  PROVE  Spec => AdmissionChecksFirstMatch
<1>1. ASSUME TypeInv, ScanInv, [Next]_vars, NEW t \in Threads,
             handler[t].at = "scan", pc'[t] = "check",
             NEW i \in MatchesOf(handler[t].action),
             \A j \in MatchesOf(handler[t].action) : i <= j
      PROVE  ~Stale(observations[i])
  <2>1. Admit(t)
    BY <1>1, ScanEndsInAdmission
  <2>2. /\ observations \in Seq(Observations) /\ DOMAIN observations = 1..Len(observations)
        /\ Len(observations) \in Nat
    BY <1>1 DEF TypeInv, TypeOK
  <2>3. /\ handler[t].size \in Nat /\ handler[t].next \in Nat \ {0}
        /\ handler[t].size = Len(observations)
    BY <1>1, <2>1, HandlerFields DEF TypeInv, Admit, Scanning, Undisturbed
  <2>4. i \in 1..Len(observations) /\ Matches(observations[i], handler[t].action)
    BY <2>2 DEF MatchesOf
  <2>5. handler[t].next <= i
    <3>1. \A k \in 1..(handler[t].next - 1) :
             ~Matches(observations[k], handler[t].action)
      BY <1>1 DEF ScanInv, Passed
    <3>2. QED
      BY <2>2, <2>3, <2>4, <3>1
  <2>6. Found(t) /\ ~Stale(observations[handler[t].next])
    BY <2>1, <2>2, <2>3, <2>4, <2>5 DEF Admit, Exhausted
  <2>7. handler[t].next \in MatchesOf(handler[t].action)
    BY <2>2, <2>3, <2>4, <2>5, <2>6 DEF Found, MatchesOf
  <2>8. i = handler[t].next
    BY <1>1, <2>2, <2>3, <2>4, <2>5, <2>7
  <2>9. QED
    BY <2>6, <2>8
<1>2. TypeInv /\ ScanInv /\ [Next]_vars =>
        [\A t \in Threads :
           handler[t].at = "scan" /\ pc'[t] = "check" =>
             \A i \in MatchesOf(handler[t].action) :
               (\A j \in MatchesOf(handler[t].action) : i <= j)
                 => ~Stale(observations[i])]_vars
  BY <1>1
<1>3. Init => ScanInv
  BY DEF Init, ScanInv, Passed, Free
<1>4. TypeInv /\ ScanInv /\ [Next]_vars => ScanInv'
  BY ScanStep
<1>5. QED
  BY <1>2, <1>3, <1>4, TypeInvariance, PTL DEF Spec, AdmissionChecksFirstMatch
================================================================================
