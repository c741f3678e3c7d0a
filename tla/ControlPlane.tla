----------------------------- MODULE ControlPlane -----------------------------
(***************************************************************************)
(* aep.api.app and aep.approvals.service: the API around the engine.  Its  *)
(* state are module-level dictionaries, lost when the process restarts;    *)
(* the audit file and the effects of adapter calls survive.                *)
(*                                                                         *)
(* create_task stores the contract and appends its audit event later.      *)
(* execute_action looks its contract up, and reads the observations one by *)
(* one before it enters the engine, while other requests change them.      *)
(* Handlers with a single access to shared state are one action; requests  *)
(* that are answered with an error and change nothing are left out.        *)
(***************************************************************************)
EXTENDS Integers, Sequences

CONSTANTS
  Threads, ActionIds, AllowOverlap, AdaptersRaise, AuditMayFail, NoRequest,
  EnableDestructive,   \* as in ExecutionEngine
  TaskIds,             \* the task_id values in use
  Contracts,           \* the task contracts that may be created
  Actions,             \* the action requests that may be submitted
  Observations,        \* the observations that may be submitted
  ApprovalIds,         \* the approval ids that uuid4 draws (bound)
  AllowResubmit,       \* may an observation_id be submitted twice?
  MaxTime,             \* how far the clock goes (bound)
  MaxRestarts,         \* how often the process restarts (bound)
  None                 \* what an absent key of a dictionary is mapped to

ASSUME ControlAssumption ==
  /\ AllowOverlap \in BOOLEAN /\ AllowResubmit \in BOOLEAN
  /\ AdaptersRaise \in BOOLEAN /\ AuditMayFail \in BOOLEAN
  /\ EnableDestructive \in BOOLEAN
  /\ MaxTime \in Nat /\ MaxRestarts \in Nat
  /\ \A c \in Contracts : c.task_id \in TaskIds /\ c.risk_budget \in Nat
  /\ \A a \in Actions : a.task_id \in TaskIds /\ a.action_id \in ActionIds
  /\ \A o \in Observations : o.task_id \in TaskIds
  /\ None \notin Contracts

\* What the engine gets of an action and of the contract read for it.
Request(a, c) ==
  [action_id |-> a.action_id, channel |-> a.channel,
   operation |-> a.operation, risk_class |-> a.risk_class, task |-> c]

Requests ==
  {Request(p[1], p[2]) :
     p \in {q \in Actions \X Contracts : q[1].task_id = q[2].task_id}}

VARIABLES
  states, pc, req, target, evidence, calls, audit, replies,  \* the engine's
  tasks,          \* tasks: the contract registered under each task_id
  observations,   \* observations, in the dictionary's insertion order
  approvals,      \* the approval service's records
  handler,        \* where each thread is in create_task or execute_action
  taskLog,        \* what the audit file last said of each task
  now,            \* the clock that freshness deadlines are compared with
  restarts        \* how often the process has restarted

Engine == INSTANCE ExecutionEngine

ASSUME RequestAssumption ==
  /\ NoRequest \notin Requests
  /\ \A a \in Actions : a.risk_class \in Engine!RiskClass

engineVars == <<states, pc, req, target, evidence, calls, audit, replies>>
apiVars    == <<tasks, observations, approvals, handler, taskLog, now, restarts>>
vars       == <<engineVars, apiVars>>

Free == [at |-> "free"]

Handlers ==
  {Free} \cup [at : {"log"}, contract : Contracts]
    \cup [at : {"begin"}, action : Actions, contract : Contracts]
    \cup [at : {"scan"}, action : Actions, contract : Contracts,
          size : Nat, next : Nat \ {0}]

Busy(t) == handler[t] # Free \/ pc[t] # "idle"

Unlogged == [goal |-> None, cancelled |-> FALSE]

Init ==
  /\ Engine!Init
  /\ tasks        = [id \in TaskIds |-> None]
  /\ observations = <<>>
  /\ approvals    = [id \in ApprovalIds |-> None]
  /\ handler      = [t \in Threads |-> Free]
  /\ taskLog      = [id \in TaskIds |-> Unlogged]
  /\ now          = 0
  /\ restarts     = 0

Goto(t, h) == handler' = [handler EXCEPT ![t] = h]

-----------------------------------------------------------------------------
(* Tasks.                                                                   *)

Creating(id) ==
  \E t \in Threads : handler[t].at = "log" /\ handler[t].contract.task_id = id

\* create_task registers the contract, over an earlier one of its id.
StoreTask(t, c) ==
  /\ ~Busy(t)
  /\ AllowOverlap \/ ~Creating(c.task_id)
  /\ tasks' = [tasks EXCEPT ![c.task_id] = c]
  /\ Goto(t, [at |-> "log", contract |-> c])
  /\ UNCHANGED <<engineVars, observations, approvals, taskLog, now, restarts>>

\* Mutant of LogTask: only the first contract of a task is logged.
LogFirstTask(t) ==
  /\ handler[t].at = "log"
  /\ LET id == handler[t].contract.task_id
     IN  taskLog' = IF taskLog[id] = Unlogged
                    THEN [taskLog EXCEPT ![id].goal = handler[t].contract.goal]
                    ELSE taskLog
  /\ Goto(t, Free)
  /\ UNCHANGED <<engineVars, tasks, observations, approvals, now, restarts>>

\* It appends task_created, with the contract's goal.
LogTask(t) ==
  /\ handler[t].at = "log"
  /\ LET c == handler[t].contract
     IN  taskLog' = [taskLog EXCEPT ![c.task_id] =
                       [goal |-> c.goal, cancelled |-> FALSE]]
  /\ Goto(t, Free)
  /\ UNCHANGED <<engineVars, tasks, observations, approvals, now, restarts>>

\* Or audit.append raises; the contract stays registered.
LogTaskRaises(t) ==
  /\ handler[t].at = "log"
  /\ AuditMayFail
  /\ Goto(t, Free)
  /\ UNCHANGED <<engineVars, tasks, observations, approvals, taskLog, now,
                 restarts>>

\* cancel appends task_cancelled, and does nothing else.
Cancel(id) ==
  /\ tasks[id] # None
  /\ taskLog' = [taskLog EXCEPT ![id].cancelled = TRUE]
  /\ UNCHANGED <<engineVars, tasks, observations, approvals, handler, now,
                 restarts>>

-----------------------------------------------------------------------------
(* Observations.                                                            *)

\* A new id goes to the end of the dictionary; a known one keeps its place.
SubmitObservation(o) ==
  LET known == {i \in DOMAIN observations :
                  observations[i].observation_id = o.observation_id}
  IN  /\ AllowResubmit \/ known = {}
      /\ observations' =
           IF known = {} THEN Append(observations, o)
           ELSE [i \in DOMAIN observations |->
                   IF i \in known THEN o ELSE observations[i]]
      /\ UNCHANGED <<engineVars, tasks, approvals, handler, taskLog, now,
                     restarts>>

Tick ==
  /\ now < MaxTime
  /\ now' = now + 1
  /\ UNCHANGED <<engineVars, tasks, observations, approvals, handler,
                 taskLog, restarts>>

-----------------------------------------------------------------------------
(* Approvals.  Nothing else reads them.                                     *)

CreateApproval(id, a) ==
  /\ approvals[id] = None
  /\ approvals' = [approvals EXCEPT ![id] =
                     [action_id |-> a, status |-> "pending"]]
  /\ UNCHANGED <<engineVars, tasks, observations, handler, taskLog, now,
                 restarts>>

\* Mutant of DecideApproval: the decision replaces the record.
DecideOver(id, decision) ==
  /\ approvals[id] # None
  /\ approvals' = [approvals EXCEPT ![id] = [status |-> decision]]
  /\ UNCHANGED <<engineVars, tasks, observations, handler, taskLog, now,
                 restarts>>

\* A decision may be taken again, and differently.
DecideApproval(id, decision) ==
  /\ approvals[id] # None
  /\ approvals' = [approvals EXCEPT ![id].status = decision]
  /\ UNCHANGED <<engineVars, tasks, observations, handler, taskLog, now,
                 restarts>>

-----------------------------------------------------------------------------
(* execute_action.                                                          *)

Executing(id) ==
  \/ Engine!InFlight(id)
  \/ \E t \in Threads : /\ handler[t].at \in {"begin", "scan"}
                        /\ handler[t].action.action_id = id

\* A request arrives, and its task is registered.
Arrive(t, a) ==
  /\ ~Busy(t)
  /\ AllowOverlap \/ ~Executing(a.action_id)
  /\ tasks[a.task_id] # None
  /\ Goto(t, [at |-> "begin", action |-> a, contract |-> tasks[a.task_id]])
  /\ UNCHANGED <<engineVars, tasks, observations, approvals, taskLog, now,
                 restarts>>

\* The iteration over the dictionary starts, and remembers its size.
BeginScan(t) ==
  /\ handler[t].at = "begin"
  /\ Goto(t, [at |-> "scan", action |-> handler[t].action,
              contract |-> handler[t].contract,
              size |-> Len(observations), next |-> 1])
  /\ UNCHANGED <<engineVars, tasks, observations, approvals, taskLog, now,
                 restarts>>

\* Mutant of Undisturbed: the iteration goes over a copy of the dictionary.
NeverDisturbed(t) == TRUE

\* The dictionary has the size the iteration started with.
Undisturbed(t) == Len(observations) = handler[t].size

Scanning(t)  == handler[t].at = "scan" /\ Undisturbed(t)
Exhausted(t) == handler[t].next > handler[t].size

\* The observation is of the task, in the version the action was planned on.
Matches(o, a) ==
  o.task_id = a.task_id /\ o.state_version = a.observation_version

Found(t) == ~Exhausted(t) /\ Matches(observations[handler[t].next],
                                     handler[t].action)

Stale(o) == o.freshness_deadline < now

\* An insertion during the iteration makes the next step of it raise.
ScanRaises(t) ==
  /\ handler[t].at = "scan"
  /\ ~Undisturbed(t)
  /\ Goto(t, Free)
  /\ UNCHANGED <<engineVars, tasks, observations, approvals, taskLog, now,
                 restarts>>

ScanNext(t) ==
  /\ Scanning(t)
  /\ ~Exhausted(t) /\ ~Found(t)
  /\ Goto(t, [handler[t] EXCEPT !.next = @ + 1])
  /\ UNCHANGED <<engineVars, tasks, observations, approvals, taskLog, now,
                 restarts>>

\* The first match is stale: the request is refused.
RefuseStale(t) ==
  /\ Scanning(t)
  /\ Found(t) /\ Stale(observations[handler[t].next])
  /\ Goto(t, Free)
  /\ UNCHANGED <<engineVars, tasks, observations, approvals, taskLog, now,
                 restarts>>

\* The first match is fresh, or there is none: the engine is entered with the
\* contract read at arrival.
Admit(t) ==
  /\ Scanning(t)
  /\ Exhausted(t) \/ (Found(t) /\ ~Stale(observations[handler[t].next]))
  /\ Engine!Call(t, Request(handler[t].action, handler[t].contract))
  /\ Goto(t, Free)
  /\ UNCHANGED <<tasks, observations, approvals, taskLog, now, restarts>>

EngineStep(t) == Engine!Step(t) /\ UNCHANGED apiVars

-----------------------------------------------------------------------------

\* The process ends and a new one starts.  What adapters have done, the audit
\* file and the replies that callers hold remain.
Restart ==
  /\ restarts < MaxRestarts
  /\ restarts'     = restarts + 1
  /\ states'       = [a \in ActionIds |-> "PROPOSED"]
  /\ pc'           = [t \in Threads |-> "idle"]
  /\ req'          = [t \in Threads |-> NoRequest]
  /\ target'       = [t \in Threads |-> "PROPOSED"]
  /\ evidence'     = [t \in Threads |-> Engine!NoEvidence]
  /\ tasks'        = [id \in TaskIds |-> None]
  /\ observations' = <<>>
  /\ approvals'    = [id \in ApprovalIds |-> None]
  /\ handler'      = [t \in Threads |-> Free]
  /\ UNCHANGED <<calls, audit, replies, taskLog, now>>

\* The steps of a thread that serves a request.
ThreadStep(t) ==
  \/ LogTask(t) \/ LogTaskRaises(t)
  \/ BeginScan(t) \/ ScanRaises(t) \/ ScanNext(t) \/ RefuseStale(t) \/ Admit(t)
  \/ EngineStep(t)

Next ==
  \/ \E t \in Threads : \/ ThreadStep(t)
                        \/ \E c \in Contracts : StoreTask(t, c)
                        \/ \E a \in Actions : Arrive(t, a)
  \/ \E id \in TaskIds : Cancel(id)
  \/ \E o \in Observations : SubmitObservation(o)
  \/ \E id \in ApprovalIds :
       \/ \E a \in ActionIds : CreateApproval(id, a)
       \/ \E d \in {"approved", "denied"} : DecideApproval(id, d)
  \/ Tick
  \/ Restart

\* A thread that serves a request keeps running.  Callers, observers, the
\* clock and the operator owe nothing.
Fairness == \A t \in Threads : WF_vars(ThreadStep(t))

Spec == Init /\ [][Next]_vars /\ Fairness

-----------------------------------------------------------------------------
(* Properties.                                                              *)

\* The type of the API's variables.
TypeOK ==
  /\ tasks \in [TaskIds -> Contracts \cup {None}]
  /\ observations \in Seq(Observations)
  /\ approvals \in
       [ApprovalIds -> {None} \cup [action_id : ActionIds,
                                    status : {"pending", "approved", "denied"}]]
  /\ handler \in [Threads -> Handlers]
  /\ taskLog \in [TaskIds -> [goal : {None} \cup {c.goal : c \in Contracts},
                              cancelled : BOOLEAN]]
  /\ now \in 0..MaxTime
  /\ restarts \in 0..MaxRestarts

\* The positions of the observations that speak about an action's version.
MatchesOf(a) == {i \in DOMAIN observations : Matches(observations[i], a)}

\* The scan, spread over many steps, decides on what the dictionary holds at
\* the moment of the decision: when a request enters the engine, the oldest
\* entry for its version is fresh, or no entry is there.  Insertions between
\* the steps cannot slip past it.  (An id that is submitted again can: its
\* entry changes behind the scan.)
AdmissionChecksFirstMatch ==
  [][\A t \in Threads :
       handler[t].at = "scan" /\ pc'[t] = "check" =>
         \A i \in MatchesOf(handler[t].action) :
           (\A j \in MatchesOf(handler[t].action) : i <= j)
             => ~Stale(observations[i])]_vars

\* Through the API, too, an adapter runs only for what the policy allows
\* under the contract that was read for the request, whatever approvals say.
OnlyPermittedExecute == Engine!OnlyPermittedExecute

\* An action runs at most once in the life of a process: only a restart, which
\* forgets the statuses, makes a second adapter call possible.
OncePerLife == \A a \in ActionIds : calls[a] <= 1 + restarts

\* The audit never tells of an execution that did not happen, not even after
\* restarts.
AuditedCallsHappened == Engine!AuditedCallsHappened

\* Unless a create_task of the task is under way, the last task_created event
\* of a registered task names the goal of the contract that is in force.  This
\* takes appends that do not fail, and creations of a task that do not overlap.
LogNamesContract ==
  \A id \in TaskIds :
    tasks[id] # None /\ ~Creating(id) => taskLog[id].goal = tasks[id].goal

\* Every request is answered, with a reply or with an error.
RequestEnds == \A t \in Threads : Busy(t) ~> ~Busy(t)
================================================================================
