--------------------------- MODULE EngineAuditProofs ---------------------------
(***************************************************************************)
(* Theorems about what ExecutionEngine tells the outside world: its audit  *)
(* events and its replies.  The first two need that requests for one       *)
(* action do not overlap; the last holds under any overlap.                *)
(***************************************************************************)
EXTENDS ExecutionEngineProofs, FiniteSetTheorems

-----------------------------------------------------------------------------
(* The audit event of a request.  From its first check on, until it leaves  *)
(* execute, the audit holds nothing of the thread's action; and what the    *)
(* thread knows of its evidence agrees with the status it sets next.        *)

\* The thread has passed the check that only a PROPOSED action passes.
Started(t) ==
  pc[t] # "idle" /\ ~(pc[t] = "check" /\ target[t] = "VALIDATING")

\* The verdict on an adapter's response decides between two statuses.
JudgedAs(t, s) ==
  /\ evidence[t] \in Response
  /\ s = "VERIFIED" <=> Verdict(evidence[t]) = "verified"

EvidenceInv(t) ==
  /\ pc[t] \in {"check", "store"} /\ target[t] = "VERIFYING"
       => evidence[t] \in Response
  /\ pc[t] \in {"check", "store"} /\ target[t] \in {"VERIFIED", "FAILED", "RECOVERING"}
       => JudgedAs(t, target[t])
  /\ pc[t] = "audit" =>
       /\ states[Id(t)] = target[t]
       /\ \/ target[t] = "DENIED" /\ evidence[t] = DeniedEvidence("policy_denied")
          \/ target[t] \in {"VERIFIED", "RECOVERING"} /\ JudgedAs(t, target[t])

Settled(a) ==
  \/ audit[a] = ExpectedEvents(states[a])
  \/ AuditMayFail /\ audit[a] = NoEvents

ThreadAuditInv(t) == EvidenceInv(t) /\ (Started(t) => audit[Id(t)] = NoEvents)

ActionAuditInv(a) ==
  (\A t \in Threads : Started(t) => Id(t) # a) => Settled(a)

AuditInv ==
  /\ \A t \in Threads : ThreadAuditInv(t)
  /\ \A a \in ActionIds : ActionAuditInv(a)

\* A status that calls for no event.
LEMMA NoEventExpected ==
  ASSUME NEW s, s \notin {"DENIED", "VERIFIED", "RECOVERING"}
  PROVE  ExpectedEvents(s) = NoEvents
BY DEF ExpectedEvents, NoEvents

\* A step of one thread cannot disturb the audit invariant of another.
LEMMA AuditUndisturbed ==
  ASSUME TypeInv, LifecycleInv, AuditInv,
         NEW t \in Threads, pc[t] # "idle", NEW id, id = Id(t),
         NEW u \in Threads, u # t,
         pc'[u] = pc[u], req'[u] = req[u], target'[u] = target[u],
         evidence'[u] = evidence[u],
         \A a \in ActionIds : a # id => /\ states'[a] = states[a]
                                        /\ audit'[a] = audit[a]
  PROVE  /\ ThreadAuditInv(u)'
         /\ Started(u)' <=> Started(u)
         /\ Started(u) => Id(u)' = Id(u) /\ Id(u) # id
<1>1. Started(u)' <=> Started(u)
  BY DEF Started
<1>2. Id(u)' = Id(u)
  BY DEF Id
<1>3. CASE pc[u] = "idle"
  BY <1>1, <1>3 DEF ThreadAuditInv, EvidenceInv, Started
<1>4. CASE pc[u] # "idle"
  <2>1. Id(u) # id /\ Id(u) \in ActionIds
    BY <1>4, BusyHasRequest DEF LifecycleInv, LifecycleFrom, ExclusiveInv, TypeInv, IdleInv
  <2>2. ThreadAuditInv(u)
    BY DEF AuditInv
  <2>3. QED
    BY <1>1, <1>2, <2>1, <2>2 DEF ThreadAuditInv, EvidenceInv, JudgedAs
<1>5. QED
  BY <1>3, <1>4

\* A step that changes at most the stepping thread's own action preserves the
\* audit invariant if it does so for that thread and that action.
LEMMA OwnAuditStep ==
  ASSUME TypeInv, LifecycleInv, AuditInv,
         NEW t \in Threads, pc[t] # "idle", NEW id, id = Id(t),
         \A u \in Threads : u # t => /\ pc'[u] = pc[u] /\ req'[u] = req[u]
                                     /\ target'[u] = target[u]
                                     /\ evidence'[u] = evidence[u],
         \A a \in ActionIds : a # id => /\ states'[a] = states[a]
                                        /\ audit'[a] = audit[a],
         pc'[t] = "idle" \/ req'[t] = req[t],
         ThreadAuditInv(t)', ActionAuditInv(id)'
  PROVE  AuditInv'
<1>1. \A u \in Threads : u # t =>
        /\ ThreadAuditInv(u)'
        /\ Started(u)' <=> Started(u)
        /\ Started(u) => Id(u)' = Id(u) /\ Id(u) # id
  BY AuditUndisturbed
<1>2. ASSUME NEW a \in ActionIds, a # id
      PROVE  ActionAuditInv(a)'
  <2>1. SUFFICES ASSUME \A u \in Threads : Started(u)' => Id(u)' # a
                 PROVE  Settled(a)'
    BY DEF ActionAuditInv
  <2>2. \A u \in Threads : Started(u) => Id(u) # a
    BY <1>1, <1>2, <2>1
  <2>3. Settled(a)
    BY <2>2 DEF AuditInv, ActionAuditInv
  <2>4. QED
    BY <1>2, <2>3 DEF Settled
<1>3. \A u \in Threads : ThreadAuditInv(u)'
  BY <1>1
<1>4. QED
  BY <1>2, <1>3 DEF AuditInv

\* A thread that has not started finds its action settled.
LEMMA SettledAtStart ==
  ASSUME TypeInv, LifecycleInv, AuditInv,
         NEW t \in Threads, pc[t] # "idle", ~Started(t)
  PROVE  Settled(Id(t))
<1>1. Id(t) \in ActionIds
  BY BusyHasRequest DEF TypeInv, IdleInv
<1>2. \A u \in Threads : Started(u) => Id(u) # Id(t)
  BY DEF LifecycleInv, LifecycleFrom, ExclusiveInv, Started
<1>3. QED
  BY <1>1, <1>2 DEF AuditInv, ActionAuditInv

\* Every step keeps the relation between evidence, status and audit.
LEMMA AuditStep ==
  ASSUME ~AllowOverlap, TypeInv, LifecycleInv, AuditInv, [Next]_vars
  PROVE  AuditInv'
<1> USE DEF TypeInv, TypeOK
<1>1. ASSUME NEW t \in Threads, pc[t] # "idle"
      PROVE  /\ Id(t) \in ActionIds
             /\ ThreadInv(NoCalls, t) /\ ThreadAuditInv(t)
  BY <1>1, BusyHasRequest DEF LifecycleInv, LifecycleFrom, IdleInv, AuditInv
\* A thread goes on: nothing need be settled, and the audit is as it was.
<1>2. ASSUME NEW t \in Threads, NEW id \in ActionIds, pc[t] # "idle", id = Id(t),
             \A u \in Threads : u # t => /\ pc'[u] = pc[u]
                                         /\ target'[u] = target[u]
                                         /\ evidence'[u] = evidence[u],
             UNCHANGED <<req, audit>>,
             \A a \in ActionIds : a # id => states'[a] = states[a],
             Started(t)', audit[id] = NoEvents, EvidenceInv(t)'
      PROVE  AuditInv'
  <2>1. Id(t)' = id
    BY <1>2 DEF Id
  <2>2. ThreadAuditInv(t)' /\ ActionAuditInv(id)'
    BY <1>2, <2>1 DEF ThreadAuditInv, ActionAuditInv
  <2>3. QED
    BY <1>2, <2>2, OwnAuditStep
\* A thread leaves: its action must be settled.
<1>3. ASSUME NEW t \in Threads, NEW id \in ActionIds, pc[t] # "idle", id = Id(t),
             Leave(t),
             \A a \in ActionIds : a # id => /\ states'[a] = states[a]
                                            /\ audit'[a] = audit[a],
             Settled(id)'
      PROVE  AuditInv'
  <2>1. ThreadAuditInv(t)' /\ ActionAuditInv(id)'
    BY <1>3 DEF Leave, ThreadAuditInv, EvidenceInv, Started, ActionAuditInv
  <2>2. QED
    BY <1>3, <2>1, OwnAuditStep DEF Leave
<1>4. ASSUME NEW t \in Threads, NEW r \in Requests, Call(t, r)
      PROVE  AuditInv'
  <2>1. \A u \in Threads : Started(u)' <=> Started(u)
    BY <1>4 DEF Call, Started
  <2>2. \A u \in Threads : Started(u) => Id(u)' = Id(u)
    BY <1>4 DEF Call, Started, Id
  <2>3. ASSUME NEW u \in Threads
        PROVE  ThreadAuditInv(u)'
    <3>1. CASE u = t
      BY <1>4, <2>1, <3>1 DEF Call, ThreadAuditInv, EvidenceInv, Started
    <3>2. CASE u # t
      BY <1>4, <2>1, <2>2, <3>2
         DEF Call, AuditInv, ThreadAuditInv, EvidenceInv, JudgedAs, Id
    <3>3. QED
      BY <3>1, <3>2
  <2>4. ASSUME NEW a \in ActionIds
        PROVE  ActionAuditInv(a)'
    BY <1>4, <2>1, <2>2 DEF Call, AuditInv, ActionAuditInv, Settled
  <2>5. QED
    BY <2>3, <2>4 DEF AuditInv
<1>5. ASSUME NEW t \in Threads, CheckTransition(t)
      PROVE  AuditInv'
  <2>1. PICK id \in ActionIds : id = Id(t) /\ ThreadAuditInv(t)
    BY <1>1, <1>5 DEF CheckTransition
  <2>2. audit[id] = NoEvents
    <3>1. CASE Started(t)
      BY <2>1, <3>1 DEF ThreadAuditInv
    <3>2. CASE ~Started(t)
      <4>1. states[id] = "PROPOSED"
        BY <1>5, <2>1, <3>2, OnlyProposedStarts DEF CheckTransition, Started
      <4>2. Settled(id)
        BY <1>5, <2>1, <3>2, SettledAtStart DEF CheckTransition
      <4>3. QED
        BY <4>1, <4>2, NoEventExpected DEF Settled
    <3>3. QED
      BY <3>1, <3>2
  <2>3. Started(t)' /\ EvidenceInv(t)'
    BY <1>5, <2>1
       DEF CheckTransition, Started, ThreadAuditInv, EvidenceInv, JudgedAs
  <2>4. QED
    BY <1>2, <1>5, <2>1, <2>2, <2>3 DEF CheckTransition
<1>6. ASSUME NEW t \in Threads, RejectTransition(t)
      PROVE  AuditInv'
  <2>1. PICK id \in ActionIds : id = Id(t) /\ ThreadInv(NoCalls, t)
    BY <1>1, <1>6 DEF RejectTransition
  <2>2. ~Started(t)
    BY <1>6, <2>1, PathIsLegal DEF RejectTransition, ThreadInv, Started
  <2>3. Settled(id)'
    BY <1>6, <2>1, <2>2, SettledAtStart DEF RejectTransition, Settled
  <2>4. QED
    BY <1>3, <1>6, <2>1, <2>3 DEF RejectTransition, Raise
\* A store leaves a thread that goes on with nothing audited.
<1>7. ASSUME NEW t \in Threads, Store(t), UNCHANGED <<req, audit>>,
             \A u \in Threads : u # t => /\ pc'[u] = pc[u]
                                         /\ target'[u] = target[u]
                                         /\ evidence'[u] = evidence[u],
             Started(t)', EvidenceInv(t)'
      PROVE  AuditInv'
  <2>1. PICK id \in ActionIds : id = Id(t) /\ ThreadAuditInv(t)
    BY <1>1, <1>7 DEF Store
  <2>2. audit[id] = NoEvents
    BY <1>7, <2>1 DEF Store, ThreadAuditInv, Started
  <2>3. \A a \in ActionIds : a # id => states'[a] = states[a]
    BY <1>7, <2>1 DEF Store
  <2>4. QED
    BY <1>2, <1>7, <2>1, <2>2, <2>3 DEF Store
\* The status it stores is the one of its action afterwards.
<1>8. ASSUME NEW t \in Threads, Store(t), UNCHANGED req
      PROVE  states'[Id(t)'] = target[t] /\ ThreadAuditInv(t)
  BY <1>1, <1>8 DEF Store, Id
<1>9. ASSUME NEW t \in Threads, StoreValidating(t)
      PROVE  AuditInv'
  <2>1. Started(t)' /\ EvidenceInv(t)'
    BY <1>9, DecidedStatusType DEF StoreValidating, Store, Set, Started, EvidenceInv
  <2>2. QED
    BY <1>7, <1>9, <2>1 DEF StoreValidating, Set
<1>10. ASSUME NEW t \in Threads, StoreDenied(t)
       PROVE  AuditInv'
  <2>1. states'[Id(t)'] = "DENIED"
    BY <1>8, <1>10 DEF StoreDenied
  <2>2. Started(t)' /\ EvidenceInv(t)'
    BY <1>10, <2>1 DEF StoreDenied, Started, EvidenceInv
  <2>3. QED
    BY <1>7, <1>10, <2>2 DEF StoreDenied
<1>11. ASSUME NEW t \in Threads, StoreAwaiting(t)
       PROVE  AuditInv'
  <2>1. PICK id \in ActionIds : id = Id(t) /\ ThreadAuditInv(t)
    BY <1>1, <1>11 DEF StoreAwaiting, Store
  <2>2. /\ states'[id] = "AWAITING_APPROVAL"
        /\ \A a \in ActionIds : a # id => states'[a] = states[a]
    BY <1>11, <2>1 DEF StoreAwaiting, Store
  <2>3. audit[id] = NoEvents
    BY <1>11, <2>1 DEF StoreAwaiting, Store, ThreadAuditInv, Started
  <2>4. Settled(id)'
    BY <1>11, <2>2, <2>3, NoEventExpected DEF StoreAwaiting, Settled
  <2>5. QED
    BY <1>3, <1>11, <2>1, <2>2, <2>4 DEF StoreAwaiting, Store, Return
<1>12. ASSUME NEW t \in Threads, StoreStraight(t)
       PROVE  AuditInv'
  <2>1. ThreadAuditInv(t)
    BY <1>8, <1>12 DEF StoreStraight
  <2>2. Started(t)' /\ EvidenceInv(t)'
    BY <1>12, <2>1
       DEF StoreStraight, Store, Set, Following, Started, ThreadAuditInv,
           EvidenceInv, JudgedAs
  <2>3. QED
    BY <1>7, <1>12, <2>2 DEF StoreStraight, Set
<1>13. ASSUME NEW t \in Threads, StoreExecuting(t)
       PROVE  AuditInv'
  <2>1. Started(t)' /\ EvidenceInv(t)'
    BY <1>13 DEF StoreExecuting, Store, Started, EvidenceInv
  <2>2. QED
    BY <1>7, <1>13, <2>1 DEF StoreExecuting
<1>14. ASSUME NEW t \in Threads, StoreVerifying(t)
       PROVE  AuditInv'
  <2>1. ThreadAuditInv(t)
    BY <1>8, <1>14 DEF StoreVerifying
  <2>2. Started(t)' /\ EvidenceInv(t)'
    BY <1>14, <2>1
       DEF StoreVerifying, Store, Set, Started, ThreadAuditInv, EvidenceInv,
           JudgedAs
  <2>3. QED
    BY <1>7, <1>14, <2>2 DEF StoreVerifying, Set
<1>15. ASSUME NEW t \in Threads, StoreOutcome(t)
       PROVE  AuditInv'
  <2>1. ThreadAuditInv(t) /\ states'[Id(t)'] = target[t]
    BY <1>8, <1>15 DEF StoreOutcome
  <2>2. Started(t)' /\ EvidenceInv(t)'
    BY <1>15, <2>1
       DEF StoreOutcome, Store, Started, ThreadAuditInv, EvidenceInv, JudgedAs
  <2>3. QED
    BY <1>7, <1>15, <2>2 DEF StoreOutcome
<1>16. ASSUME NEW t \in Threads, InvokeAdapter(t)
       PROVE  AuditInv'
  <2>1. PICK id \in ActionIds : id = Id(t) /\ ThreadAuditInv(t)
    BY <1>1, <1>16 DEF InvokeAdapter
  <2>2. Started(t)' /\ EvidenceInv(t)' /\ audit[id] = NoEvents
    BY <1>16, <2>1 DEF InvokeAdapter, Started, EvidenceInv, ThreadAuditInv
  <2>3. QED
    BY <1>2, <1>16, <2>1, <2>2 DEF InvokeAdapter
\* A thread that is cut off between EXECUTING and VERIFYING has no event, and
\* its status calls for none.
<1>17. ASSUME NEW t \in Threads, pc[t] \in {"invoke", "adapter"}, Leave(t),
              UNCHANGED <<states, audit>>
       PROVE  AuditInv'
  <2>1. PICK id \in ActionIds : id = Id(t) /\ ThreadAuditInv(t) /\ ThreadInv(NoCalls, t)
    BY <1>1, <1>17
  <2>2. states[id] = "EXECUTING" /\ audit[id] = NoEvents
    BY <1>17, <2>1 DEF ThreadInv, ThreadAuditInv, Started
  <2>3. Settled(id)'
    BY <1>17, <2>2, NoEventExpected DEF Settled
  <2>4. QED
    BY <1>3, <1>17, <2>1, <2>3
<1>18. ASSUME NEW t \in Threads, AdapterReturns(t)
       PROVE  AuditInv'
  <2>1. PICK id \in ActionIds : id = Id(t) /\ ThreadAuditInv(t)
    BY <1>1, <1>18 DEF AdapterReturns
  <2>2. evidence'[t] \in Response
    BY <1>18, ResponsesAreResponse DEF AdapterReturns, IdleInv
  <2>3. Started(t)' /\ EvidenceInv(t)' /\ audit[id] = NoEvents
    BY <1>18, <2>1, <2>2
       DEF AdapterReturns, Set, Started, EvidenceInv, ThreadAuditInv
  <2>4. \A u \in Threads : u # t => evidence'[u] = evidence[u]
    BY <1>18 DEF AdapterReturns
  <2>5. QED
    BY <1>2, <1>18, <2>1, <2>3, <2>4 DEF AdapterReturns, Set
<1>19. ASSUME NEW t \in Threads, AuditAppend(t)
       PROVE  AuditInv'
  <2>1. PICK id \in ActionIds : id = Id(t) /\ ThreadAuditInv(t)
    BY <1>1, <1>19 DEF AuditAppend
  <2>2. /\ audit[id] = NoEvents /\ states[id] = target[t]
        /\ target[t] \in {"DENIED", "VERIFIED", "RECOVERING"}
    BY <1>19, <2>1 DEF AuditAppend, ThreadAuditInv, EvidenceInv, Started
  <2>3. EventKind(t) = CASE target[t] = "DENIED" -> "action_denied"
                         [] target[t] = "VERIFIED" -> "executed_verified"
                         [] target[t] = "RECOVERING" -> "executed_failed"
    BY <1>19, <2>1 DEF AuditAppend, ThreadAuditInv, EvidenceInv, JudgedAs, EventKind
  <2>4. /\ audit'[id] = [NoEvents EXCEPT ![EventKind(t)] = @ + 1]
        /\ \A a \in ActionIds : a # id => audit'[a] = audit[a]
    BY <1>19, <2>1, <2>2 DEF AuditAppend
  <2>5. audit'[id] = ExpectedEvents(target[t])
    <3>1. audit'[id] = [k \in AuditKinds |-> IF k = EventKind(t) THEN 1 ELSE 0]
      BY ONLY <2>4 DEF NoEvents
    <3>2. QED
      BY ONLY <2>2, <2>3, <3>1 DEF ExpectedEvents, AuditKinds
  <2>6. Settled(id)' /\ UNCHANGED states
    BY <1>19, <2>2, <2>5 DEF AuditAppend, Settled
  <2>7. QED
    BY <1>3, <1>19, <2>1, <2>4, <2>6 DEF AuditAppend, Return
<1>20. ASSUME NEW t \in Threads, AuditRaises(t)
       PROVE  AuditInv'
  <2>1. PICK id \in ActionIds : id = Id(t) /\ ThreadAuditInv(t)
    BY <1>1, <1>20 DEF AuditRaises
  <2>2. Settled(id)'
    BY <1>20, <2>1 DEF AuditRaises, ThreadAuditInv, Started, Settled
  <2>3. QED
    BY <1>3, <1>20, <2>1, <2>2 DEF AuditRaises, Raise
<1>21. CASE UNCHANGED vars
  BY <1>21
     DEF vars, AuditInv, ThreadAuditInv, EvidenceInv, JudgedAs, Started,
         ActionAuditInv, Settled, Id
<1>22. QED
  BY <1>4, <1>5, <1>6, <1>9, <1>10, <1>11, <1>12, <1>13, <1>14, <1>15, <1>16,
     <1>17, <1>18, <1>19, <1>20, <1>21
     DEF Next, Step, UnknownChannel, AdapterRaises, Raise

\* The audit has no event of an action that no request has touched.
LEMMA AuditInit == Init => AuditInv
<1> SUFFICES ASSUME Init PROVE AuditInv
  OBVIOUS
<1>1. \A t \in Threads : ThreadAuditInv(t)
  BY DEF Init, ThreadAuditInv, EvidenceInv, Started
<1>2. \A a \in ActionIds : Settled(a)
  BY NoEventExpected DEF Init, Settled
<1>3. QED
  BY <1>1, <1>2 DEF AuditInv, ActionAuditInv

\* Evidence, status and audit agree in every state.
LEMMA AuditInvariance ==
  ASSUME ~AllowOverlap
  PROVE  Spec => [](TypeInv /\ LifecycleInv /\ AuditInv)
<1>1. TypeInv /\ LifecycleInv /\ AuditInv /\ [Next]_vars => AuditInv'
  BY AuditStep
<1>2. QED
  BY <1>1, AuditInit, LifecycleInvariance, PTL DEF Spec

\* When the requests for one action do not overlap, the audit holds of an
\* action at rest exactly the event its status calls for, or, where append may
\* raise, nothing.
THEOREM AuditMatchesStatusHolds ==
  ASSUME ~AllowOverlap
  PROVE  Spec => []AuditMatchesStatus
<1>1. AuditInv => AuditMatchesStatus
  <2> SUFFICES ASSUME AuditInv, NEW a \in ActionIds, ~InFlight(a)
               PROVE  Settled(a)
    BY DEF AuditMatchesStatus, Settled
  <2>1. \A t \in Threads : Started(t) => Id(t) # a
    BY DEF InFlight, Started
  <2>2. QED
    BY <2>1 DEF AuditInv, ActionAuditInv
<1>2. QED
  BY <1>1, AuditInvariance, PTL

-----------------------------------------------------------------------------
(* Replies.  The statuses a reply tells are those that execute leaves       *)
(* nowhere: no _set_state of a later request finds them legal to leave.     *)

FinalStatus(p) ==
  IF p.status = "policy_denied"          THEN "DENIED"
  ELSE IF p.status = "awaiting_approval" THEN "AWAITING_APPROVAL"
  ELSE IF p.verdict = "verified"         THEN "VERIFIED"
  ELSE "RECOVERING"

\* execute takes no step from a final status.
LEMMA FinalIsLast ==
  \A p : \A s \in DOMAIN Predecessor : Predecessor[s] # FinalStatus(p)
BY DEF Predecessor, FinalStatus

\* No adapter's response looks like a denial.
LEMMA ResponseIsNoDenial ==
  \A e \in Response : e.status \notin {"policy_denied", "awaiting_approval"}
BY DEF Response, Success, Failure

\* A store finds its action in no final status.
LEMMA StoreKeepsReplies ==
  ASSUME TypeInv, LifecycleInv, RepliesAreFinal, NEW t \in Threads, Store(t)
  PROVE  \A p \in replies : states'[p.action_id] = FinalStatus(p)
<1> SUFFICES ASSUME NEW p \in replies
             PROVE  states'[p.action_id] = FinalStatus(p)
  OBVIOUS
<1>1. ThreadInv(NoCalls, t)
  BY DEF LifecycleInv, LifecycleFrom
<1>2. states[p.action_id] = FinalStatus(p) /\ p.action_id \in ActionIds
  BY DEF RepliesAreFinal, FinalStatus, TypeInv, TypeOK
<1>3. p.action_id # Id(t)
  BY <1>1, <1>2, FinalIsLast DEF Store, ThreadInv
<1>4. QED
  BY <1>2, <1>3 DEF Store, TypeInv, TypeOK

\* What a reply told stays true, whatever requests come later.
LEMMA RepliesStep ==
  ASSUME TypeInv, LifecycleInv, AuditInv, RepliesAreFinal, [Next]_vars
  PROVE  RepliesAreFinal'
<1> SUFFICES \A p \in replies' : states'[p.action_id] = FinalStatus(p)
  BY DEF RepliesAreFinal, FinalStatus
<1>1. CASE UNCHANGED <<states, replies>>
  BY <1>1 DEF RepliesAreFinal, FinalStatus
<1>2. ASSUME NEW t \in Threads, Store(t), UNCHANGED replies
      PROVE  \A p \in replies' : states'[p.action_id] = FinalStatus(p)
  BY <1>2, StoreKeepsReplies
<1>3. ASSUME NEW t \in Threads, StoreAwaiting(t)
      PROVE  \A p \in replies' : states'[p.action_id] = FinalStatus(p)
  <2>1. PICK id \in ActionIds : id = Id(t)
    BY <1>3, BusyHasRequest DEF StoreAwaiting, Store, TypeInv, IdleInv
  <2>2. states'[id] = "AWAITING_APPROVAL"
    BY <1>3, <2>1 DEF StoreAwaiting, Store, TypeInv, TypeOK
  <2>3. replies' = replies \cup {[action_id |-> id, status |-> "awaiting_approval",
                                  verdict |-> Verdict(DeniedEvidence("awaiting_approval"))]}
    BY <1>3, <2>1 DEF StoreAwaiting, Return, DeniedEvidence
  <2>4. \A p \in replies : states'[p.action_id] = FinalStatus(p)
    BY <1>3, StoreKeepsReplies DEF StoreAwaiting
  <2>5. QED
    BY <2>2, <2>3, <2>4 DEF FinalStatus
<1>4. ASSUME NEW t \in Threads, AuditAppend(t)
      PROVE  \A p \in replies' : states'[p.action_id] = FinalStatus(p)
  <2>1. PICK id \in ActionIds : id = Id(t)
    BY <1>4, BusyHasRequest DEF AuditAppend, TypeInv, IdleInv
  <2>2. EvidenceInv(t)
    BY DEF AuditInv, ThreadAuditInv
  <2>3. PICK p : p = [action_id |-> id, status |-> evidence[t].status,
                      verdict |-> Verdict(evidence[t])]
    OBVIOUS
  <2>4. states[id] = FinalStatus(p)
    <3>1. CASE evidence[t] = DeniedEvidence("policy_denied") /\ states[id] = "DENIED"
      BY <2>3, <3>1 DEF FinalStatus, DeniedEvidence
    <3>2. CASE /\ JudgedAs(t, states[id])
               /\ states[id] \in {"VERIFIED", "RECOVERING"}
      BY <2>3, <3>2, ResponseIsNoDenial DEF FinalStatus, JudgedAs
    <3>3. QED
      BY <1>4, <2>1, <2>2, <3>1, <3>2 DEF AuditAppend, EvidenceInv
  <2>5. replies' = replies \cup {p} /\ UNCHANGED states
    BY <1>4, <2>1, <2>3 DEF AuditAppend, Return
  <2>6. \A q \in replies : states[q.action_id] = FinalStatus(q)
    BY DEF RepliesAreFinal, FinalStatus
  <2>7. QED
    BY <2>3, <2>4, <2>5, <2>6
<1>5. QED
  BY <1>1, <1>2, <1>3, <1>4
     DEF Next, Step, vars, Call, CheckTransition, RejectTransition,
         StoreValidating, StoreDenied, StoreStraight, StoreExecuting,
         StoreVerifying, StoreOutcome, InvokeAdapter, UnknownChannel,
         AdapterReturns, AdapterRaises, AuditRaises, Raise

\* When the requests for one action do not overlap, whoever holds a reply
\* knows the action's status from then on.
THEOREM RepliesAreFinalHolds ==
  ASSUME ~AllowOverlap
  PROVE  Spec => []RepliesAreFinal
<1>1. Init => RepliesAreFinal
  BY DEF Init, RepliesAreFinal
<1>2. TypeInv /\ LifecycleInv /\ AuditInv /\ RepliesAreFinal /\ [Next]_vars
        => RepliesAreFinal'
  BY RepliesStep
<1>3. QED
  BY <1>1, <1>2, AuditInvariance, PTL DEF Spec

-----------------------------------------------------------------------------
(* Under any overlap the audit does not tell of more executions than there  *)
(* were: every call of an adapter is owed at most one event, which the      *)
(* thread that made it carries to the audit.                                *)

\* The thread has called its adapter, and has not appended an event for it.
Owes(t) ==
  \/ pc[t] = "adapter"
  \/ pc[t] \in {"check", "store"}
       /\ target[t] \in {"VERIFYING", "VERIFIED", "FAILED", "RECOVERING"}
  \/ pc[t] = "audit" /\ target[t] # "DENIED"

Owing(a) == {t \in Threads : Owes(t) /\ Id(t) = a}

ExecutionEvents(a) == audit[a]["executed_verified"] + audit[a]["executed_failed"]

OwedInv == \A a \in ActionIds : ExecutionEvents(a) + Cardinality(Owing(a)) <= calls[a]

\* No more threads owe an event than before.
LEMMA FewerOwe ==
  ASSUME IsFiniteSet(Threads), TypeInv, OwedInv,
         NEW a \in ActionIds,
         \A t \in Threads : Owes(t)' /\ Id(t)' = a => Owes(t) /\ Id(t) = a,
         audit'[a] = audit[a], calls'[a] = calls[a]
  PROVE  ExecutionEvents(a)' + Cardinality(Owing(a)') <= calls'[a]
<1>1. Owing(a)' \subseteq Owing(a)
  BY DEF Owing
<1>2. IsFiniteSet(Owing(a))
  BY FS_Subset DEF Owing
<1>3. /\ Cardinality(Owing(a)') \in Nat /\ Cardinality(Owing(a)) \in Nat
      /\ Cardinality(Owing(a)') <= Cardinality(Owing(a))
  BY <1>1, <1>2, FS_Subset, FS_CardinalityType
<1>4. ExecutionEvents(a) \in Nat /\ calls[a] \in Nat
  BY DEF ExecutionEvents, TypeInv, TypeOK, AuditKinds
<1>5. ExecutionEvents(a)' = ExecutionEvents(a)
  BY DEF ExecutionEvents
<1>6. ExecutionEvents(a) + Cardinality(Owing(a)) <= calls[a]
  BY DEF OwedInv
<1>7. QED
  BY <1>3, <1>4, <1>5, <1>6

\* A step in which only one thread moves, without a call or an event, and that
\* thread owes an event only if it did before.
LEMMA QuietStep ==
  ASSUME IsFiniteSet(Threads), TypeInv, OwedInv, NEW t \in Threads,
         \A u \in Threads : u # t => /\ pc'[u] = pc[u] /\ req'[u] = req[u]
                                     /\ target'[u] = target[u],
         Owes(t)' => Owes(t) /\ req'[t] = req[t],
         UNCHANGED <<audit, calls>>
  PROVE  OwedInv'
<1>1. \A u \in Threads : Owes(u)' => Owes(u) /\ Id(u)' = Id(u)
  BY DEF Owes, Id
<1>2. ASSUME NEW a \in ActionIds
      PROVE  ExecutionEvents(a)' + Cardinality(Owing(a)') <= calls'[a]
  BY <1>1, FewerOwe
<1>3. QED
  BY <1>2 DEF OwedInv

\* Every step keeps events and debts within the calls.
LEMMA OwedStep ==
  ASSUME IsFiniteSet(Threads), TypeInv, OwedInv, [Next]_vars
  PROVE  OwedInv'
<1> USE DEF TypeInv, TypeOK
<1>1. ASSUME NEW t \in Threads, NEW r \in Requests, Call(t, r)
      PROVE  OwedInv'
  <2>1. ~Owes(t)'
    BY <1>1 DEF Call, Owes
  <2>2. QED
    BY <1>1, <2>1, QuietStep DEF Call
<1>2. ASSUME NEW t \in Threads, Leave(t), UNCHANGED <<audit, calls>>
      PROVE  OwedInv'
  <2>1. ~Owes(t)'
    BY <1>2 DEF Leave, Owes
  <2>2. QED
    BY <1>2, <2>1, QuietStep DEF Leave
<1>3. ASSUME NEW t \in Threads, CheckTransition(t)
      PROVE  OwedInv'
  <2>1. Owes(t)' => Owes(t)
    BY <1>3 DEF CheckTransition, Owes
  <2>2. QED
    BY <1>3, <2>1, QuietStep DEF CheckTransition
<1>4. ASSUME NEW t \in Threads, StoreValidating(t)
      PROVE  OwedInv'
  <2>1. ~Owes(t)'
    BY <1>4, DecidedStatusType DEF StoreValidating, Store, Set, Owes
  <2>2. QED
    BY <1>4, <2>1, QuietStep DEF StoreValidating, Set
<1>5. ASSUME NEW t \in Threads, StoreDenied(t)
      PROVE  OwedInv'
  <2>1. ~Owes(t)'
    BY <1>5 DEF StoreDenied, Owes
  <2>2. QED
    BY <1>5, <2>1, QuietStep DEF StoreDenied
<1>6. ASSUME NEW t \in Threads, StoreStraight(t)
      PROVE  OwedInv'
  <2>1. Owes(t)' => Owes(t)
    BY <1>6 DEF StoreStraight, Store, Set, Following, Owes
  <2>2. QED
    BY <1>6, <2>1, QuietStep DEF StoreStraight, Set
<1>7. ASSUME NEW t \in Threads, StoreExecuting(t)
      PROVE  OwedInv'
  <2>1. ~Owes(t)'
    BY <1>7 DEF StoreExecuting, Owes
  <2>2. QED
    BY <1>7, <2>1, QuietStep DEF StoreExecuting
<1>8. ASSUME NEW t \in Threads, StoreVerifying(t) \/ StoreOutcome(t)
      PROVE  OwedInv'
  <2>1. Owes(t)
    BY <1>8 DEF StoreVerifying, StoreOutcome, Store, Owes
  <2>2. QED
    BY <1>8, <2>1, QuietStep DEF StoreVerifying, StoreOutcome, Set
<1>9. ASSUME NEW t \in Threads, AdapterReturns(t)
      PROVE  OwedInv'
  <2>1. Owes(t)
    BY <1>9 DEF AdapterReturns, Owes
  <2>2. QED
    BY <1>9, <2>1, QuietStep DEF AdapterReturns, Set
\* The call that makes a thread owe an event is itself counted.
<1>10. ASSUME NEW t \in Threads, InvokeAdapter(t)
       PROVE  OwedInv'
  <2>1. PICK id \in ActionIds : id = Id(t)
    BY <1>10, BusyHasRequest DEF InvokeAdapter, IdleInv
  <2>2. \A u \in Threads : Id(u)' = Id(u)
    BY <1>10 DEF InvokeAdapter, Id
  <2>3. ~Owes(t) /\ Owes(t)'
    BY <1>10 DEF InvokeAdapter, Owes
  <2>4. \A u \in Threads : u # t => (Owes(u)' <=> Owes(u))
    BY <1>10 DEF InvokeAdapter, Owes
  <2>5. ASSUME NEW a \in ActionIds, a # id
        PROVE  ExecutionEvents(a)' + Cardinality(Owing(a)') <= calls'[a]
    BY <1>10, <2>1, <2>2, <2>4, <2>5, FewerOwe DEF InvokeAdapter
  <2>6. ExecutionEvents(id)' + Cardinality(Owing(id)') <= calls'[id]
    <3>1. Owing(id)' = Owing(id) \cup {t} /\ t \notin Owing(id)
      BY <2>1, <2>2, <2>3, <2>4 DEF Owing
    <3>2. IsFiniteSet(Owing(id))
      BY FS_Subset DEF Owing
    <3>3. /\ Cardinality(Owing(id)) \in Nat
          /\ Cardinality(Owing(id)') = Cardinality(Owing(id)) + 1
      BY <3>1, <3>2, FS_AddElement, FS_CardinalityType
    <3>4. ExecutionEvents(id) \in Nat /\ ExecutionEvents(id)' = ExecutionEvents(id)
      BY <1>10 DEF InvokeAdapter, ExecutionEvents, AuditKinds
    <3>5. calls[id] \in Nat /\ calls'[id] = calls[id] + 1
      BY <1>10, <2>1 DEF InvokeAdapter
    <3>6. ExecutionEvents(id) + Cardinality(Owing(id)) <= calls[id]
      BY DEF OwedInv
    <3>7. QED
      BY <3>3, <3>4, <3>5, <3>6
  <2>7. QED
    BY <2>5, <2>6 DEF OwedInv
\* An event about an execution is appended by a thread that owes one.
<1>11. ASSUME NEW t \in Threads, AuditAppend(t)
       PROVE  OwedInv'
  <2>1. PICK id \in ActionIds : id = Id(t)
    BY <1>11, BusyHasRequest DEF AuditAppend, IdleInv
  <2>2. \A u \in Threads : u # t => (Owes(u)' <=> Owes(u)) /\ Id(u)' = Id(u)
    BY <1>11 DEF AuditAppend, Return, Leave, Owes, Id
  <2>3. ~Owes(t)'
    BY <1>11 DEF AuditAppend, Return, Leave, Owes
  <2>4. ASSUME NEW a \in ActionIds, a # id
        PROVE  ExecutionEvents(a)' + Cardinality(Owing(a)') <= calls'[a]
    <3>1. audit'[a] = audit[a] /\ calls'[a] = calls[a]
      BY <1>11, <2>1, <2>4 DEF AuditAppend
    <3>2. QED
      BY <2>2, <2>3, <3>1, FewerOwe
  <2>5. CASE target[t] = "DENIED"
    <3>1. EventKind(t) = "action_denied"
      BY <2>5 DEF EventKind
    <3>2. /\ ExecutionEvents(id)' = ExecutionEvents(id)
          /\ calls' = calls /\ ~Owes(t)
      BY <1>11, <2>1, <2>5, <3>1 DEF AuditAppend, ExecutionEvents, AuditKinds, Owes
    <3>3. Owing(id)' = Owing(id)
      BY <2>2, <2>3, <3>2 DEF Owing
    <3>4. QED
      BY <2>4, <3>2, <3>3 DEF OwedInv
  <2>6. CASE target[t] # "DENIED"
    <3>1. EventKind(t) \in {"executed_verified", "executed_failed"}
      BY <2>6 DEF EventKind
    <3>2. ExecutionEvents(id)' = ExecutionEvents(id) + 1
      <4>1. audit'[id] = [audit[id] EXCEPT ![EventKind(t)] = @ + 1]
        BY <1>11, <2>1 DEF AuditAppend
      <4>2. audit[id] \in [AuditKinds -> Nat]
        OBVIOUS
      <4>3. QED
        BY ONLY <3>1, <4>1, <4>2 DEF ExecutionEvents, AuditKinds
    <3>3. Owing(id)' = Owing(id) \ {t} /\ t \in Owing(id)
      BY <1>11, <2>1, <2>2, <2>3, <2>6 DEF Owing, Owes, AuditAppend
    <3>4. IsFiniteSet(Owing(id))
      BY FS_Subset DEF Owing
    <3>5. /\ Cardinality(Owing(id)) \in Nat
          /\ Cardinality(Owing(id)') = Cardinality(Owing(id)) - 1
      BY <3>3, <3>4, FS_RemoveElement, FS_CardinalityType
    <3>6. ExecutionEvents(id) \in Nat /\ calls[id] \in Nat /\ calls' = calls
      BY <1>11 DEF AuditAppend, ExecutionEvents, AuditKinds
    <3>7. ExecutionEvents(id) + Cardinality(Owing(id)) <= calls[id]
      BY DEF OwedInv
    <3>8. ExecutionEvents(id)' + Cardinality(Owing(id)') <= calls'[id]
      BY <3>2, <3>5, <3>6, <3>7
    <3>9. QED
      BY <2>4, <3>8 DEF OwedInv
  <2>7. QED
    BY <2>5, <2>6
<1>12. CASE UNCHANGED vars
  <2>1. \A u \in Threads : Owes(u)' => Owes(u) /\ Id(u)' = Id(u)
    BY <1>12 DEF vars, Owes, Id
  <2>2. QED
    BY <1>12, <2>1, FewerOwe DEF vars, OwedInv
<1>13. QED
  BY <1>1, <1>2, <1>3, <1>4, <1>5, <1>6, <1>7, <1>8, <1>9, <1>10, <1>11, <1>12
     DEF Next, Step, RejectTransition, StoreAwaiting, UnknownChannel,
         AdapterRaises, AuditRaises, Raise, Return

\* At the start nothing was called and nothing is owed.
LEMMA OwedInit == Init => OwedInv
<1> SUFFICES ASSUME Init, NEW a \in ActionIds
             PROVE  ExecutionEvents(a) + Cardinality(Owing(a)) <= calls[a]
  BY DEF OwedInv
<1>1. Owing(a) = {}
  BY DEF Init, Owing, Owes
<1>2. ExecutionEvents(a) = 0 /\ calls[a] = 0
  BY DEF Init, ExecutionEvents, NoEvents, AuditKinds
<1>3. QED
  BY <1>1, <1>2, FS_EmptySet

\* Events that are covered by calls stand for calls of their own.
LEMMA OwedImplied ==
  ASSUME IsFiniteSet(Threads), TypeInv, OwedInv
  PROVE  AuditedCallsHappened
<1> SUFFICES ASSUME NEW a \in ActionIds
             PROVE  ExecutionEvents(a) <= calls[a]
  BY DEF AuditedCallsHappened, ExecutionEvents
<1>1. IsFiniteSet(Owing(a))
  BY FS_Subset DEF Owing
<1>2. Cardinality(Owing(a)) \in Nat
  BY <1>1, FS_CardinalityType
<1>3. ExecutionEvents(a) \in Nat /\ calls[a] \in Nat
  BY DEF ExecutionEvents, TypeInv, TypeOK, AuditKinds
<1>4. QED
  BY <1>2, <1>3 DEF OwedInv

\* However requests overlap, every execution event in the audit stands for an
\* adapter call of its own.
THEOREM AuditedCallsHappenedHolds ==
  ASSUME IsFiniteSet(Threads)
  PROVE  Spec => []AuditedCallsHappened
<1>1. TypeInv /\ OwedInv /\ [Next]_vars => OwedInv'
  BY OwedStep
<1>2. TypeInv /\ OwedInv => AuditedCallsHappened
  BY OwedImplied
<1>3. QED
  BY <1>1, <1>2, OwedInit, TypeInit, TypeStep, PTL DEF Spec
-----------------------------------------------------------------------------
(* The executions that have no audit event.  docs/architecture.md promises   *)
(* an event for each; what can take it away is an adapter that raises or a   *)
(* ledger that does, and the status tells which.                             *)

\* An action that no started request works on, and whose adapter was called,
\* has its verdict, unless the adapter raised.
JudgedOrCutOff(a) ==
  calls[a] > 0 => \/ states[a] \in {"VERIFIED", "RECOVERING"}
                  \/ AdaptersRaise /\ states[a] = "EXECUTING"

CalledInv ==
  \A a \in ActionIds :
    (\A t \in Threads : Started(t) => Id(t) # a) => JudgedOrCutOff(a)

\* A thread that goes on disturbs nothing of the actions of others.
LEMMA CalledGoesOn ==
  ASSUME CalledInv, NEW t \in Threads, NEW id, id = Id(t),
         \A u \in Threads : u # t => /\ pc'[u] = pc[u] /\ req'[u] = req[u]
                                     /\ target'[u] = target[u],
         \A a \in ActionIds : a # id => states'[a] = states[a] /\ calls'[a] = calls[a],
         \/ Started(t)' /\ Id(t)' = id
         \/ ~Started(t)' /\ (id \in ActionIds => JudgedOrCutOff(id)')
  PROVE  CalledInv'
<1> SUFFICES ASSUME NEW a \in ActionIds,
                    \A u \in Threads : Started(u)' => Id(u)' # a
             PROVE  JudgedOrCutOff(a)'
  BY DEF CalledInv
<1>1. CASE a = id
  BY <1>1
<1>2. CASE a # id
  <2>1. \A u \in Threads : u # t => (Started(u)' <=> Started(u)) /\ Id(u)' = Id(u)
    BY DEF Started, Id
  <2>2. \A u \in Threads : Started(u) => Id(u) # a
    BY <1>2, <2>1
  <2>3. JudgedOrCutOff(a)
    BY <2>2 DEF CalledInv
  <2>4. QED
    BY <1>2, <2>3 DEF JudgedOrCutOff
<1>3. QED
  BY <1>1, <1>2

\* No step lets a request end after its adapter call in any other way than
\* with a verdict or with the adapter's exception.
LEMMA CalledStep ==
  ASSUME TypeInv, LifecycleInv, AuditInv, CalledInv, [Next]_vars
  PROVE  CalledInv'
<1> USE DEF TypeInv, TypeOK
<1>1. ASSUME NEW t \in Threads, pc[t] # "idle"
      PROVE  /\ Id(t) \in ActionIds
             /\ ThreadInv(NoCalls, t) /\ ThreadAuditInv(t)
             /\ ActionInv(NoCalls, Id(t))
  BY <1>1, BusyHasRequest DEF LifecycleInv, LifecycleFrom, IdleInv, AuditInv
<1>2. ASSUME NEW t \in Threads, NEW r \in Requests, Call(t, r)
      PROVE  CalledInv'
  <2>1. \A u \in Threads : Started(u)' <=> Started(u)
    BY <1>2 DEF Call, Started
  <2>2. \A u \in Threads : Started(u) => Id(u)' = Id(u)
    BY <1>2 DEF Call, Started, Id
  <2>3. QED
    BY <1>2, <2>1, <2>2 DEF Call, CalledInv, JudgedOrCutOff
\* The steps after which the thread has started and goes on.
<1>3. ASSUME NEW t \in Threads, CheckTransition(t)
      PROVE  CalledInv'
  <2>1. Started(t)' /\ Id(t)' = Id(t)
    BY <1>3 DEF CheckTransition, Started, Id
  <2>2. QED
    BY <1>3, <2>1, CalledGoesOn DEF CheckTransition
<1>4. ASSUME NEW t \in Threads, Store(t), UNCHANGED <<req, calls>>,
             \A u \in Threads : u # t => pc'[u] = pc[u] /\ target'[u] = target[u],
             Started(t)'
      PROVE  CalledInv'
  <2>1. Id(t)' = Id(t)
    BY <1>4 DEF Id
  <2>2. \A a \in ActionIds : a # Id(t) => states'[a] = states[a]
    BY <1>4 DEF Store
  <2>3. QED
    BY <1>4, <2>1, <2>2, CalledGoesOn
<1>5. ASSUME NEW t \in Threads, StoreValidating(t)
      PROVE  CalledInv'
  <2>1. Started(t)'
    BY <1>5, DecidedStatusType DEF StoreValidating, Store, Set, Started
  <2>2. QED
    BY <1>4, <1>5, <2>1 DEF StoreValidating, Set
<1>6. ASSUME NEW t \in Threads, StoreStraight(t)
      PROVE  CalledInv'
  <2>1. Started(t)'
    BY <1>6 DEF StoreStraight, Store, Set, Following, Started
  <2>2. QED
    BY <1>4, <1>6, <2>1 DEF StoreStraight, Set
<1>7. ASSUME NEW t \in Threads,
             StoreDenied(t) \/ StoreExecuting(t) \/ StoreOutcome(t)
      PROVE  CalledInv'
  <2>1. Started(t)'
    BY <1>7 DEF StoreDenied, StoreExecuting, StoreOutcome, Store, Started
  <2>2. QED
    BY <1>4, <1>7, <2>1 DEF StoreDenied, StoreExecuting, StoreOutcome
<1>8. ASSUME NEW t \in Threads, StoreVerifying(t)
      PROVE  CalledInv'
  <2>1. Started(t)'
    BY <1>8 DEF StoreVerifying, Store, Set, Started
  <2>2. QED
    BY <1>4, <1>8, <2>1 DEF StoreVerifying, Set
<1>9. ASSUME NEW t \in Threads, InvokeAdapter(t)
      PROVE  CalledInv'
  <2>1. Started(t)' /\ Id(t)' = Id(t)
    BY <1>9 DEF InvokeAdapter, Started, Id
  <2>2. \A a \in ActionIds : a # Id(t) => calls'[a] = calls[a]
    BY <1>9 DEF InvokeAdapter
  <2>3. QED
    BY <1>9, <2>1, <2>2, CalledGoesOn DEF InvokeAdapter
<1>10. ASSUME NEW t \in Threads, AdapterReturns(t)
       PROVE  CalledInv'
  <2>1. Started(t)' /\ Id(t)' = Id(t)
    BY <1>10 DEF AdapterReturns, Set, Started, Id
  <2>2. QED
    BY <1>10, <2>1, CalledGoesOn DEF AdapterReturns, Set
\* The steps with which a thread leaves execute.
<1>11. ASSUME NEW t \in Threads, NEW id \in ActionIds, id = Id(t), Leave(t),
              \A a \in ActionIds : a # id => states'[a] = states[a],
              UNCHANGED calls, JudgedOrCutOff(id)'
       PROVE  CalledInv'
  <2>1. ~Started(t)'
    BY <1>11 DEF Leave, Started
  <2>2. QED
    BY <1>11, <2>1, CalledGoesOn DEF Leave
\* One that is rejected at its start leaves its action as it found it.
<1>12. ASSUME NEW t \in Threads, RejectTransition(t)
       PROVE  CalledInv'
  <2>1. PICK id \in ActionIds : id = Id(t) /\ ThreadInv(NoCalls, t)
    BY <1>1, <1>12 DEF RejectTransition
  <2>2. ~Started(t)
    BY <1>12, <2>1, PathIsLegal DEF RejectTransition, ThreadInv, Started
  <2>3. \A u \in Threads : Started(u) => Id(u) # id
    BY <1>12, <2>1, <2>2
       DEF RejectTransition, LifecycleInv, LifecycleFrom, ExclusiveInv, Started
  <2>4. JudgedOrCutOff(id)'
    BY <1>12, <2>3 DEF CalledInv, JudgedOrCutOff, RejectTransition
  <2>5. QED
    BY <1>11, <1>12, <2>1, <2>4 DEF RejectTransition, Raise
\* One that waits for an approval, or finds no adapter, has called none.
<1>13. ASSUME NEW t \in Threads, StoreAwaiting(t)
       PROVE  CalledInv'
  <2>1. PICK id \in ActionIds : /\ id = Id(t) /\ ThreadInv(NoCalls, t)
                                /\ ActionInv(NoCalls, id)
    BY <1>1, <1>13 DEF StoreAwaiting, Store
  <2>2. states[id] = "VALIDATING"
    BY <1>13, <2>1 DEF StoreAwaiting, Store, ThreadInv, Predecessor
  <2>3. calls[id] = 0
    BY <2>1, <2>2 DEF ActionInv, NoCalls, BeforeExecution
  <2>4. JudgedOrCutOff(id)'
    BY <1>13, <2>3 DEF StoreAwaiting, JudgedOrCutOff
  <2>5. \A a \in ActionIds : a # id => states'[a] = states[a]
    BY <1>13, <2>1 DEF StoreAwaiting, Store
  <2>6. QED
    BY <1>11, <1>13, <2>1, <2>4, <2>5 DEF StoreAwaiting, Return
<1>14. ASSUME NEW t \in Threads, UnknownChannel(t)
       PROVE  CalledInv'
  <2>1. PICK id \in ActionIds : id = Id(t) /\ ThreadInv(NoCalls, t)
    BY <1>1, <1>14 DEF UnknownChannel
  <2>2. JudgedOrCutOff(id)'
    BY <1>14, <2>1 DEF UnknownChannel, ThreadInv, NoCalls, JudgedOrCutOff
  <2>3. QED
    BY <1>11, <1>14, <2>1, <2>2 DEF UnknownChannel, Raise
\* One whose adapter raised leaves it EXECUTING.
<1>15. ASSUME NEW t \in Threads, AdapterRaises(t)
       PROVE  CalledInv'
  <2>1. PICK id \in ActionIds : id = Id(t) /\ ThreadInv(NoCalls, t)
    BY <1>1, <1>15 DEF AdapterRaises
  <2>2. JudgedOrCutOff(id)'
    BY <1>15, <2>1 DEF AdapterRaises, ThreadInv, JudgedOrCutOff
  <2>3. QED
    BY <1>11, <1>15, <2>1, <2>2 DEF AdapterRaises, Raise
\* One that is done with the audit has its verdict, or was denied.
<1>16. ASSUME NEW t \in Threads, pc[t] = "audit", Leave(t), UNCHANGED <<states, calls>>
       PROVE  CalledInv'
  <2>1. PICK id \in ActionIds : /\ id = Id(t) /\ ThreadAuditInv(t)
                                /\ ActionInv(NoCalls, id)
    BY <1>1, <1>16
  <2>2. states[id] \in {"DENIED", "VERIFIED", "RECOVERING"}
    BY <1>16, <2>1 DEF ThreadAuditInv, EvidenceInv
  <2>3. states[id] = "DENIED" => calls[id] = 0
    BY <2>1 DEF ActionInv, NoCalls, BeforeExecution
  <2>4. JudgedOrCutOff(id)'
    BY <1>16, <2>2, <2>3 DEF JudgedOrCutOff
  <2>5. QED
    BY <1>11, <1>16, <2>1, <2>4
<1>17. CASE UNCHANGED vars
  BY <1>17 DEF vars, CalledInv, JudgedOrCutOff, Started, Id
<1>18. QED
  BY <1>2, <1>3, <1>5, <1>6, <1>7, <1>8, <1>9, <1>10, <1>12, <1>13, <1>14, <1>15,
     <1>16, <1>17
     DEF Next, Step, AuditAppend, AuditRaises, Raise, Return

\* What is known of an action at rest whose adapter was called and of which
\* the audit tells nothing: either the adapter raised, and the status is still
\* EXECUTING, or the append did.
UnauditedTells ==
  \A a \in ActionIds :
    calls[a] > 0 /\ ~InFlight(a) =>
      \/ ExecutionEvents(a) > 0
      \/ AdaptersRaise /\ states[a] = "EXECUTING"
      \/ AuditMayFail /\ states[a] \in {"VERIFIED", "RECOVERING"}

\* An action at rest whose adapter was called is either in the audit, or left
\* EXECUTING by an adapter's exception, or judged before an append that failed:
\* there is no other way to lose an execution from the audit.
THEOREM UnauditedTellsHolds ==
  ASSUME ~AllowOverlap
  PROVE  Spec => []UnauditedTells
<1>1. TypeInv /\ AuditInv /\ CalledInv => UnauditedTells
  <2> SUFFICES ASSUME TypeInv, AuditInv, CalledInv, NEW a \in ActionIds,
                      calls[a] > 0, ~InFlight(a)
               PROVE  \/ ExecutionEvents(a) > 0
                      \/ AdaptersRaise /\ states[a] = "EXECUTING"
                      \/ AuditMayFail /\ states[a] \in {"VERIFIED", "RECOVERING"}
    BY DEF UnauditedTells
  <2>1. \A t \in Threads : Started(t) => Id(t) # a
    BY DEF InFlight, Started
  <2>2. Settled(a) /\ JudgedOrCutOff(a)
    BY <2>1 DEF AuditInv, ActionAuditInv, CalledInv
  <2>3. ASSUME states[a] \in {"VERIFIED", "RECOVERING"},
               audit[a] = ExpectedEvents(states[a])
        PROVE  ExecutionEvents(a) > 0
    BY <2>3 DEF ExpectedEvents, ExecutionEvents, AuditKinds
  <2>4. QED
    BY <2>2, <2>3 DEF Settled, JudgedOrCutOff
<1>2. Init => CalledInv
  BY DEF Init, CalledInv, JudgedOrCutOff
<1>3. TypeInv /\ LifecycleInv /\ AuditInv /\ CalledInv /\ [Next]_vars => CalledInv'
  BY CalledStep
<1>4. QED
  BY <1>1, <1>2, <1>3, AuditInvariance, PTL DEF Spec

\* Where neither an adapter nor the ledger raises, and requests for one action
\* do not overlap, every adapter call has its event, as docs/architecture.md
\* says.
THEOREM EveryCallAuditedUnlessRaised ==
  ASSUME ~AllowOverlap, ~AdaptersRaise, ~AuditMayFail
  PROVE  Spec => []EveryCallAudited
<1>1. UnauditedTells => EveryCallAudited
  BY DEF UnauditedTells, EveryCallAudited, ExecutionEvents
<1>2. QED
  BY <1>1, UnauditedTellsHolds, PTL
================================================================================
