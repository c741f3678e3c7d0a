---------------------------- MODULE MessagingProofs ----------------------------
(***************************************************************************)
(* Theorems about Messaging: no message is drafted twice, for any number   *)
(* of threads, requests and keys, as long as requests with one key do not  *)
(* overlap.                                                                *)
(***************************************************************************)
EXTENDS Messaging, ExecutionEngineProofs

\* A step of the adapter and the engine is a step of the engine alone, or none.
LEMMA EngineStep == [MessagingNext]_allVars => [Next]_vars
<1>1. ASSUME NEW t \in Threads, NEW e, Respond(t, e)
      PROVE  Step(t)
  BY <1>1 DEF Respond, Step
<1>2. ASSUME NEW t \in Threads, MessagingStep(t)
      PROVE  Step(t) \/ UNCHANGED vars
  BY <1>1, <1>2 DEF MessagingStep, BlockDuplicate, PassDuplicateTest, RefuseMessage,
                    CreateDraft
<1>3. ASSUME NEW t \in Threads, NEW r \in Requests, MessagingCall(t, r)
      PROVE  Call(t, r)
  BY <1>3 DEF MessagingCall
<1>4. QED
  BY <1>2, <1>3 DEF MessagingNext, Next, allVars

Carries(t) == pc[t] # "idle" /\ req[t].channel = "messaging"

\* A thread past the test for a duplicate is alone with its key, which is not
\* remembered yet.
MessagingInv ==
  /\ sent_ids \subseteq Keys /\ fresh \subseteq Threads
  /\ drafts \in [Keys -> Nat]
  /\ \A t \in fresh : InAdapter(t) /\ Key(t) \notin sent_ids
  /\ \A t, u \in Threads : Carries(t) /\ Carries(u) /\ Key(t) = Key(u) => t = u
  /\ OneDraftPerKey

\* The key of a thread with a message.
LEMMA KeyType ==
  ASSUME TypeInv, NEW t \in Threads, Carries(t)
  PROVE  Key(t) \in Keys
<1>1. req[t] \in Requests
  BY DEF TypeInv, TypeOK, IdleInv, Carries
<1>2. QED
  BY <1>1, MessageAssumption DEF MessageAssumption, Carries, Key

\* A step of a thread changes no other thread, and keeps its own request or
\* ends it.
LEMMA StepIsLocal ==
  ASSUME TypeInv, NEW t \in Threads, Step(t)
  PROVE  /\ pc[t] # "idle"
         /\ pc'[t] = "idle" \/ req'[t] = req[t]
         /\ \A u \in Threads : u # t => pc'[u] = pc[u] /\ req'[u] = req[u]
<1> USE DEF Leave, Return, Raise, Set, Store, TypeInv, TypeOK
<1>1. CASE CheckTransition(t) \/ RejectTransition(t)
  BY <1>1 DEF CheckTransition, RejectTransition
<1>2. CASE StoreValidating(t) \/ StoreDenied(t) \/ StoreAwaiting(t)
  BY <1>2 DEF StoreValidating, StoreDenied, StoreAwaiting
<1>3. CASE StoreStraight(t) \/ StoreExecuting(t)
  BY <1>3 DEF StoreStraight, StoreExecuting
<1>4. CASE StoreVerifying(t) \/ StoreOutcome(t)
  BY <1>4 DEF StoreVerifying, StoreOutcome
<1>5. CASE InvokeAdapter(t) \/ UnknownChannel(t)
  BY <1>5 DEF InvokeAdapter, UnknownChannel
<1>6. CASE AdapterReturns(t) \/ AdapterRaises(t)
  BY <1>6 DEF AdapterReturns, AdapterRaises
<1>7. CASE AuditAppend(t) \/ AuditRaises(t)
  BY <1>7 DEF AuditAppend, AuditRaises
<1>8. QED
  BY <1>1, <1>2, <1>3, <1>4, <1>5, <1>6, <1>7 DEF Step

\* Where a thread's request stays or ends, no two threads come to share a key.
LEMMA KeysStayApart ==
  ASSUME MessagingInv, NEW t \in Threads, pc[t] # "idle",
         pc'[t] = "idle" \/ req'[t] = req[t],
         \A u \in Threads : u # t => pc'[u] = pc[u] /\ req'[u] = req[u]
  PROVE  /\ \A u \in Threads : Carries(u)' => Carries(u) /\ Key(u)' = Key(u)
         /\ \A u, v \in Threads :
              Carries(u)' /\ Carries(v)' /\ Key(u)' = Key(v)' => u = v
         /\ \A u \in fresh : u # t => InAdapter(u)' /\ Key(u)' = Key(u)
BY DEF MessagingInv, Carries, Key, InAdapter

\* A response of the adapter is a step of the engine; the thread is fresh no more.
LEMMA RespondStep ==
  ASSUME TypeInv, MessagingInv, NEW t \in Threads, InAdapter(t), NEW e, Respond(t, e),
         UNCHANGED <<sent_ids, drafts>>
  PROVE  MessagingInv'
<1>1. Step(t) /\ fresh' = fresh \ {t}
  BY DEF Respond, Step
<1>2. QED
  BY <1>1, StepIsLocal, KeysStayApart DEF MessagingInv, OneDraftPerKey

\* Every step keeps the keys apart, and each with its one draft.
LEMMA MessagingInvStep ==
  ASSUME ~OverlappingKeys
  PROVE  TypeInv /\ MessagingInv /\ [MessagingNext]_allVars => MessagingInv'
<1> SUFFICES ASSUME TypeInv, MessagingInv, [MessagingNext]_allVars
             PROVE  MessagingInv'
  OBVIOUS
<1>1. ASSUME NEW t \in Threads, BlockDuplicate(t)
      PROVE  MessagingInv'
  BY <1>1, RespondStep DEF BlockDuplicate
<1>2. ASSUME NEW t \in Threads, RefuseMessage(t)
      PROVE  MessagingInv'
  BY <1>2, RespondStep DEF RefuseMessage
<1>3. ASSUME NEW t \in Threads, PassDuplicateTest(t)
      PROVE  MessagingInv'
  BY <1>3 DEF PassDuplicateTest, vars, MessagingInv, InAdapter, Carries, Key,
              OneDraftPerKey
<1>4. ASSUME NEW t \in Threads, CreateDraft(t)
      PROVE  MessagingInv'
  <2>1. /\ InAdapter(t) /\ t \in fresh /\ Step(t)
        /\ sent_ids' = sent_ids \cup {Key(t)}
        /\ drafts' = [drafts EXCEPT ![Key(t)] = @ + 1]
        /\ fresh' = fresh \ {t}
    BY <1>4 DEF CreateDraft, Respond, Step
  <2>2. Carries(t) /\ Key(t) \in Keys /\ Key(t) \notin sent_ids
    BY <2>1, KeyType DEF InAdapter, Carries, MessagingInv
  <2>3. \A u \in fresh' : InAdapter(u)' /\ Key(u)' = Key(u) /\ Key(u) # Key(t)
                          /\ Key(u) \notin sent_ids
    <3>1. \A u \in fresh : Carries(u) /\ Key(u) \notin sent_ids /\ u \in Threads
      BY DEF MessagingInv, InAdapter, Carries
    <3>2. \A u \in fresh : u # t => InAdapter(u)' /\ Key(u)' = Key(u)
      BY <2>1, StepIsLocal, KeysStayApart
    <3>3. QED
      BY <2>1, <2>2, <3>1, <3>2 DEF MessagingInv
  <2>4. OneDraftPerKey'
    <3>1. drafts[Key(t)] = 0
      BY <2>2 DEF MessagingInv, OneDraftPerKey
    <3>2. PICK k : k = Key(t)
      OBVIOUS
    <3>3. /\ drafts'[k] = 1 /\ k \in sent_ids'
          /\ \A j \in Keys : j # k => drafts'[j] = drafts[j]
                                      /\ (j \in sent_ids' <=> j \in sent_ids)
      BY <2>1, <2>2, <3>1, <3>2 DEF MessagingInv
    <3>4. QED
      BY <3>3 DEF MessagingInv, OneDraftPerKey
  <2>5. drafts' \in [Keys -> Nat] /\ sent_ids' \subseteq Keys /\ fresh' \subseteq Threads
    BY <2>1, <2>2 DEF MessagingInv
  <2>6. \A u, v \in Threads : Carries(u)' /\ Carries(v)' /\ Key(u)' = Key(v)' => u = v
    BY <2>1, StepIsLocal, KeysStayApart
  <2>7. \A u \in fresh' : Key(u)' \notin sent_ids'
    BY <2>1, <2>3
  <2>8. QED
    BY <2>3, <2>4, <2>5, <2>6, <2>7 DEF MessagingInv
<1>5. ASSUME NEW t \in Threads, ~InAdapter(t), Step(t), UNCHANGED messagingVars
      PROVE  MessagingInv'
  <2>1. t \notin fresh /\ UNCHANGED <<sent_ids, fresh, drafts>>
    BY <1>5 DEF MessagingInv, messagingVars
  <2>2. QED
    BY <1>5, <2>1, StepIsLocal, KeysStayApart DEF MessagingInv, OneDraftPerKey
<1>6. ASSUME NEW t \in Threads, NEW r \in Requests, MessagingCall(t, r)
      PROVE  MessagingInv'
  <2>1. /\ pc[t] = "idle" /\ UNCHANGED <<sent_ids, fresh, drafts>>
        /\ pc'[t] = "check" /\ req'[t] = r
        /\ \A u \in Threads : u # t => pc'[u] = pc[u] /\ req'[u] = req[u]
    BY <1>6 DEF MessagingCall, Call, messagingVars, TypeInv, TypeOK
  <2>2. r.channel # "messaging" \/ \A u \in Threads : Carries(u) => Key(u) # Message(r).key
    BY <1>6 DEF MessagingCall, Carries
  <2>3. t \notin fresh
    BY <2>1 DEF MessagingInv, InAdapter
  <2>4. \A u \in Threads : u # t => (Carries(u)' <=> Carries(u)) /\ Key(u)' = Key(u)
                                    /\ (InAdapter(u) => InAdapter(u)')
    BY <2>1 DEF Carries, Key, InAdapter
  <2>5. Key(t)' = Message(r).key /\ (Carries(t)' => r.channel = "messaging")
    BY <2>1 DEF Carries, Key
  <2>6. QED
    BY <2>1, <2>2, <2>3, <2>4, <2>5 DEF MessagingInv, OneDraftPerKey
<1>7. CASE UNCHANGED allVars
  BY <1>7 DEF allVars, vars, messagingVars, MessagingInv, InAdapter, Carries, Key,
              OneDraftPerKey
<1>8. QED
  BY <1>1, <1>2, <1>3, <1>4, <1>5, <1>6, <1>7 DEF MessagingNext, MessagingStep

\* Without overlap on a key no message is ever drafted twice, and what was
\* refused leaves no key, however many action ids and threads it comes under.
THEOREM OneDraftPerKeyHolds ==
  ASSUME ~OverlappingKeys
  PROVE  MessagingSpec => []OneDraftPerKey
<1>1. MessagingInit => TypeInv /\ MessagingInv
  BY TypeInit DEF MessagingInit, Init, MessagingInv, Carries, OneDraftPerKey
<1>2. TypeInv /\ [MessagingNext]_allVars => TypeInv'
  BY EngineStep, TypeStep
<1>3. MessagingInv => OneDraftPerKey
  BY DEF MessagingInv
<1>4. TypeInv /\ MessagingInv /\ [MessagingNext]_allVars => MessagingInv'
  BY MessagingInvStep
<1>5. QED
  BY <1>1, <1>2, <1>3, <1>4, PTL DEF MessagingSpec

\* The engine with this adapter in place of an arbitrary one takes no step the
\* engine alone could not take: what is proved of every behaviour of the engine
\* holds with the adapter behind it, its replies and timing included.
THEOREM MessagingKeepsEngine == MessagingSpec => Init /\ [][Next]_vars
<1>1. MessagingInit => Init
  BY DEF MessagingInit
<1>2. QED
  BY <1>1, EngineStep, PTL DEF MessagingSpec

================================================================================
