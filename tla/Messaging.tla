------------------------------- MODULE Messaging -------------------------------
(***************************************************************************)
(* aep.adapters.messaging.MessagingAdapter inside the engine.  One adapter *)
(* object serves all requests, and remembers in sent_ids which messages    *)
(* (recipient and idempotency key) it has made a draft of.  The test for a *)
(* duplicate and the insertion are separate steps of a thread; between     *)
(* them the message may be refused.  Every other channel is as in          *)
(* ExecutionEngine.                                                        *)
(***************************************************************************)
EXTENDS ExecutionEngine

CONSTANTS
  Message(_),     \* the message of a request for the channel: [key, mode, internal]
  Keys,           \* "recipient:idempotency_key"
  OverlappingKeys \* may two requests with one key be in flight at once?

ASSUME MessageAssumption ==
  /\ OverlappingKeys \in BOOLEAN
  /\ \A r \in Requests : r.channel = "messaging" =>
       Message(r) \in [key : Keys, mode : {"draft", "send"}, internal : BOOLEAN]

VARIABLES
  sent_ids,  \* the keys of the messages drafted
  fresh,     \* the threads whose message has passed the test for a duplicate
  drafts     \* drafts[k]: how many drafts were made with key k

messagingVars == <<sent_ids, fresh, drafts>>
allVars == <<vars, messagingVars>>

MessagingInit ==
  /\ Init
  /\ sent_ids = {} /\ fresh = {} /\ drafts = [k \in Keys |-> 0]

Key(t) == Message(req[t]).key

InAdapter(t) == pc[t] = "adapter" /\ req[t].channel = "messaging"

\* The adapter returns this response to the engine.
Respond(t, response) ==
  /\ AdapterReturns(t)
  /\ evidence'[t] = response
  /\ fresh' = fresh \ {t}

BlockDuplicate(t) ==
  /\ InAdapter(t) /\ t \notin fresh
  /\ Key(t) \in sent_ids
  /\ Respond(t, Failure("duplicate_send_blocked"))
  /\ UNCHANGED <<sent_ids, drafts>>

\* Mutant of PassDuplicateTest: the key is remembered at once.
PassAndRemember(t) ==
  /\ InAdapter(t) /\ t \notin fresh
  /\ Key(t) \notin sent_ids
  /\ fresh' = fresh \cup {t}
  /\ sent_ids' = sent_ids \cup {Key(t)}
  /\ UNCHANGED <<vars, drafts>>

PassDuplicateTest(t) ==
  /\ InAdapter(t) /\ t \notin fresh
  /\ Key(t) \notin sent_ids
  /\ fresh' = fresh \cup {t}
  /\ UNCHANGED <<vars, sent_ids, drafts>>

\* Only drafts, and only to recipients inside.
RefuseMessage(t) ==
  /\ InAdapter(t) /\ t \in fresh
  /\ \/ /\ Message(req[t]).mode # "draft"
        /\ Respond(t, Failure("draft_only_mode"))
     \/ /\ Message(req[t]).mode = "draft" /\ ~Message(req[t]).internal
        /\ Respond(t, Failure("external_recipient_blocked"))
  /\ UNCHANGED <<sent_ids, drafts>>

CreateDraft(t) ==
  /\ InAdapter(t) /\ t \in fresh
  /\ Message(req[t]).mode = "draft" /\ Message(req[t]).internal
  /\ sent_ids' = sent_ids \cup {Key(t)}
  /\ drafts' = [drafts EXCEPT ![Key(t)] = @ + 1]
  /\ Respond(t, Success)

MessagingStep(t) ==
  \/ BlockDuplicate(t) \/ PassDuplicateTest(t) \/ RefuseMessage(t) \/ CreateDraft(t)
  \/ ~InAdapter(t) /\ Step(t) /\ UNCHANGED messagingVars

\* A call of execute, at a time its key allows.
MessagingCall(t, r) ==
  /\ OverlappingKeys \/ r.channel # "messaging" \/
       \A u \in Threads : pc[u] # "idle" /\ req[u].channel = "messaging" =>
                            Key(u) # Message(r).key
  /\ Call(t, r)
  /\ UNCHANGED messagingVars

MessagingNext ==
  \E t \in Threads : MessagingStep(t) \/ \E r \in Requests : MessagingCall(t, r)

MessagingSpec ==
  /\ MessagingInit /\ [][MessagingNext]_allVars
  /\ \A t \in Threads : WF_allVars(MessagingStep(t))

-----------------------------------------------------------------------------
(* Properties.                                                              *)

\* A key is remembered when its draft is made, and no message is drafted twice,
\* under whichever action ids it is sent again; one that was refused leaves no
\* key, and can be corrected.  (Requests with one key must not overlap: the
\* test and the insertion are not one step.)
OneDraftPerKey ==
  \A k \in Keys : drafts[k] = IF k \in sent_ids THEN 1 ELSE 0
================================================================================
