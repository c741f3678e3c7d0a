\* Two threads, two actions in twelve variants; requests for one action, or
\* with one idempotency key, do not overlap.  Adapters and the ledger may raise.
CONSTANTS
  t1 = t1
  t2 = t2
  Threads = {t1, t2}
  ActionIds <- MCActionIds
  Requests <- MCMessagingRequests
  NoRequest = NoRequest
  AllowOverlap = FALSE
  AdaptersRaise = TRUE
  AuditMayFail = TRUE
  EnableDestructive = FALSE
  Message <- MCMessage
  Keys = {"k"}
  OverlappingKeys = FALSE
SPECIFICATION MessagingSpec
INVARIANTS
  TypeOK
  StatusTellsExecution
  RejectedOnlyAtStart
  OnlyPermittedExecute
  AuditMatchesStatus
  RepliesAreFinal
  OneDraftPerKey
PROPERTIES
  LegalTransitions
  KeepsPromise
