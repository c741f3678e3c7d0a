\* Overlapping requests, failing appends, approvals and a restart.
CONSTANTS
  t1 = t1
  t2 = t2
  Threads = {t1, t2}
  ActionIds = {"a"}
  AllowOverlap = TRUE
  AdaptersRaise = FALSE
  AuditMayFail = TRUE
  NoRequest = NoRequest
  EnableDestructive = FALSE
  TaskIds = {"task"}
  Contracts <- OneContract
  Actions <- BothRisks
  Observations <- Resubmitted
  ApprovalIds = {"p"}
  AllowResubmit = TRUE
  MaxTime = 0
  MaxRestarts = 1
  None = None
SPECIFICATION Spec
INVARIANTS
  TypeOK
  OnlyPermittedExecute
  AuditedCallsHappened
