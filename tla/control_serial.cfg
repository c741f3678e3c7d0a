\* Requests for one action do not overlap, nor do creations of one task, while
\* observations come in and go stale, contracts change, and the process
\* restarts.
CONSTANTS
  t1 = t1
  t2 = t2
  Threads = {t1, t2}
  ActionIds = {"a"}
  AllowOverlap = FALSE
  AdaptersRaise = FALSE
  AuditMayFail = FALSE
  NoRequest = NoRequest
  EnableDestructive = FALSE
  TaskIds = {"task"}
  Contracts <- TwoContracts
  Actions <- LowRisk
  Observations <- MCObservations
  ApprovalIds = {}
  AllowResubmit = FALSE
  MaxTime = 1
  MaxRestarts = 1
  None = None
SPECIFICATION Spec
INVARIANTS
  OncePerLife
  LogNamesContract
PROPERTIES
  RequestEnds
  AdmissionChecksFirstMatch
