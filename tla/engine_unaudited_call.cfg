\* An adapter raises after it was called.
CONSTANTS
  t1 = t1
  t2 = t2
  Threads = {t1, t2}
  ActionIds <- MCActionIds
  Requests <- MCRequests
  NoRequest = NoRequest
  AllowOverlap = FALSE
  AdaptersRaise = TRUE
  AuditMayFail = FALSE
  EnableDestructive = FALSE
SPECIFICATION Spec
INVARIANTS
  EveryCallAudited
