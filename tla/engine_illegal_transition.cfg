\* Two overlapping requests for one action.
CONSTANTS
  t1 = t1
  t2 = t2
  Threads = {t1, t2}
  ActionIds <- OneActionId
  Requests <- OneActionRequests
  NoRequest = NoRequest
  AllowOverlap = TRUE
  AdaptersRaise = FALSE
  AuditMayFail = FALSE
  EnableDestructive = FALSE
SPECIFICATION Spec
PROPERTIES
  LegalTransitions
