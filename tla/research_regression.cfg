\* A baseline in one session, an experiment in the next.
CONSTANTS
  Scores <- MCScores
  NotANumber = NotANumber
  NoBaseline = NoBaseline
  MinImprovement = 2
  AcceptBelow = 4
  MaxIterations = 2
  MaxRuns = 3
  MaxSessions = 2
  MaxFaults = 0
SPECIFICATION Spec
INVARIANTS
  RegressionsReverted
\* The sessions run out: the model stops there.
CHECK_DEADLOCK FALSE
