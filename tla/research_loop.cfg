\* Three runs in two sessions; processes end anywhere, one append may fail.
CONSTANTS
  Scores <- MCScores
  NotANumber = NotANumber
  NoBaseline = NoBaseline
  MinImprovement = 2
  AcceptBelow = 4
  MaxIterations = 2
  MaxRuns = 3
  MaxSessions = 2
  MaxFaults = 1
SPECIFICATION Spec
INVARIANTS
  TypeOK
  OnlyScoresKept
  LinesHaveRows
  LedgerTellsBaseline
  KeptIsNoWorse
PROPERTIES
  KeepsRatchet
\* The sessions run out: the model stops there.
CHECK_DEADLOCK FALSE
