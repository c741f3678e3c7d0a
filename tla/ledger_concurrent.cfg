\* Appends overlap and up to two writes fail.
CONSTANTS
  w1 = w1
  w2 = w2
  w3 = w3
  e1 = e1
  e2 = e2
  e3 = e3
  e4 = e4
  c1 = c1
  c2 = c2
  Writers = {w1, w2, w3}
  Events = {e1, e2, e3, e4}
  Contexts = {c1, c2}
  NoLine = NoLine
  Serial = FALSE
  MaxFaults = 2
SPECIFICATION Spec
INVARIANTS
  TypeOK
  Rooted
  ForksDetected
  RacesLoseNothing
\* The ids run out: the model stops there.
CHECK_DEADLOCK FALSE
