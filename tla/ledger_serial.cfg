\* Appends one at a time; up to two writes fail,
\* and the process may die between read and write.
CONSTANTS
  w1 = w1
  w2 = w2
  w3 = w3
  e1 = e1
  e2 = e2
  e3 = e3
  e4 = e4
  c1 = c1
  c2 = c2
  Writers = {w1, w2}
  Events = {e1, e2, e3, e4}
  Contexts = {c1, c2}
  NoLine = NoLine
  Serial = TRUE
  MaxFaults = 2
SPECIFICATION Spec
INVARIANTS
  ChainVerifies
  OnlyLastDamaged
PROPERTIES
  IsHashChain
  StopsAtDamage
\* The ids run out: the model stops there.
CHECK_DEADLOCK FALSE
