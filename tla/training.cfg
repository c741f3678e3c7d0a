SPECIFICATION Spec
CONSTANTS
  MaxShard = 2
  Attempts = 2
  Absent = Absent
  Partial = Partial
  RowCapacity = 4
  BufferSize = 2
  BatchDocs = 2
  Corpus <- MCCorpus
  Plans <- MCPlans
  FinalLr <- MCFinalLr
  Accum = 2
  EvalBatches = 2
  Uncounted = 1
  StepTimes <- MCStepTimes
INVARIANTS
  TypeOK
  FinalsComplete
  TokenizerPair
  SplitsApart
  RowsPacked
  BatchesInOrder
  RateBounded
  ScoresComparable
PROPERTIES
  PrepareEnds
  RunEnds
