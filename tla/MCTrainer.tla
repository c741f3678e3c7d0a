------------------------------ MODULE MCTrainer ------------------------------
(* Small instances of Trainer.                                              *)
EXTENDS Trainer, TLC

\* Shards 0 and 1, and 2, the validation shard.  Rows of 4 tokens: documents
\* that fit, that fill a row, and that never fit, which are left in the buffer
\* until there is nothing else.
MCCorpus == 0 :> <<2, 3, 6>> @@ 1 :> <<5, 1>> @@ 2 :> <<1, 4, 5, 2>>

\* No time at all; the default (half of it cooling down); warm-up
\* and cool-down that overlap.
MCPlans ==
  { [budget |-> 0, warmup |-> 0, warmdown |-> 0],
    [budget |-> 2, warmup |-> 0, warmdown |-> 1],
    [budget |-> 3, warmup |-> 2, warmdown |-> 2] }

MCFinalLr == [num |-> 1, den |-> 4]
MCStepTimes == {1, 2}
==============================================================================
