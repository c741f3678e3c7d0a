-------------------------------- MODULE Trainer --------------------------------
(***************************************************************************)
(* A timed training run, aep.research.autoresearch.trainer.Trainer.run,    *)
(* and the evaluation that gives it its score, pipeline.evaluate_bpb, over *)
(* the data that DataPreparation leaves on the disk.                       *)
(*                                                                         *)
(* Two threads of control: the Python program (pc), and the CUDA stream it *)
(* enqueues copies and kernels on, which works them off in order and in    *)
(* its own time.  The loader has one pinned buffer and one buffer on the   *)
(* device, each an <<inputs, targets>> pair; a batch is its number in the  *)
(* step, and a buffer holds the numbers of the batches its halves are of.  *)
(* A batch is one row (batch_size = 1).                                    *)
(*                                                                         *)
(* Time is counted in units; the schedule's ratios are given in units of   *)
(* the budget too, and a rate is a whole number of parts of Unit(plan).    *)
(***************************************************************************)
EXTENDS DataPreparation, PackingLoader

CONSTANTS
  Plans,         \* [budget, warmup, warmdown], all in units of time
  FinalLr,       \* final_lr_frac, as [num, den]
  Accum,         \* grad_accum_steps
  EvalBatches,   \* batches until EVAL_TOKENS are seen
  Uncounted,     \* the last step whose time is not counted: 10 in the code
  StepTimes      \* how long a step may take

ASSUME TrainerAssumption ==
  /\ Shards \subseteq DOMAIN Corpus
  /\ Accum \in Nat \ {0} /\ EvalBatches \in Nat \ {0} /\ Uncounted \in Nat
  /\ StepTimes \subseteq Nat \ {0} /\ StepTimes # {}
  /\ FinalLr.den \in Nat \ {0} /\ FinalLr.num \in 0..FinalLr.den
  /\ \A p \in Plans :
       p.budget \in Nat /\ p.warmup \in 0..p.budget /\ p.warmdown \in 0..p.budget

VARIABLES
  phase,     \* "off", "train" or "eval"
  pc,        \* where the program is in the phase
  plan,      \* budget and schedule of the run
  loaded,    \* the shards its tokenizer was trained on
  batch,     \* the last batch yielded
  cpu, gpu,  \* the pinned buffer and the device's
  stream,    \* what the device has still to do
  seen,      \* <<batch, inputs, targets>> of the forward passes done
  step, total, rate,
  metrics    \* the scores measured so far: which files they were measured with

runVars == <<loaderVars, phase, pc, plan, loaded, batch, cpu, gpu, stream,
             seen, step, total, rate>>
vars == <<prepVars, runVars, metrics>>

NoBatch == -1

Off ==
  /\ phase' = "off" /\ pc' = "off" /\ plan' = [budget |-> 0, warmup |-> 0, warmdown |-> 0]
  /\ loaded' = {} /\ batch' = NoBatch
  /\ loader' = NoLoader /\ row' = <<>> /\ pos' = 0
  /\ cpu' = <<NoBatch, NoBatch>> /\ gpu' = <<NoBatch, NoBatch>> /\ stream' = <<>>
  /\ seen' = {} /\ step' = 0 /\ total' = 0 /\ rate' = 0

Init ==
  /\ PrepInit
  /\ phase = "off" /\ pc = "off" /\ plan = [budget |-> 0, warmup |-> 0, warmdown |-> 0]
  /\ loaded = {} /\ LoaderInit /\ batch = NoBatch
  /\ cpu = <<NoBatch, NoBatch>> /\ gpu = <<NoBatch, NoBatch>> /\ stream = <<>>
  /\ seen = {} /\ step = 0 /\ total = 0 /\ rate = 0
  /\ metrics = {}

-----------------------------------------------------------------------------
(* The schedule.                                                            *)

AtLeast1(n) == IF n = 0 THEN 1 ELSE n

Unit(p) == AtLeast1(p.warmup) * AtLeast1(p.warmdown) * FinalLr.den

\* Mutant of Multiplier: the whole of the final rate is added.
MultiplierTwice(p, t) ==
  LET left == p.budget - t
  IN  IF t < p.warmup THEN t * AtLeast1(p.warmdown) * FinalLr.den
      ELSE IF t < p.budget - p.warmdown THEN Unit(p)
      ELSE AtLeast1(p.warmup) *
             (left * FinalLr.den + p.warmdown * FinalLr.num)

\* _lr_multiplier at t of the budget: up, level, and down to final_lr_frac.
Multiplier(p, t) ==
  LET left == p.budget - t
  IN  IF t < p.warmup THEN t * AtLeast1(p.warmdown) * FinalLr.den
      ELSE IF t < p.budget - p.warmdown THEN Unit(p)
      ELSE AtLeast1(p.warmup) *
             (left * FinalLr.den + (p.warmdown - left) * FinalLr.num)

-----------------------------------------------------------------------------
(* The program.                                                             *)

HostAt(here) == pc = here /\ UNCHANGED prepVars
Goto(here, next) == HostAt(here) /\ pc' = next /\ UNCHANGED metrics

\* aep research train, no preparation being under way.
StartRun ==
  /\ prep = "idle"
  /\ HostAt("off")
  /\ pc' = "load" /\ phase' = "train"
  /\ plan' \in Plans
  /\ UNCHANGED <<loaded, loaderVars, batch, cpu, gpu, stream, seen, step,
                 total, rate, metrics>>

\* Tokenizer.from_directory.
LoadTokenizer ==
  /\ tokenizer \notin {Absent, Partial}
  /\ Goto("load", "list")
  /\ loaded' = tokenizer
  /\ UNCHANGED <<phase, plan, loaderVars, batch, cpu, gpu, stream, seen, step,
                 total, rate>>

\* The files of a split.
Files(p) == IF p = "train" THEN {s \in TrainShards : file[s] # "absent"}
            ELSE {ValShard}

\* A loader begins: it lists its files and allocates its buffers.
BeginLoader(p) ==
  /\ Files(p) # {} /\ \A s \in Files(p) : file[s] = "complete"
  /\ phase' = p
  /\ loader' = NewLoader(Files(p)) /\ row' = <<>> /\ pos' = 0
  /\ batch' = NoBatch
  /\ cpu' = <<NoBatch, NoBatch>> /\ gpu' = <<NoBatch, NoBatch>>

ListTraining ==
  /\ Goto("list", "pack")
  /\ BeginLoader("train")
  /\ UNCHANGED <<plan, loaded, stream, seen, step, total, rate>>

\* next(loader): a row is packed, document by document ...
Pack ==
  /\ Goto("pack", "pack")
  /\ Refill \/ PackDocument
  /\ UNCHANGED <<phase, plan, loaded, batch, cpu, gpu, stream, seen, step, total, rate>>

\* ... and split into the pinned buffer's inputs ...
Split ==
  /\ pos >= RowCapacity
  /\ Goto("pack", "send")
  /\ cpu' = [cpu EXCEPT ![1] = batch + 1]
  /\ row' = <<>> /\ pos' = 0
  /\ UNCHANGED <<loader, phase, plan, loaded, batch, gpu, stream, seen, step, total,
                 rate>>

\* ... and targets, and the copy to the device is enqueued, not waited for.
Send ==
  /\ Goto("send", CASE phase = "eval" -> "launch"
                    [] phase = "train" /\ batch + 1 = 0 -> "sync"
                    [] phase = "train" /\ batch + 1 \in 1..(Accum - 1) -> "launch"
                    [] phase = "train" /\ batch + 1 = Accum -> "optimize")
  /\ cpu' = [cpu EXCEPT ![2] = batch + 1]
  /\ stream' = stream \o <<[op |-> "inputs"], [op |-> "targets"]>>
  /\ batch' = batch + 1
  /\ UNCHANGED <<phase, plan, loaded, loaderVars, gpu, seen, step, total, rate>>

\* Mutant of Idle: the program does not wait for the device.
NeverBusy == TRUE

\* What synchronize(), item() and tolist() wait for.
Idle == stream = <<>>

\* A step begins with the batch it has; the batches are numbered from it.
BeginStep ==
  /\ Idle
  /\ Goto("sync", "launch")
  /\ batch' = 0 /\ seen' = {}
  /\ cpu' = [i \in 1..2 |-> cpu[i] - batch] /\ gpu' = [i \in 1..2 |-> gpu[i] - batch]
  /\ UNCHANGED <<phase, plan, loaded, loaderVars, stream, step, total, rate>>

\* The forward (and backward) pass of the batch is enqueued.
Launch ==
  /\ Goto("launch", IF phase = "train" THEN "pack" ELSE "read")
  /\ stream' = Append(stream, [op |-> "pass", batch |-> batch])
  /\ UNCHANGED <<phase, plan, loaded, loaderVars, batch, cpu, gpu, seen, step,
                 total, rate>>

\* The rate is set and the optimizer's step enqueued.
Optimize ==
  /\ plan.budget # 0
  /\ Goto("optimize", "item")
  /\ rate' = Multiplier(plan, total)
  /\ UNCHANGED <<phase, plan, loaded, loaderVars, batch, cpu, gpu, stream, seen,
                 step, total>>

\* Mutant of Counted: the comparison is the wrong way round.
CountedBefore(n) == n < Uncounted

Counted(n) == n > Uncounted

\* The loss is finite: the step is timed.  (step stops where it is told from
\* no later one.)
EndStep ==
  /\ Idle
  /\ \E dt \in StepTimes :
       LET t == IF Counted(step) THEN total + dt ELSE total
       IN  /\ Goto("item", IF t >= plan.budget THEN "evaluate" ELSE "sync")
           /\ total' = t
  /\ step' = IF step > Uncounted THEN step ELSE step + 1
  /\ UNCHANGED <<phase, plan, loaded, loaderVars, batch, cpu, gpu, stream, seen, rate>>

\* The loss exploded: the result says crashed, and there is no score.
LossExplodes ==
  /\ Idle
  /\ Goto("item", "off")
  /\ Off

\* evaluate_bpb reads the bytes of each token and the validation shard.
BeginEvaluation ==
  /\ tokenBytes \notin {Absent, Partial}
  /\ Goto("evaluate", "pack")
  /\ BeginLoader("eval")
  /\ seen' = {}
  /\ UNCHANGED <<plan, loaded, stream, step, total, rate>>

\* The losses of a batch are read off the device; another, or the score.
ReadLosses ==
  /\ Idle
  /\ HostAt("read")
  /\ IF batch + 1 < EvalBatches
     THEN /\ pc' = "pack" /\ seen' = {}
          /\ UNCHANGED <<phase, plan, loaded, loaderVars, batch, cpu, gpu,
                         stream, step, total, rate, metrics>>
     ELSE /\ metrics' = metrics \cup {[tokenizer |-> loaded, bytes |-> tokenBytes]}
          /\ Off

\* What the next line needs is not there: a file, a shard, a budget.
Raise ==
  /\ \/ pc = "load" /\ tokenizer \in {Absent, Partial}
     \/ pc = "list" /\ \E s \in Files("train") : file[s] = "partial"
     \/ pc = "list" /\ Files("train") = {}
     \/ pc = "optimize" /\ plan.budget = 0
     \/ pc = "evaluate" /\ (tokenBytes \in {Absent, Partial} \/ file[ValShard] # "complete")
  /\ HostAt(pc)
  /\ Off
  /\ UNCHANGED metrics

\* It runs out of memory, or is killed.
Killed ==
  /\ phase # "off"
  /\ HostAt(pc)
  /\ Off
  /\ UNCHANGED metrics

-----------------------------------------------------------------------------
(* The device does the oldest thing on its stream.                          *)
Device ==
  /\ stream # <<>>
  /\ LET do == Head(stream)
     IN  /\ gpu' = CASE do.op = "inputs"  -> [gpu EXCEPT ![1] = cpu[1]]
                     [] do.op = "targets" -> [gpu EXCEPT ![2] = cpu[2]]
                     [] do.op = "pass"    -> gpu
         /\ seen' = IF do.op = "pass"
                    THEN seen \cup {<<do.batch, gpu[1], gpu[2]>>} ELSE seen
  /\ stream' = Tail(stream)
  /\ UNCHANGED <<prepVars, loaderVars, phase, pc, plan, loaded, batch,
                 cpu, step, total, rate, metrics>>

Host ==
  \/ LoadTokenizer \/ ListTraining \/ Pack \/ Split \/ Send \/ BeginStep \/ Launch
  \/ Optimize \/ EndStep \/ LossExplodes \/ BeginEvaluation \/ ReadLosses \/ Raise

Prepare == phase = "off" /\ UNCHANGED <<runVars, metrics>>

Next ==
  \/ Prepare /\ PrepareNext
  \/ StartRun \/ Host \/ Killed \/ Device

\* The program and the device go on as long as they can, and so does a
\* preparation.  Nobody has to start either.
Spec ==
  /\ Init /\ [][Next]_vars
  /\ WF_vars(Host) /\ WF_vars(Device) /\ WF_vars(Prepare /\ PrepareStep)

-----------------------------------------------------------------------------
(* Properties.                                                              *)

Buffers == (NoBatch..Accum + EvalBatches) \X (NoBatch..Accum + EvalBatches)
Operations ==
  {[op |-> o] : o \in {"inputs", "targets"}}
    \cup {[op |-> "pass", batch |-> b] : b \in 0..(Accum + EvalBatches)}

\* The state is what the code may hold, and the stream never holds more than
\* a step's work.
TypeOK ==
  /\ PrepTypeOK /\ LoaderTypeOK
  /\ phase \in {"off", "train", "eval"} /\ (phase = "off" <=> pc = "off")
  /\ loaded \subseteq Shards
  /\ batch \in NoBatch..(Accum + EvalBatches)
  /\ cpu \in Buffers /\ gpu \in Buffers
  /\ \A i \in DOMAIN stream : stream[i] \in Operations
  /\ Len(stream) <= 3 * Accum
  /\ step \in 0..(Uncounted + 1) /\ total \in Nat /\ rate \in Nat
  /\ metrics \subseteq [tokenizer : SUBSET TrainShards, bytes : SUBSET TrainShards]

\* Nothing is trained on the validation shard, neither the tokenizer nor the
\* model, and nothing else is evaluated: whatever shards a preparation left.
SplitsApart ==
  /\ loaded \subseteq TrainShards
  /\ \A i \in DOMAIN row :
       row[i].shard \in IF phase = "train" THEN TrainShards ELSE {ValShard}

\* The device's buffer is overwritten while it is in use, in training: but no
\* pass sees an older batch than its own, the first of a step sees its own,
\* and so does every pass of the evaluation, which the score is made of.
BatchesInOrder ==
  \A s \in seen :
    /\ s[2] >= s[1] /\ s[3] >= s[1]
    /\ s[1] = 0 \/ phase = "eval" => s[2] = s[1] /\ s[3] = s[1]

\* Every pass is given the inputs and targets the loader yielded for it.
TrainsOnYieldedBatch == \A s \in seen : s[2] = s[1] /\ s[3] = s[1]

\* The rate of a step is defined (the budget is not used up), at most the
\* initial rate, and from the end of the warm-up on at least the final one.
RateBounded ==
  pc = "item" =>
    /\ total < plan.budget
    /\ rate \in 0..Unit(plan)
    /\ total >= plan.warmup => rate * FinalLr.den >= Unit(plan) * FinalLr.num

\* All scores are measured with one tokenizer and its own token bytes: a
\* preparation with more shards, or after a failed one, changes neither.
ScoresComparable ==
  /\ \A m \in metrics : m.bytes = m.tokenizer
  /\ \A m, n \in metrics : m = n

\* A run ends, with a score, a crash or an exception: the program and the
\* device do not wait for each other.
RunEnds == pc = "load" ~> pc = "off"
================================================================================
