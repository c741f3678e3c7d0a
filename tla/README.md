# A formal model of the Agent Execution Partnership

AEE is a control plane for agents: a caller registers a task, proposes an action
of that task, and the execution engine decides by policy whether the action may
run, runs it through an adapter, verifies the evidence, and records what it did
in a hash-chained audit file. The repository also holds an autonomous research
harness: a loop that trains a small language model within a time budget, again
and again, and keeps an experiment only if its score is better. This directory
models both in TLA+. TLC checks the models on small instances; TLAPS proves their
safety properties for every number of threads, actions, requests, events,
shards and runs.

Paths below are relative to the repository, `aep/` stands for `src/aep/`.

## 1. Inventory

| Part | State | Operations | Talks to |
| --- | --- | --- | --- |
| Control-plane API `aep/api/app.py` | `tasks`, `observations`, one engine, one ledger, one approval service; all in memory | create task, submit observation, evaluate policy, propose, create/list/decide approval, execute, verify, cancel, verify audit | everything, from the threads of the server's pool |
| Execution engine `aep/execution/engine.py` | `_states`: the status of every action seen | `execute`, `_set_state` | policy, adapters, verifier, recovery, ledger |
| Life cycle `aep/actions/state_machine.py` | none (a table) | `validate_transition`, `validate_sequence` | |
| Policy engine `aep/policy/engine.py` | none | `evaluate` | |
| Verification, recovery `aep/verification`, `aep/recovery` | none | `verify`, `plan` | |
| Adapters `aep/adapters/*` | messaging: the set of sent keys; filesystem: the disk; others none | `execute` | files, processes, network |
| Audit ledger `aep/audit/ledger.py` | the audit file | `append`, `verify_chain` | redaction |
| Approvals `aep/approvals/service.py` | approval records | create, list, decide | |
| Observations `aep/observations/service.py` | observation records | record, lookups, `latest_fresh`, `purge_stale` | not used by the API, which keeps its own table |
| Experiment loop and harness `aep/research/autoresearch/{loop,harness}.py` | baseline and iteration in memory; `results.tsv` and the ledger on disk | baseline, one experiment, keep or discard | trainer |
| Trainer `aep/research/autoresearch/trainer.py` | step, clock, schedules | run within a time budget | model, data loader, CUDA stream |
| Data pipeline `aep/research/data/pipeline.py` | shards and tokenizer files on disk, packing buffer, pinned and device buffer | download, train tokenizer, pack rows, evaluate | network, disk, CUDA stream |
| GPT model, optimizer `aep/models/gpt/*` | tensors | forward, step | |
| Persistence, settings, telemetry, CLI, FunctionGemma stub | tables that nothing uses, configuration, output | | |

What is hard about it:

- *Threads.* The API's endpoints are plain functions, so the server runs them in
  a thread pool. The engine's status table, the ledger's file, the observation
  table and the messaging adapter's set are shared, and nothing locks them.
  Every check-then-act pair on them is a hazard.
- *The device.* Copies and kernels are enqueued and done later, while the host
  goes on and fills the same buffers again.
- *Failure in the middle.* An adapter may act and then raise. The ledger may
  raise after the action was executed. A write may fail half way. A download or
  a preparation may be killed between any two of its files.
- *Repetition.* Callers retry, and an action id may come again in any state and
  with different contents.
- *Crashes.* The ledger survives a restart, the status table does not; the
  experiment log survives its process, the baseline does not.
- *Time.* Observations expire between the check and the execution.
- *Boundaries.* A budget of exactly zero, the thresholds of the experiment
  harness, the packer's last row, the ends of the training schedules.

What makes each part correct:

- Engine: statuses move along the documented life cycle only; the adapter is
  called at most once per action, and only with the policy's permission; a reply
  stays true; the audit says what happened; every request ends.
- Ledger: the file is a chain that only grows; a returned append is in it;
  `verify_chain` accepts exactly the intact chains; after damage nothing is
  recorded behind it.
- API: only fresh state is acted upon; a cancelled task starts nothing; an
  approved action can proceed, an unapproved one cannot.
- Messaging: one send per key. Observations: the newest fresh one is found.
- Experiment loop: the baseline never gets worse, and what the log says was
  kept is what is kept.
- Data pipeline: a shard under its final name is complete, the tokenizer's files
  belong together, the splits stay apart; a packed row is exactly full and every
  piece starts with a document's first token.
- Trainer: a pass sees the batch it was launched for; the rate stays within its
  bounds at the ends of the schedule; a run ends; scores can be compared.

PROJECT.json lists every hazard with its line and the properties that cover it,
and says of the few others why none does.

## 2. Modules

| Module | Models |
| --- | --- |
| `Lifecycle` | the statuses and the transition table |
| `PolicyEngine` | `PolicyEngine.evaluate` as an operator |
| `Verification` | the verdict on an evidence, and the evidence of a denial |
| `Adapters` | what a call on each registered channel may return, and which channels may raise |
| `ExecutionEngine` | `ActionExecutionEngine` in any number of threads |
| `ActionPromise` | abstract: what the engine promises per action, its status and its number of adapter calls |
| `Messaging` | the messaging adapter inside `ExecutionEngine` |
| `ControlPlane` | the API and the approval service, with `ExecutionEngine` behind them |
| `AuditLedger` | `AuditLedger` with any number of writers on one file |
| `HashChain` | abstract: a log that grows by linked events |
| `ExperimentHarness` | the decision on an experiment as operators |
| `ExperimentLoop` | sessions of `ExperimentLoop`, their runs and records |
| `BaselineRatchet` | abstract: a baseline that only improves |
| `DataPreparation` | `aep research prepare`: downloads and the tokenizer's files |
| `PackingLoader` | the best-fit packer behind the data loader |
| `Trainer` | a training run and its evaluation, over the two modules before, against the asynchronous device |
| `MCExecutionEngine`, `MCMessaging`, `MCControlPlane`, `MCAuditLedger`, `MCExperimentLoop`, `MCTrainer` | small instances for TLC |
| `ExecutionEngineProofs`, `EngineAuditProofs`, `MessagingProofs`, `ControlPlaneProofs`, `AuditLedgerProofs`, `ExperimentLoopProofs`, `TrainerProofs` | theorems |
| `LeastNumber` | lemmas on least and greatest numbers, `Min` and `Max`, for `AuditLedgerProofs` and `TrainerProofs` |

### ExecutionEngine

State: `states` is `_states` (an absent entry reads as `PROPOSED`, which
`execute` never stores, so the two are the same); `pc`, `req`, `target` and
`evidence` are a thread's place in `execute` and its locals; `calls`, `audit`
and `replies` record what the outside world has seen: adapter calls, audit
events, and return values.

`execute` is cut at each access to the shared table. `CheckTransition` is the
read and `validate_transition` of `_set_state`, `RejectTransition` its exception,
and the `Store...` actions are the assignment, one action for each way
`execute` goes on: to the policy's decision, along the straight part of the life
cycle, to the adapter, to the verdict, to the audit, or out. `InvokeAdapter` is
the moment the adapter is entered; it ends with `AdapterReturns` or
`AdapterRaises`. Statements without a shared effect (digests, timestamps,
building the evidence) are part of the neighbouring step.

The audit is abstracted to counters of events per action and kind, and an append
is one step that succeeds or raises: what the ledger's file looks like is
AuditLedger's business. The risk budget is a natural number, since the policy
only asks whether it is positive; recovery planning is left out, because the
engine drops the plan it computes.

`AllowOverlap` separates two environments. With `FALSE`, callers send a request
for an action only when none for it is in flight; this is how the repository's
tests, simulations and examples use the engine, and it is a promise of the
callers, not something the code enforces. With `TRUE` they may do anything.

### Messaging

`Messaging` extends `ExecutionEngine`: for a request of the messaging channel the
adapter's answer comes from the adapter's own steps, for any other channel it
stays arbitrary. `sent_ids` is the adapter's set, `fresh` the threads that have
passed the test for a duplicate and not yet returned, `drafts` counts the drafts
per key. The test (`PassDuplicateTest`, `BlockDuplicate`) and the insertion
(`CreateDraft`) are separate steps, with the two refusals (`RefuseMessage`) in
between, as the code has them. `OverlappingKeys` says whether requests with one key
may be in flight at once.

### ControlPlane

The module instantiates `ExecutionEngine` on shared variables and adds the API's
own: `tasks`, `observations` (a sequence, in the order in which a Python dictionary
is iterated: a resubmitted id keeps its place), `approvals`, `handler` (where a
thread is in `create_task` or before the engine in `execute_action`), `taskLog`
(what the audit file last said of a task), and a clock.

`create_task` is two steps, the assignment (`StoreTask`) and the audit append
(`LogTask`, `LogTaskRaises`). `execute_action` reads the contract (`Arrive`), starts
the iteration (`BeginScan`), and looks at one observation per step: an insertion
meanwhile makes the iteration raise (`ScanRaises`), another version is skipped
(`ScanNext`), a stale match is refused (`RefuseStale`), and a fresh one, or the end,
enters the engine with the contract read at arrival (`Admit`, which is the
engine's `Call`). From there the thread takes the engine's steps. `cancel`,
`submit_observation` and the approval endpoints touch shared state once and are one
step each. `Restart` loses everything but the audit file, the clock and what the
outside has seen. The endpoints that only read, and requests answered with an
error that changes nothing, are stutters and left out.

### AuditLedger

A line is its event, the event's context, the digest it is linked to, its own
digest, and two facts about its text: whether `json.loads` accepts it, and whether it
ends in a newline. The event stands for what `append` and `verify_chain` hash: event
id, redacted payload, event type and correlation id. The context stands for what
they leave out: actor, task, action and timestamp. The digest is the pair of event
and link: sha256 is taken to be injective, and `uuid4` never to repeat. `ReadLast` is `append` up to the
write, `WriteLine` is the write and the return, `WriteFails` is a write that
raises and leaves nothing, a torn line, or a line that lacks only its newline.
Text that follows a line without a newline lands in that line, which is then
unreadable. `Crash` loses every writer's progress and keeps the file. A single
line is written by one system call, so whole lines of different writers do not
mix. `verify_chain` is the operator `VerifyChain`.

### ExperimentHarness and ExperimentLoop

A score is a positive integer; `NotANumber` is an evaluation that overflowed, 0
what a crashed run reports, and `NoBaseline` the baseline that reads "unknown".
`Retains` is the chain of conditions of `AutoresearchHarness.evaluate` with the
completion rate that `to_metrics` derives.

A session is one loop object. `RunBaseline` and `RunOne` start a run of the trainer,
`Measured`, `Crashed` and `TrainerRaises` end it, and then come the row of
`results.tsv` (`AppendTsv`), the line of the ledger (`AppendLedger`), and for an
experiment the new baseline (`Adopt`); `run_baseline` takes its value over when the
trainer returns, before both appends. An append may fail (`AppendFails`), and the
process may end anywhere (`StopSession`) and be started again (`StartSession`), with
no baseline, as the command line does.

### DataPreparation, PackingLoader and Trainer

`DataPreparation` is the disk: shards under their final and temporary names, and the
tokenizer's two files, each with the set of shards its content comes from. A
worker's attempt is `OpenTmp`, `WriteAll`, `Rename`; it may fail anywhere, cleans up
and tries again up to `Attempts` times. `PoolDone` goes on whatever the downloads
came to, as `download_data` does. `PrepareStops` is a kill or an exception.

`PackingLoader` keeps the buffer of documents, and the row as a sequence of pieces.
A document is its shard and its length. `Refill` appends one batch of documents and
goes round the files without end; `PackDocument` takes the longest document that
fits, or cuts the shortest.

`Trainer` has the Python program (`pc`) and the device, which works off its `stream`
in order. `next(loader)` packs a row, writes it into the two halves of the
pinned buffer (`Split`, `Send`) and enqueues the copies without waiting for them;
`Launch` enqueues the pass on the device's buffer. `BeginStep`, `EndStep` and
`ReadLosses` are where the program waits until the stream is empty (`Idle`).
`seen` collects what each pass has found in the device's buffer. `Optimize` sets
the rate by `Multiplier`, in whole parts of `Unit`, so that no fraction is rounded.
The run ends in the evaluation and a score, a crash, an exception (`Raise`) or a kill.

## 3. What the runs show

| Run | Instance | Shows |
| --- | --- | --- |
| `engine_serial` | 2 threads, 2 actions in 12 variants, 1 message key, no overlap per action or key, anything may raise | life cycle, at most one adapter call, rejection only at the start, policy's guard, audit agrees with status, replies final, one draft per key, implements `ActionPromise` |
| `engine_illegal_transition` | 2 threads, free overlap | counterexample: a status moves backwards |
| `engine_unaudited_call` | no overlap, adapters raise | counterexample: an executed action without an event |
| `control_serial` | 2 threads, 2 observations of 2 kinds each, 2 clock values, 2 contracts for one task, 1 restart; no overlap per action and task | the scan decides on what the dictionary holds at the moment of the decision; one adapter call per action and process life; the log names the contract in force; every request is answered |
| `control_overlap` | 2 threads, free overlap, appends that fail, low and high risk, approvals, an observation submitted again, 1 restart | policy's guard, audited calls happened |
| `ledger_serial` | one append at a time, 4 events with 2 contexts, crashes, 2 failing writes | the file is a hash chain, and verifies until a write fails; damage stays at the end, and the ledger stops at it |
| `ledger_concurrent` | 3 writers, 4 events with 2 contexts, crashes, 2 failing writes | every line is rooted; forks are detected, and only forks; until a write fails, returned events are in the file |
| `ledger_fork` | 2 writers | counterexample: overlapping appends break the chain |
| `research_loop` | 5 scores, 3 runs, 2 sessions, 1 failing append | no crash or overflow is kept; every ledger line has its row; the ledger tells the baseline; what is kept is no worse; implements `BaselineRatchet` |
| `research_regression` | the same, no failing append | counterexample: the next session keeps a worse experiment |
| `training` | 3 shards, 2 attempts, rows of 4 tokens, 3 plans | shards under final names complete; tokenizer's files belong together; splits apart; rows packed; passes and batches in order; rates bounded; scores comparable; preparations and runs end |
| `training_race` | the same | counterexample: a pass sees another batch than its own |

The five counterexamples are the findings of PROJECT.json, each a plain
disagreement between what the repository says and what the code does:

1. `docs/action-lifecycle.md` says invalid transitions fail closed. Two requests
   for one action can pass the same check and overwrite each other.
2. `docs/architecture.md` puts immutable audit recording after execution. An
   adapter call that raises is never recorded.
3. `docs/architecture.md` calls the audit an append-only hash chain. Overlapping
   appends fork it, and `verify_chain` then rejects a file nobody has altered.
4. `examples/README.md` says regressing experiments are reverted automatically. The
   baseline lives in the process: a second `aep research train` starts without
   one, and keeps an experiment that is worse than the recorded baseline.
5. The loader's docstring says it yields inputs and targets on the device. It
   yields a buffer into which they will be copied later, and the next batch is
   written into the pinned source of that copy without waiting for it. With
   gradient accumulation a pass can train on a later batch, or on the inputs of
   one and the targets of another. The evaluation reads its losses after each
   batch, which is why its scores are sound (`BatchesInOrder`).

### Seen while modelling, without a run

These follow from a line or two and need no search:

- `cancel` (`aep/api/app.py:162`) only writes an event. `docs/incident-response.md:3`
  relies on it, but requests in flight and later ones go on.
- Nothing reads an approval (`aep/approvals/service.py:36`): an action in
  `AWAITING_APPROVAL` stays there, and submitting it again is an invalid transition,
  although `README.md` lets the user approve.
- An append behind a last line that only lacks its newline (`aep/audit/ledger.py:81`)
  returns normally, and leaves one unreadable line with two events in it.
- The digest of an event covers its id, payload, type and correlation id
  (`aep/audit/ledger.py:57`), and not its actor, task, action and timestamp
  (`ContextEditPasses`).
- Two creations of one task that overlap may be logged in the other order than they
  were stored, and one whose append fails stays registered (`aep/api/app.py:81`): the
  log then names another contract than the one in force.
- Below `AcceptBelow` (2 bits per byte) the harness keeps an experiment whose gain is
  below the threshold, even one without any gain; `KeptIsNoWorse` states this.
- A crashed baseline run is logged "keep" with 0.0 and then counts as unknown; and
  after an append of `run_baseline` has failed, memory is ahead of the ledger. The
  properties say where they exclude this.
- With a warm-up, every step before time is counted has the rate 0: progress is
  computed from counted time, and the first steps are not counted.
- `results.tsv` holds `keep`, `discard` and `crash`
  (`aep/research/autoresearch/loop.py:145`), the words of the model; the sample in
  `examples/README.md:122` shows `retain` and `revert`, which the code never writes there.
- A killed preparation may leave a partial `token_bytes.pt`, which every later
  preparation takes as it is. Training runs to its end, and its evaluation raises.
- Shards that could not be downloaded are counted in a message and otherwise
  ignored; a missing validation shard surfaces after a full training run.
- `evaluate_bpb` means to skip special tokens, those without bytes
  (`aep/research/data/pipeline.py:344`); the bytes listed for them are those of
  their names, so they count in the metric.
- Two messages with one key that overlap are both drafted: the test and the
  insertion of the key are apart.
- The filesystem adapter's move and copy create directories first and may raise
  then: the directory stays, and no evidence tells of it.

### Bounds

*Engine.* The variants of a request cover every policy decision, every way an
adapter call ends, an unknown channel, each adapter kind, and a message that is
drafted, refused for its mode, refused for its recipient, and sent again under
another action id. The state of an action only depends on requests for that action
(and of a key, for that key), so two actions show that they do not interfere, and
two threads the interference of two requests; the theorems cover any number of
each. Nothing in the engine needs a bound: an action can only leave `PROPOSED` once
per thread that has checked it, so the counters are finite.

*API.* A clock of two values is enough for an observation to be fresh when it is
submitted and stale when it is read, and two observations for one to be inserted
behind a scan of the other; contracts, approvals and restarts are as many as a
second one needs to differ from the first.

*Ledger.* Bounded by its event ids and `MaxFaults`: a fork needs two lines and a third
to follow it, damage needs a line before and one behind it. When the ids are used
up the model stops, which is why its runs do not check for deadlock.

*Research loop.* Three runs are a baseline (or a first kept experiment) and two
experiments after it; two sessions are what the loss of a baseline takes. With
`MinImprovement` 2 and `AcceptBelow` 4 the scores {2, 3, 4, 5, 7} have gains and losses
on either side of both thresholds, and values on the bounds. `MaxRuns`, `MaxSessions` and
`MaxFaults` are bounds of the model, `MaxIterations` is the code's; when they are used
up the model stops, so these two runs do not check for deadlock.

*Training.* Two training shards and the validation shard; two attempts, the last of
which gives up; documents shorter than a row, of a row's length, and longer than a
row, so that the buffer holds only documents that do not fit. Two micro-batches are
the code's default and the least for the race; two evaluation batches reuse a
buffer once. One uncounted step stands for the code's first ten. The plans are a
budget of zero, the default schedule, and a warm-up and cool-down that overlap.

### Assumptions

`AllowOverlap = FALSE` and `OverlappingKeys = FALSE` are promises of the callers,
which the repository's tests and examples keep and the code does not enforce. The
overlapping runs and theorems do without them.

`AdmissionChecksFirstMatch` needs that no observation id is submitted twice
(`AllowResubmit`): the value of a known id changes without disturbing the iteration,
and may become the first match behind the scan. Ids are drawn by `uuid4` unless the
submitter chooses them. It says what is true when the engine is entered; between
there and the adapter call the observation may go stale, and the code does not look
again.

One `prepare` command runs at a time, and none while a training run is on: nothing
in the code keeps them apart, and the scores' comparability depends on it. A body
that is cut short raises in the HTTP client. The appends of the research loop are
short enough to be whole or absent. A batch is one row. The pool's workers end with
the command: after a SIGKILL of the parent alone they may go on, and a single worker
that is killed may leave `pool.map` waiting; neither is in the model. sha256 is injective, `uuid4`
never repeats.

### Fairness

Weak fairness of each thread's steps inside a handler, none of arrivals. A thread
inside `execute` waits for no other thread; a child process is bounded by at most
30 seconds and each HTTP operation by 10, and the other adapters only compute or
use local files. The policy, the verifier and the ledger do not loop.

In `Trainer` the program, the device and a preparation's steps are weakly fair;
nobody has to start one. The program is sequential and blocks only where it waits
for the device, a CUDA stream works off its queue, and every request of a download
has a timeout. The experiment loop states no fairness: a run may take for ever, and
no liveness is claimed of it.

## 4. What is proved

All proofs are checked by tlapm to the last leaf. They assume what the modules'
named ASSUMEs state, which TLC evaluates on every run: switches are Booleans,
`NoRequest` is no request, requests carry a known action, a risk class and a
non-negative budget, and the sizes are natural numbers, positive where the code
would otherwise divide by zero or never stop.

*Engine* (`ExecutionEngineProofs`). `TypeInv` is the type invariant with the fact that
a thread is idle exactly when it serves no request, and that it is only inside an
adapter that exists. It gives `Typing`. `PermitInv` says that a thread past
`VALIDATING` that was neither denied nor parked holds an authorization for its own
request. It is local to the thread, so it survives any overlap, and gives
`PolicyGuardsAdapters`. `RequestsMoveOnwards` is the half of `RequestEnds` that is
safety: `StepsLeft` counts down with each step of a thread inside `execute`, and no
other thread's step changes it; by `RequestsAreShort` it is at most nineteen. What
is missing to `RequestEnds` is that a step is always enabled, and fairness.

The other theorems of that module assume `~AllowOverlap`. None of their properties
is inductive: whether the next store is legal depends on where the thread is. The
invariant `LifecycleInv` ties the two together: no two threads work on one action;
before a store the status is the one `execute` comes from (`Predecessor`); inside
the adapter the status is `EXECUTING` and there has been one call, and before
it none; and the status of each action determines its number of calls except in
`EXECUTING`. `OwnStep` reduces its preservation to the stepping thread and its
own action. From it follow `StatusTellsExecutionHolds`, `RejectedOnlyAtStartHolds`,
`LegalTransitionsHold`, and `EngineKeepsPromise`, which maps each store to `Advance`,
the adapter call to `Invoke`, and all else to stutters. The mapping hands
`ActionPromise` the number of calls itself, so a second call would be no step of it. The invariant is stated
relative to a number of calls per action made before (`LifecycleFrom(base)`), so that
it can be taken up after a restart.

*Engine and audit* (`EngineAuditProofs`). `AuditMatchesStatusHolds` and
`RepliesAreFinalHolds` rest on `LifecycleInv`, extended by `AuditInv`: what evidence a
thread holds at each place, and what the audit of an action holds in each status.
`UnauditedTellsHolds` bounds finding 2: of an executed action at rest the audit has
an event, or the adapter raised and the status is still `EXECUTING`, or the append
raised after the verdict. `CalledInv` says that no request that has called an
adapter ends in another way. Hence `EveryCallAuditedUnlessRaised`.
`AuditedCallsHappenedHolds` needs no promise of the callers: `OwedInv` says that the
executions in the audit plus the threads that still owe one are at most the
adapter calls, a counting argument over a finite set of threads.

*Messaging* (`MessagingProofs`). `MessagingKeepsEngine`: with the adapter behind it the
engine takes only steps the engine alone could take, so the theorems above hold
of the composition that `engine_serial` checks. `OneDraftPerKeyHolds` by the invariant
that a thread past the test is alone with its key, and its key is not remembered.

*API* (`ControlPlaneProofs`). The module instantiates `EngineAuditProofs` on the control
plane's variables and reuses its invariants: `OperatorsAgree`, `StepsAgree` and
`EngineView` show that a thread's step behind the API is a step of the engine, and
`EngineParameters` discharges what the engine assumes. A restart is no step of the
engine; for it the invariants are shown anew, with the calls of earlier lives as
`LifecycleFrom`'s base (`LifeInv`). This gives `Typing`, `OnlyPermittedExecuteHolds`,
`AuditedCallsHappenedHolds` (finitely many threads, any overlap) and
`OncePerLifeHolds`; and `OnlyRestartSetsBack`: every other step keeps to the transition
table, and calls an adapter only of an action that is `EXECUTING`, so the promise of
`ActionPromise` is kept life by life. `LogNamesContractHolds` is about `create_task`'s two steps
(`LogInv`, without overlapping creations and failing appends), and
`AdmissionChecksFirstMatchHolds` about the scan (`ScanInv`: the entries a scan has
passed are still where they were, and none of them matches).

*Ledger* (`AuditLedgerProofs`). `FileInv` types the file over the set of digests that
have occurred. `HistoryInv` says that digests are what they should be, that every
line and every pending line is linked to the start or to a line above, and that no
event occurs twice. Both hold under all interleavings, faults and crashes, and give
`AlwaysRooted` and, with `CountInv`, `Typing`. `ForkInv` adds that a file without a
fork is linear: a new line that hangs on any line but the last makes a fork with
the line that already hangs there. With injective digests it gives
`ForksAreDetected`. `CleanInv`, that returned events stay on whole lines until a
write fails, gives `RacesLoseNothingHolds`. For one append at a time, with any number
of failing writes, `SerialInv` says that a pending line is linked to the last line,
which can be read, that the file is linear, and that only its last line is
damaged: `SerialChainVerifies`, `OnlyLastDamagedHolds`, `StopsAtDamageHolds`, and
`SerialIsHashChain`, where each write that adds a line is a `Log` step of `HashChain`
and one that damages the last line a stutter.

Five theorems say what `verify_chain` is good for. `AppendOnly`: no step of any writer,
failing or not, removes a line or changes one, but for damage to the last.
`AlarmStays`: a file once refused is refused for ever. `TamperEvident`: two files that
pass and end in the same digest agree, line by line, in all that the digests cover,
so whoever keeps the last digest elsewhere would notice a line that was added,
removed or moved, and a change of an event's id, payload, type or correlation id. It
goes by the nearest place, from the end, where the files would differ
(`AgreeFromTheEnd`), and rests on digests being injective, which stands for SHA-256.
The other two are its limits. `ContextEditPasses`: actor, task, action and timestamp
are in no digest, so replacing them changes neither the answer of `verify_chain` nor
the last digest. `TruncationPasses`: what is left of a file that passes when lines are
cut off its end passes too, and nothing in the code keeps the last digest elsewhere.

*Experiment loop* (`ExperimentLoopProofs`). For all scores and thresholds, any number
of runs, sessions and failing appends: `Typing`, `OnlyScoresKeptHolds` and
`LinesHaveRowsHolds` from what each place of a run knows of its result, its row and
its line; `LoopIsRatchet`, that the loop implements `BaselineRatchet`. Until an append
fails, `LedgerTellsBaselineHolds` and `KeptIsNoWorseHolds`: the baseline is the
value of the session's last retained line, except between that line and `Adopt`.
`OnlyFirstRegresses` bounds finding 4: a retained experiment that is worse than the
one retained before it is the first its session retains (`SessionInv`: the ledger's
sessions are in order).

*Preparation and training* (`TrainerProofs`). `FinalsCompleteHolds`: a worker before its
`Rename` has written all of its temporary file. `TokenizerPairHolds`: what is on the
disk at each place of the preparation. `ScoresComparableHold`: once a preparation has
left both tokenizer files they never change again, and a run has loaded that one.
`RateBoundedHolds`: the multiplier's three branches for every plan.
`BatchesInOrderHold` and `Typing`: an invariant on what the stream can hold at each
place of the program, and on how far the buffers are ahead of it.
`OneBatchTrainsOnYielded` bounds finding 5: without gradient accumulation every pass
sees its own batch, since outside the evaluation a step launches passes of its own
batches only (`LaunchedInv`), and the first of a step is never overwritten.
`DownloadsAreBounded` is the safe half of `PrepareEnds`: `WorkLeft` of a worker, at
most `4 * Attempts + 1`, falls with each of its steps, whatever fails.

The loader has an invariant of its own, `LoadInv`: its files are those of the split
from `BeginLoader` on, its buffer holds documents of these files, `pos` is short of
the row's end or exactly at it, and each piece was the longest that fitted or cut
from the shortest. `PackInv` is its part about the buffer and the row. That
`BestFit` and `Shortest` return what they are named for (`BestFitIsLongest`,
`ShortestIsLeast`), and that `NextFile` is one of the files, follows from `LeastNumber`.
It gives `RowsPackedHold`, `SplitsStayApart`, and the loader's part of `Typing`: the
buffer never holds more than `BufferSize + BatchDocs - 1` documents, and the place
in a file is never beyond its end.

`LeastNumber` is how facts about all positions of a sequence are proved here: there
is no least position for which they fail. The library's well-foundedness of the
natural numbers gives the least one, without an induction theorem.

*Only model-checked.* The liveness properties `RequestEnds`, `PrepareEnds` and
`RunEnds`: fairness and ENABLED are out of the prover's reach. The properties of the
five counterexamples are false as they stand; the theorems say under which
condition they hold: `LegalTransitionsHold`, `EveryCallAuditedUnlessRaised`,
`SerialChainVerifies`, `OnlyFirstRegresses`, `OneBatchTrainsOnYielded`.

## 5. Not modelled

- Recovery: the engine computes a plan and drops it.
- The observation service: no code uses it, the API keeps a table of its own, which
  `ControlPlane` models.
- Redaction: a pure rewriting of payloads nothing depends on.
- What the filesystem, process and HTTP adapters do to the world: `Adapters` has their
  answers and exceptions.
- The stateless mocks the API does not register, and the FunctionGemma stub.
- The tensors of the GPT model and its optimizers: numerics.
- Persistence: tables nothing reads or writes.
- Schema validation, the remaining settings, the output of the CLI, telemetry.

## 6. Plan

1. `AuditedEngine`: `ExecutionEngine` with `AuditLedger` in place of its counters; the
   composition implements both.
2. A number of steps, decreasing as `StepsLeft` does, for a training run between two
   checks of its budget.
3. A preparation next to a training run, with the properties that survive it.
