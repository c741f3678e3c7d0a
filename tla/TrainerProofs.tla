----------------------------- MODULE TrainerProofs -----------------------------
(***************************************************************************)
(* Theorems about Trainer and the preparation it stands on, for any number *)
(* of shards, attempts, micro-batches and evaluation batches, and for all  *)
(* plans.                                                                  *)
(***************************************************************************)
EXTENDS Trainer, LeastNumber

-----------------------------------------------------------------------------
(* The preparation.                                                         *)

FinalsInv ==
  /\ FinalsComplete
  /\ \A s \in Shards : task[s] = "rename" => tmp[s] = "complete"

\* How far the two files of the tokenizer are, by where the command is.
PairInv ==
  /\ trained \in Versions
  /\ tokenizer \in Versions \cup {Absent, Partial}
  /\ tokenBytes \in Versions \cup {Absent, Partial}
  /\ TokenizerPair
  /\ prep = "save_tokenizer" => tokenBytes = Absent
  /\ prep = "open_bytes" => tokenBytes = Absent /\ tokenizer = trained
  /\ prep = "save_bytes" => tokenBytes = Partial /\ tokenizer = trained

PrepInv == PrepTypeOK /\ FinalsInv /\ PairInv

\* A tokenizer trained on some shards is neither absent nor partly written.
LEMMA VersionIsComplete ==
  \A v \in Versions : v \subseteq Shards /\ v # Absent /\ v # Partial
BY PreparationAssumption DEF PreparationAssumption, Versions, TrainShards, Shards

\* Nothing is prepared at the start.
LEMMA PrepInitInv == PrepInit => PrepInv
<1> SUFFICES ASSUME PrepInit PROVE PrepInv
  OBVIOUS
<1>1. PrepTypeOK
  BY PreparationAssumption
     DEF PreparationAssumption, PrepInit, PrepTypeOK, Contents, Downloads
<1>2. FinalsInv
  BY DEF PrepInit, FinalsInv, FinalsComplete
<1>3. PairInv
  BY DEF PrepInit, PairInv, TokenizerPair, Versions
<1>4. QED
  BY <1>1, <1>2, <1>3 DEF PrepInv

\* A step of a worker keeps its shard's files in order, and touches no other's.
LEMMA WorkerStep ==
  ASSUME PrepInv, NEW s \in Shards, Download(s)
  PROVE  PrepInv'
<1> USE DEF Work
<1>1. PairInv'
  BY DEF Download, Begin, OpenTmp, WriteAll, Rename, AttemptFails, Cleanup,
         PrepInv, PairInv, TokenizerPair
<1>2. CASE Begin(s)
  BY <1>1, <1>2, PreparationAssumption
     DEF PreparationAssumption, Begin, PrepInv, PrepTypeOK, FinalsInv,
         FinalsComplete, Contents, Downloads
<1>3. CASE OpenTmp(s)
  BY <1>1, <1>3 DEF OpenTmp, PrepInv, PrepTypeOK, FinalsInv, FinalsComplete,
                    Contents, Downloads
<1>4. CASE WriteAll(s)
  BY <1>1, <1>4 DEF WriteAll, PrepInv, PrepTypeOK, FinalsInv, FinalsComplete,
                    Contents, Downloads
<1>5. CASE Rename(s)
  BY <1>1, <1>5, PreparationAssumption
     DEF PreparationAssumption, Rename, PrepInv, PrepTypeOK, FinalsInv,
         FinalsComplete, Contents, Downloads
<1>6. CASE AttemptFails(s)
  BY <1>1, <1>6 DEF AttemptFails, PrepInv, PrepTypeOK, FinalsInv, FinalsComplete,
                    Contents, Downloads
<1>7. CASE Cleanup(s)
  <2>1. PICK left \in {"absent", tmp[s]} : tmp' = [tmp EXCEPT ![s] = left]
    BY <1>7 DEF Cleanup
  <2>2. tmp' \in [Shards -> Contents] /\ file' = [file EXCEPT ![s] = "absent"]
    BY <1>7, <2>1 DEF Cleanup, PrepInv, PrepTypeOK, Contents
  <2>3. attempt' \in [Shards -> 0..Attempts]
    BY <1>7, PreparationAssumption
       DEF PreparationAssumption, Cleanup, PrepInv, PrepTypeOK
  <2>4. task' \in [Shards -> Downloads \cup {"none", "done"}] /\ task'[s] # "rename"
    BY <1>7 DEF Cleanup, PrepInv, PrepTypeOK, Downloads
  <2>5. UNCHANGED <<prep, trained, tokenizer, tokenBytes>>
    BY <1>7 DEF Cleanup
  <2>6. \A r \in Shards : r # s => task'[r] = task[r] /\ tmp'[r] = tmp[r]
    BY <1>7, <2>1 DEF Cleanup, PrepInv, PrepTypeOK
  <2>7. QED
    BY <1>1, <2>2, <2>3, <2>4, <2>5, <2>6
       DEF PrepInv, PrepTypeOK, FinalsInv, FinalsComplete, Contents
<1>8. QED
  BY <1>2, <1>3, <1>4, <1>5, <1>6, <1>7 DEF Download

\* Every step of a preparation keeps its invariant.
LEMMA PrepStepInv == PrepInv /\ PrepareNext => PrepInv'
<1> SUFFICES ASSUME PrepInv, PrepareNext
             PROVE  PrepInv'
  OBVIOUS
<1>1. ASSUME NEW n, StartPrepare(n)
      PROVE  PrepInv'
  BY <1>1 DEF StartPrepare, PrepInv, PrepTypeOK, FinalsInv, FinalsComplete, PairInv,
              TokenizerPair, Downloads
<1>2. CASE PoolDone
  BY <1>2 DEF PoolDone, PrepInv, PrepTypeOK, FinalsInv, FinalsComplete, PairInv,
              TokenizerPair, Downloads
<1>3. CASE SkipTokenizer
  BY <1>3 DEF SkipTokenizer, PrepInv, PrepTypeOK, FinalsInv, FinalsComplete, PairInv,
              TokenizerPair
<1>4. CASE TrainTokenizer
  <2>1. tokenBytes = Absent /\ tokenBytes' = Absent
    BY <1>4, PreparationAssumption
       DEF PreparationAssumption, TrainTokenizer, AlreadyTrained, PrepInv, PairInv,
           TokenizerPair
  <2>2. TrainTexts \in Versions /\ TrainTexts \in SUBSET Shards
    BY DEF TrainTexts, Versions, TrainShards
  <2>3. PrepTypeOK'
    BY <1>4, <2>2 DEF TrainTokenizer, PrepInv, PrepTypeOK
  <2>4. FinalsInv'
    BY <1>4 DEF TrainTokenizer, PrepInv, FinalsInv, FinalsComplete
  <2>5. PairInv'
    BY <1>4, <2>1, <2>2 DEF TrainTokenizer, PairInv, TokenizerPair
  <2>6. QED
    BY <2>3, <2>4, <2>5 DEF PrepInv
<1>5. CASE SaveTokenizer
  BY <1>5 DEF SaveTokenizer, PrepInv, PrepTypeOK, FinalsInv, FinalsComplete, PairInv,
              TokenizerPair
<1>6. CASE OpenBytes
  <2>1. PrepTypeOK'
    BY <1>6 DEF OpenBytes, PrepInv, PrepTypeOK
  <2>2. FinalsInv'
    BY <1>6 DEF OpenBytes, PrepInv, FinalsInv, FinalsComplete
  <2>3. PairInv'
    BY <1>6, VersionIsComplete DEF OpenBytes, PrepInv, PairInv, TokenizerPair
  <2>4. QED
    BY <2>1, <2>2, <2>3 DEF PrepInv
<1>7. CASE SaveBytes
  BY <1>7, VersionIsComplete
     DEF SaveBytes, PrepInv, PrepTypeOK, FinalsInv, FinalsComplete, PairInv,
         TokenizerPair, Versions
<1>8. CASE PrepareStops
  BY <1>8, PreparationAssumption
     DEF PreparationAssumption, PrepareStops, PrepInv, PrepTypeOK, FinalsInv,
         FinalsComplete, PairInv, TokenizerPair, Versions
<1>9. QED
  BY <1>1, <1>2, <1>3, <1>4, <1>5, <1>6, <1>7, <1>8, WorkerStep
     DEF PrepareNext, PrepareStep

\* Nothing that is not a preparation touches its files.
LEMMA PrepKept ==
  ASSUME UNCHANGED prepVars
  PROVE  PrepInv => PrepInv'
BY DEF prepVars, PrepInv, PrepTypeOK, FinalsInv, FinalsComplete, PairInv, TokenizerPair

\* A step is a preparation's while no run is on, or leaves its files alone.
LEMMA WhoPrepares ==
  ASSUME [Next]_vars
  PROVE  (phase = "off" /\ PrepareNext /\ UNCHANGED <<runVars, metrics>>)
         \/ UNCHANGED prepVars
BY DEF Next, vars, Prepare, StartRun, Killed, Device, Host, HostAt, Goto,
       LoadTokenizer, ListTraining, Pack, Split, Send, BeginStep, Launch, Optimize,
       EndStep, LossExplodes, BeginEvaluation, ReadLosses, Raise

\* The preparation's invariant survives runs.
LEMMA PrepStepOfAll == PrepInv /\ [Next]_vars => PrepInv'
BY PrepStepInv, PrepKept, WhoPrepares

\* The preparation's invariant holds in every reachable state.
LEMMA PrepInvariance == Spec => []PrepInv
<1>1. Init => PrepInv
  BY PrepInitInv DEF Init
<1>2. QED
  BY <1>1, PrepStepOfAll, PTL DEF Spec

\* However downloads fail and are killed, a shard under its final name is
\* complete.
THEOREM FinalsCompleteHolds == Spec => []FinalsComplete
<1>1. PrepInv => FinalsComplete
  BY DEF PrepInv, FinalsInv
<1>2. QED
  BY PrepInvariance, <1>1, PTL

\* However preparations are killed, the files of the tokenizer belong together.
THEOREM TokenizerPairHolds == Spec => []TokenizerPair
<1>1. PrepInv => TokenizerPair
  BY DEF PrepInv, PairInv
<1>2. QED
  BY PrepInvariance, <1>1, PTL

\* How many steps a worker has left at most, from where it is in which attempt.
WorkLeft(s) ==
  CASE task[s] = "queued"  -> 4 * Attempts + 1
    [] task[s] = "fetch"   -> 4 * (Attempts - attempt[s]) + 4
    [] task[s] = "write"   -> 4 * (Attempts - attempt[s]) + 3
    [] task[s] = "rename"  -> 4 * (Attempts - attempt[s]) + 2
    [] task[s] = "cleanup" -> 4 * (Attempts - attempt[s]) + 1
    [] OTHER               -> 0

\* Nothing but the start of a download gives a worker something to do, and
\* what it does itself leaves it less.
WorkersFinish ==
  \A s \in Shards :
    /\ Download(s) => WorkLeft(s)' < WorkLeft(s)
    /\ prep # "idle" => WorkLeft(s)' <= WorkLeft(s)

\* What a worker does, it does not do again.
LEMMA WorkerIsNearer ==
  ASSUME PrepInv, NEW s \in Shards, Download(s)
  PROVE  /\ WorkLeft(s)' < WorkLeft(s)
         /\ \A r \in Shards : r # s => WorkLeft(r)' = WorkLeft(r)
<1> USE PreparationAssumption
    DEF PreparationAssumption, PrepInv, PrepTypeOK, Work, WorkLeft
<1>1. CASE Begin(s)
  BY <1>1 DEF Begin
<1>2. CASE OpenTmp(s)
  BY <1>2 DEF OpenTmp
<1>3. CASE WriteAll(s)
  BY <1>3 DEF WriteAll
<1>4. CASE Rename(s)
  BY <1>4 DEF Rename
<1>5. CASE AttemptFails(s)
  BY <1>5 DEF AttemptFails
<1>6. CASE Cleanup(s)
  BY <1>6 DEF Cleanup
<1>7. QED
  BY <1>1, <1>2, <1>3, <1>4, <1>5, <1>6 DEF Download

\* No other step gives a worker more to do while the command runs.
LEMMA WorkersFinishStep == PrepInv /\ [Next]_vars => WorkersFinish
<1> SUFFICES ASSUME PrepInv, [Next]_vars
             PROVE  WorkersFinish
  OBVIOUS
<1>1. \A s \in Shards : WorkLeft(s) \in Nat /\ WorkLeft(s)' \in Nat
  <2>1. PrepInv => \A s \in Shards : WorkLeft(s) \in Nat
    BY PreparationAssumption
       DEF PreparationAssumption, PrepInv, PrepTypeOK, WorkLeft, Downloads
  <2>2. PrepInv' => \A s \in Shards : WorkLeft(s)' \in Nat
    BY PreparationAssumption
       DEF PreparationAssumption, PrepInv, PrepTypeOK, WorkLeft, Downloads
  <2>3. QED
    BY <2>1, <2>2, PrepStepOfAll
<1>2. ASSUME NEW r \in Shards, Download(r)
      PROVE  WorkersFinish
  <2>1. \A s \in Shards : s = r \/ WorkLeft(s)' = WorkLeft(s)
    BY <1>2, WorkerIsNearer
  <2>2. \A s \in Shards : Download(s) => WorkLeft(s)' < WorkLeft(s)
    BY WorkerIsNearer
  <2>3. QED
    BY <1>1, <1>2, <2>1, <2>2 DEF WorkersFinish
<1>3. CASE PoolDone \/ PrepareStops
  <2>1. \A s \in Shards : WorkLeft(s)' = 0
    BY <1>3 DEF PoolDone, PrepareStops, WorkLeft
  <2>2. QED
    BY <1>1, <2>1, WorkerIsNearer DEF WorkersFinish
<1>4. CASE UNCHANGED <<task, attempt>>
  <2>1. \A s \in Shards : WorkLeft(s)' = WorkLeft(s)
    BY ONLY <1>4 DEF WorkLeft
  <2>2. QED
    BY <1>1, <2>1, WorkerIsNearer DEF WorkersFinish
<1>5. CASE \E n : StartPrepare(n)
  BY <1>5, WorkerIsNearer DEF StartPrepare, WorkersFinish, Download
<1>6. QED
  BY <1>2, <1>3, <1>4, <1>5, WhoPrepares
     DEF PrepareNext, PrepareStep, SkipTokenizer, TrainTokenizer, SaveTokenizer,
         OpenBytes, SaveBytes, prepVars

\* The retries of a download are bounded: with each of its steps a worker has
\* fewer of its 4 * Attempts + 1 left, whatever fails and however much of what
\* failed could be removed.
THEOREM DownloadsAreBounded == Spec => [][WorkersFinish]_vars
BY PrepInvariance, WorkersFinishStep, PTL DEF Spec

-----------------------------------------------------------------------------
(* Where the program is.                                                    *)

TrainPlaces == {"load", "list", "pack", "send", "sync", "launch", "optimize",
                "item", "evaluate"}
EvalPlaces == {"pack", "send", "launch", "read"}

\* The place of the program tells which batch it has, and what the halves of
\* the pinned buffer are of.
HostInv ==
  /\ \/ phase = "off" /\ pc = "off"
     \/ phase = "train" /\ pc \in TrainPlaces
     \/ phase = "eval" /\ pc \in EvalPlaces
  /\ batch \in Int
  /\ pc \in {"off", "load", "list"} => batch = -1
  /\ phase = "train" =>
       /\ pc \in {"pack", "send"} => batch \in -1..(Accum - 1)
       /\ pc = "launch" => batch \in 0..(Accum - 1)
       /\ pc = "sync" => batch \in {0, Accum}
       /\ pc \in {"optimize", "item", "evaluate"} => batch = Accum
  /\ phase = "eval" =>
       /\ pc \in {"pack", "send"} => batch \in -1..(EvalBatches - 2)
       /\ pc \in {"launch", "read"} => batch \in 0..(EvalBatches - 1)
  /\ cpu = IF pc = "send" THEN <<batch + 1, batch>> ELSE <<batch, batch>>

\* A run that ends leaves nothing behind.
LEMMA OffHost == Off => HostInv'
BY DEF Off, HostInv, NoBatch

\* Every step of the program keeps its place in order.
LEMMA HostStep == HostInv /\ [Next]_vars => HostInv'
<1> SUFFICES ASSUME HostInv, [Next]_vars
             PROVE  HostInv'
  OBVIOUS
<1> USE TrainerAssumption
    DEF TrainerAssumption, HostInv, TrainPlaces, EvalPlaces, Goto, HostAt, NoBatch
<1>1. CASE UNCHANGED <<phase, pc, batch, cpu>>
  BY <1>1
<1>2. CASE Prepare /\ PrepareNext
  BY <1>1, <1>2 DEF Prepare, runVars
<1>3. CASE StartRun
  BY <1>3 DEF StartRun
<1>4. CASE LoadTokenizer
  BY <1>4 DEF LoadTokenizer
<1>5. CASE ListTraining
  <2>1. phase' = "train" /\ pc' = "pack" /\ batch' = -1 /\ cpu' = <<-1, -1>>
    BY ONLY <1>5 DEF ListTraining, BeginLoader, Goto, NoBatch
  <2>2. QED
    BY <2>1
<1>6. CASE Pack
  BY <1>1, <1>6 DEF Pack
<1>7. CASE Split
  BY <1>7 DEF Split
<1>8. CASE Send
  <2>1. batch' = batch + 1 /\ cpu' = <<batch', batch'>> /\ UNCHANGED phase
    BY <1>8 DEF Send
  <2>2. CASE phase = "eval"
    BY <1>8, <2>1, <2>2 DEF Send
  <2>3. CASE phase = "train"
    <3>1. batch \in -1..(Accum - 1) /\ Accum \in Nat \ {0}
      BY <1>8, <2>3 DEF Send
    <3>2. \/ batch + 1 = 0 /\ pc' = "sync"
          \/ batch + 1 \in 1..(Accum - 1) /\ pc' = "launch"
          \/ batch + 1 = Accum /\ pc' = "optimize"
      <4>1. batch + 1 = 0 \/ batch + 1 \in 1..(Accum - 1) \/ batch + 1 = Accum
        BY <3>1
      <4>2. CASE batch + 1 = 0
        BY ONLY <1>8, <2>3, <3>1, <4>2 DEF Send, Goto
      <4>3. CASE batch + 1 \in 1..(Accum - 1)
        BY ONLY <1>8, <2>3, <3>1, <4>3 DEF Send, Goto
      <4>4. CASE batch + 1 = Accum
        BY ONLY <1>8, <2>3, <3>1, <4>4 DEF Send, Goto
      <4>5. QED
        BY <4>1, <4>2, <4>3, <4>4
    <3>3. QED
      BY <2>1, <2>3, <3>1, <3>2
  <2>4. QED
    BY <1>8, <2>2, <2>3 DEF Send
<1>9. CASE BeginStep
  <2>1. phase = "train" /\ cpu = <<batch, batch>> /\ batch \in Int
    BY <1>9 DEF BeginStep
  <2>2. cpu' = <<0, 0>> /\ batch' = 0
    BY <1>9, <2>1 DEF BeginStep
  <2>3. QED
    BY <1>9, <2>1, <2>2 DEF BeginStep
<1>10. CASE Launch
  BY <1>10 DEF Launch
<1>11. CASE Optimize
  BY <1>11 DEF Optimize
<1>12. CASE EndStep
  BY <1>12 DEF EndStep
<1>13. CASE LossExplodes
  BY <1>13, OffHost DEF LossExplodes
<1>14. CASE BeginEvaluation
  <2>1. phase' = "eval" /\ pc' = "pack" /\ batch' = -1 /\ cpu' = <<-1, -1>>
    BY ONLY <1>14 DEF BeginEvaluation, BeginLoader, Goto, NoBatch
  <2>2. QED
    BY <2>1
<1>15. CASE ReadLosses
  BY <1>15, OffHost DEF ReadLosses
<1>16. CASE Raise \/ Killed
  BY <1>16, OffHost DEF Raise, Killed
<1>17. CASE Device
  BY <1>1, <1>17 DEF Device
<1>18. CASE UNCHANGED vars
  BY <1>1, <1>18 DEF vars, runVars
<1>19. QED
  BY <1>2, <1>3, <1>4, <1>5, <1>6, <1>7, <1>8, <1>9, <1>10, <1>11, <1>12, <1>13,
     <1>14, <1>15, <1>16, <1>17, <1>18 DEF Next, Host

-----------------------------------------------------------------------------
(* The scores.                                                              *)

\* What a run has read, and what it was measured with, is still on the disk.
ScoreInv ==
  /\ loaded \in Versions
  /\ phase # "off" /\ pc # "load" => loaded = tokenizer
  /\ phase = "eval" => tokenBytes \in Versions
  /\ \A m \in metrics :
       /\ m \in [tokenizer : Versions, bytes : Versions]
       /\ m.tokenizer = tokenizer /\ m.bytes = tokenBytes
       /\ m.bytes = m.tokenizer

\* Once there is a score no preparation changes the tokenizer's files.
LEMMA TokenizerStays ==
  ASSUME PrepInv, PrepareNext, tokenizer \in Versions, tokenBytes \in Versions
  PROVE  UNCHANGED <<tokenizer, tokenBytes>>
<1>1. /\ tokenizer # Absent /\ tokenBytes # Absent
      /\ prep \notin {"save_tokenizer", "open_bytes", "save_bytes"}
  BY VersionIsComplete DEF PrepInv, PairInv
<1>2. CASE \E s \in Shards : Download(s)
  BY <1>2 DEF Download, Begin, OpenTmp, WriteAll, Rename, AttemptFails, Cleanup, Work
<1>3. CASE PrepareStep
  BY <1>1, <1>2, <1>3
     DEF PrepareStep, PoolDone, SkipTokenizer, TrainTokenizer, AlreadyTrained,
         SaveTokenizer, OpenBytes, SaveBytes
<1>4. QED
  BY <1>3 DEF PrepareNext, StartPrepare, PrepareStops

\* A run that ends has nothing loaded.
LEMMA OffScore ==
  ASSUME ScoreInv, Off, UNCHANGED <<prepVars, metrics>>
  PROVE  ScoreInv'
BY DEF ScoreInv, Off, prepVars, Versions

\* Every step leaves the scores comparable.
LEMMA ScoreStep ==
  PrepInv /\ HostInv /\ ScoreInv /\ [Next]_vars => ScoreInv'
<1> SUFFICES ASSUME PrepInv, HostInv, ScoreInv, [Next]_vars
             PROVE  ScoreInv'
  OBVIOUS
<1>1. CASE Prepare /\ PrepareNext
  <2>1. UNCHANGED <<phase, pc, loaded, metrics>> /\ phase = "off"
    BY <1>1 DEF Prepare, runVars
  <2>2. ASSUME NEW m \in metrics
        PROVE  UNCHANGED <<tokenizer, tokenBytes>>
    BY <1>1, <2>2, TokenizerStays DEF ScoreInv
  <2>3. QED
    BY <2>1, <2>2 DEF ScoreInv
<1>2. ASSUME UNCHANGED <<prepVars, phase, loaded, metrics>>,
             pc' = pc \/ pc # "load"
      PROVE  ScoreInv'
  BY <1>2 DEF ScoreInv, prepVars
<1>3. CASE StartRun
  BY <1>3 DEF StartRun, HostAt, ScoreInv, prepVars
<1>4. CASE LoadTokenizer
  <2>1. loaded' = tokenizer /\ tokenizer \in Versions /\ phase' = phase
    BY <1>4 DEF LoadTokenizer, PrepInv, PairInv
  <2>2. UNCHANGED <<metrics, tokenizer, tokenBytes>>
    BY <1>4 DEF LoadTokenizer, Goto, HostAt, prepVars
  <2>3. QED
    BY <2>1, <2>2 DEF ScoreInv
<1>5. CASE ListTraining
  <2>1. /\ phase' = "train" /\ phase = "train" /\ pc = "list"
        /\ UNCHANGED <<prepVars, loaded, metrics>>
    BY <1>5 DEF ListTraining, BeginLoader, Goto, HostAt, HostInv, EvalPlaces
  <2>2. QED
    BY <2>1 DEF ScoreInv, prepVars
<1>6. CASE Pack \/ Split \/ Send \/ BeginStep \/ Launch \/ Optimize \/ EndStep
  BY <1>2, <1>6
     DEF Pack, Split, Send, BeginStep, Launch, Optimize, EndStep, Goto, HostAt
<1>7. CASE BeginEvaluation
  <2>1. /\ phase' = "eval" /\ phase = "train" /\ pc = "evaluate"
        /\ UNCHANGED <<prepVars, loaded, metrics>>
        /\ tokenBytes \notin {Absent, Partial}
    BY <1>7 DEF BeginEvaluation, BeginLoader, Goto, HostAt, HostInv, EvalPlaces
  <2>2. tokenBytes \in Versions
    BY <2>1 DEF PrepInv, PairInv
  <2>3. QED
    BY <2>1, <2>2 DEF ScoreInv, prepVars
<1>8. CASE ReadLosses
  <2>1. CASE batch + 1 < EvalBatches
    BY <1>2, <1>8, <2>1 DEF ReadLosses, HostAt
  <2>2. CASE ~(batch + 1 < EvalBatches)
    <3>1. /\ metrics' = metrics \cup {[tokenizer |-> loaded, bytes |-> tokenBytes]}
          /\ Off /\ UNCHANGED prepVars /\ pc = "read"
      BY <1>8, <2>2 DEF ReadLosses, HostAt
    <3>2. phase = "eval"
      BY <3>1 DEF HostInv, TrainPlaces
    <3>3. loaded = tokenizer /\ tokenBytes \in Versions /\ loaded \in Versions
      BY <3>1, <3>2 DEF ScoreInv
    <3>4. tokenBytes = tokenizer
      BY <3>3, VersionIsComplete DEF PrepInv, PairInv, TokenizerPair
    <3>5. phase' = "off" /\ loaded' \in Versions
      BY <3>1 DEF Off, Versions
    <3>6. QED
      BY <3>1, <3>3, <3>4, <3>5 DEF ScoreInv, prepVars
  <2>3. QED
    BY <2>1, <2>2
<1>9. CASE LossExplodes \/ Raise \/ Killed
  BY <1>9, OffScore DEF LossExplodes, Raise, Killed, Goto, HostAt
<1>10. CASE Device
  BY <1>2, <1>10 DEF Device
<1>11. CASE UNCHANGED vars
  BY <1>2, <1>11 DEF vars, runVars
<1>12. QED
  BY <1>1, <1>3, <1>4, <1>5, <1>6, <1>7, <1>8, <1>9, <1>10, <1>11 DEF Next, Host

\* All scores of a data directory are measured with one tokenizer and its bytes.
THEOREM ScoresComparableHold == Spec => []ScoresComparable
<1>1. Init => PrepInv /\ HostInv /\ ScoreInv
  BY PrepInitInv DEF Init, HostInv, ScoreInv, NoBatch, Versions
<1>2. ScoreInv => ScoresComparable
  <2> SUFFICES ASSUME ScoreInv
               PROVE  ScoresComparable
    OBVIOUS
  <2>1. \A m \in metrics : m = [tokenizer |-> tokenizer, bytes |-> tokenBytes]
    BY DEF ScoreInv
  <2>2. QED
    BY <2>1 DEF ScoreInv, ScoresComparable
<1>3. QED
  BY <1>1, <1>2, PrepStepOfAll, HostStep, ScoreStep, PTL DEF Spec

-----------------------------------------------------------------------------
(* The schedule.                                                            *)

\* Products of naturals are naturals, and keep the order.
LEMMA Times ==
  /\ \A a, b \in Nat : a * b \in Nat /\ a * b = b * a
  /\ \A a, b, c \in Nat : (a * b) * c = a * (b * c)
  /\ \A a, b, c \in Nat : a <= b => a * c <= b * c
  /\ \A a, b, c \in Nat : a <= b => (b - a) * c = b * c - a * c
<1>1. \A a, b \in Nat : a * b \in Nat /\ a * b = b * a
  OBVIOUS
<1>2. \A a, b, c \in Nat : (a * b) * c = a * (b * c)
  OBVIOUS
<1>3. \A a, b, c \in Nat : a <= b => (b - a) * c = b * c - a * c
  OBVIOUS
<1>4. ASSUME NEW a \in Nat, NEW b \in Nat, NEW c \in Nat, a <= b
      PROVE  a * c <= b * c
  <2>1. b - a \in Nat
    BY <1>4
  <2>2. (b - a) * c \in Nat /\ a * c \in Nat /\ b * c \in Nat
    BY <1>1, <2>1
  <2>3. QED
    BY <1>3, <1>4, <2>2
<1>5. QED
  BY <1>1, <1>2, <1>3, <1>4

\* Cooling down, the rate lies between the final one and the whole.
LEMMA CoolingBounds ==
  ASSUME NEW left \in Nat, NEW span \in Nat, left <= span,
         NEW num \in Nat, NEW den \in Nat, num <= den
  PROVE  LET x == left * den + (span - left) * num
         IN  x \in Nat /\ x <= span * den /\ span * num <= x
<1>1. span - left \in Nat
  OBVIOUS
<1>2. /\ left * den \in Nat /\ left * num \in Nat
      /\ (span - left) * num \in Nat /\ (span - left) * den \in Nat
      /\ span * num \in Nat /\ span * den \in Nat
  BY <1>1, Times
<1>3. left * num <= left * den
  BY Times
<1>4. (span - left) * num <= (span - left) * den
  BY <1>1, Times
<1>5. /\ (span - left) * num = span * num - left * num
      /\ (span - left) * den = span * den - left * den
  BY Times
<1>6. QED
  BY <1>2, <1>3, <1>4, <1>5

\* Within the budget the rate is at most the initial one, and from the end of
\* the warm-up on at least the final one.
LEMMA MultiplierBounds ==
  ASSUME NEW p \in Plans, NEW t \in Nat, t < p.budget
  PROVE  /\ Multiplier(p, t) \in 0..Unit(p)
         /\ t >= p.warmup => Multiplier(p, t) * FinalLr.den >= Unit(p) * FinalLr.num
<1> DEFINE num == FinalLr.num
           den == FinalLr.den
           up == AtLeast1(p.warmup)
           down == AtLeast1(p.warmdown)
           left == p.budget - t
<1>1. /\ num \in Nat /\ den \in Nat /\ num <= den
      /\ p.budget \in Nat /\ p.warmup \in Nat /\ p.warmdown \in Nat
      /\ up \in Nat /\ down \in Nat
      /\ p.warmup <= up
      /\ left \in Nat
  BY TrainerAssumption DEF TrainerAssumption, AtLeast1
<1> HIDE DEF num, den, up, down, left
<1>2. down * den \in Nat /\ up * (down * den) \in Nat
  BY <1>1, Times
<1>3. Unit(p) = up * (down * den) /\ Unit(p) \in Nat
  <2>1. Unit(p) = (up * down) * den
    BY DEF Unit, up, down, den
  <2>2. QED
    BY <1>1, <1>2, <2>1, Times
<1>4. Unit(p) * num <= Unit(p) * den
  BY <1>1, <1>3, Times
<1>5. CASE t < p.warmup
  <2>1. Multiplier(p, t) = (t * down) * den
    BY <1>5 DEF Multiplier, down, den
  <2>2. Multiplier(p, t) = t * (down * den)
    BY <1>1, <2>1, Times
  <2>3. t <= up
    BY <1>1, <1>5
  <2>4. t * (down * den) \in Nat /\ t * (down * den) <= up * (down * den)
    BY <1>1, <1>2, <2>3, Times
  <2>5. QED
    BY <1>1, <1>3, <1>5, <2>2, <2>4
<1>6. CASE ~(t < p.warmup) /\ t < p.budget - p.warmdown
  <2>1. Multiplier(p, t) = Unit(p)
    BY <1>6 DEF Multiplier
  <2>2. QED
    BY <1>3, <1>4, <2>1 DEF num, den
<1>7. CASE ~(t < p.warmup) /\ ~(t < p.budget - p.warmdown)
  <2>1. p.warmdown # 0 /\ left <= p.warmdown
    BY <1>1, <1>7 DEF left
  <2>2. down = p.warmdown
    BY <2>1 DEF down, AtLeast1
  <2>3. PICK x : x = left * den + (down - left) * num
    OBVIOUS
  <2>4. Multiplier(p, t) = up * x
    BY <1>7, <2>2, <2>3 DEF Multiplier, up, left, den, num
  <2>5. x \in Nat /\ x <= down * den /\ down * num <= x
    BY <1>1, <2>1, <2>2, <2>3, CoolingBounds
  <2>6. up * x \in Nat /\ up * x <= up * (down * den)
    <3>1. x * up <= (down * den) * up
      BY <1>1, <1>2, <2>5, Times
    <3>2. QED
      BY <1>1, <1>2, <2>5, <3>1, Times
  <2>7. (up * x) * den >= Unit(p) * num
    <3>1. down * num \in Nat /\ up * den \in Nat
      BY <1>1, Times
    <3>2. (down * num) * (up * den) <= x * (up * den)
      BY <2>5, <3>1, Times
    <3>3. x * (up * den) = (up * x) * den
      BY <1>1, <2>5, Times
    <3>4. (down * num) * (up * den) = (up * (down * den)) * num
      BY <1>1, Times
    <3>5. QED
      BY <1>3, <3>2, <3>3, <3>4
  <2>8. QED
    BY <1>3, <2>4, <2>6, <2>7 DEF num, den
<1>8. QED
  BY <1>5, <1>6, <1>7

\* Training goes on only while there is time left, and with a legal rate.
RateInv ==
  /\ phase # "off" => plan \in Plans
  /\ total \in Nat
  /\ phase = "off" => total = 0
  /\ phase = "train" /\ pc # "evaluate" => total < plan.budget \/ plan.budget = 0
  /\ RateBounded

\* Every step keeps the rate legal.
LEMMA RateStep == HostInv /\ RateInv /\ [Next]_vars => RateInv'
<1> SUFFICES ASSUME HostInv, RateInv, [Next]_vars
             PROVE  RateInv'
  OBVIOUS
<1>1. ASSUME UNCHANGED <<phase, plan, total>>, pc' # "item", pc # "evaluate"
      PROVE  RateInv'
  BY <1>1 DEF RateInv, RateBounded
<1>2. ASSUME UNCHANGED <<phase, pc, plan, total, rate>>
      PROVE  RateInv'
  BY <1>2 DEF RateInv, RateBounded
<1>3. CASE Prepare /\ PrepareNext
  BY <1>2, <1>3 DEF Prepare, runVars
<1>4. CASE StartRun
  <2>1. plan' \in Plans /\ total' = 0 /\ pc' = "load" /\ phase' = "train"
    BY <1>4 DEF StartRun, HostAt, RateInv, HostInv, TrainPlaces, EvalPlaces
  <2>2. plan'.budget \in Nat
    BY <2>1, TrainerAssumption DEF TrainerAssumption
  <2>3. QED
    BY <2>1, <2>2 DEF RateInv, RateBounded
<1>5. CASE LoadTokenizer
  BY <1>1, <1>5 DEF LoadTokenizer, Goto, HostAt
<1>6. CASE ListTraining
  BY <1>6 DEF ListTraining, BeginLoader, Goto, HostAt, HostInv, TrainPlaces, EvalPlaces,
              RateInv, RateBounded
<1>7. CASE Pack
  BY <1>2, <1>7 DEF Pack, Goto, HostAt
<1>8. CASE Split
  BY <1>1, <1>8 DEF Split, Goto, HostAt
<1>9. CASE Send
  <2>1. UNCHANGED <<phase, plan, total>> /\ pc = "send" /\ pc' \in {"launch", "sync", "optimize"}
    <3>1. CASE phase = "eval"
      BY <1>9, <3>1 DEF Send, Goto, HostAt
    <3>2. CASE phase = "train"
      <4>1. batch + 1 = 0 \/ batch + 1 \in 1..(Accum - 1) \/ batch + 1 = Accum
        BY <1>9, <3>2, TrainerAssumption
           DEF TrainerAssumption, Send, Goto, HostAt, HostInv
      <4>2. CASE batch + 1 = 0
        BY <1>9, <3>2, <4>2, TrainerAssumption DEF TrainerAssumption, Send, Goto, HostAt
      <4>3. CASE batch + 1 \in 1..(Accum - 1)
        BY <1>9, <3>2, <4>3, TrainerAssumption DEF TrainerAssumption, Send, Goto, HostAt
      <4>4. CASE batch + 1 = Accum
        BY <1>9, <3>2, <4>4, TrainerAssumption DEF TrainerAssumption, Send, Goto, HostAt
      <4>5. QED
        BY <4>1, <4>2, <4>3, <4>4
    <3>3. QED
      BY <1>9, <3>1, <3>2 DEF Send, Goto, HostAt, HostInv
  <2>2. QED
    BY <1>1, <2>1
<1>10. CASE BeginStep \/ Launch
  BY <1>1, <1>10 DEF BeginStep, Launch, Goto, HostAt
<1>11. CASE Optimize
  <2>1. /\ UNCHANGED <<phase, plan, total>> /\ rate' = Multiplier(plan, total)
        /\ plan.budget # 0 /\ phase = "train" /\ pc = "optimize" /\ pc' = "item"
    BY <1>11 DEF Optimize, Goto, HostAt, HostInv, EvalPlaces
  <2>2. plan \in Plans /\ total \in Nat /\ total < plan.budget
    BY <2>1 DEF RateInv
  <2>3. RateBounded'
    BY <2>1, <2>2, MultiplierBounds DEF RateBounded, Unit
  <2>4. QED
    BY <2>1, <2>2, <2>3 DEF RateInv
<1>12. CASE EndStep
  <2>1. PICK dt \in StepTimes :
          LET t == IF Counted(step) THEN total + dt ELSE total
          IN  /\ pc' = (IF t >= plan.budget THEN "evaluate" ELSE "sync")
              /\ total' = t
    BY <1>12 DEF EndStep, Goto
  <2>2. pc = "item" /\ phase = "train" /\ UNCHANGED <<phase, plan>>
    BY <1>12 DEF EndStep, Goto, HostAt, HostInv, EvalPlaces
  <2>3. plan \in Plans /\ plan.budget \in Nat /\ total' \in Nat
    BY <2>1, <2>2, TrainerAssumption DEF TrainerAssumption, RateInv
  <2>4. pc' = (IF total' >= plan.budget THEN "evaluate" ELSE "sync")
    BY <2>1
  <2>5. QED
    BY <2>2, <2>3, <2>4 DEF RateInv, RateBounded
<1>13. CASE LossExplodes \/ Raise \/ Killed
  BY <1>13 DEF LossExplodes, Raise, Killed, Off, RateInv, RateBounded
<1>14. CASE BeginEvaluation
  BY <1>14 DEF BeginEvaluation, BeginLoader, Goto, HostAt, HostInv, TrainPlaces, EvalPlaces,
               RateInv, RateBounded
<1>15. CASE ReadLosses
  <2>1. CASE batch + 1 < EvalBatches
    BY <1>1, <1>15, <2>1 DEF ReadLosses, HostAt
  <2>2. CASE ~(batch + 1 < EvalBatches)
    BY <1>15, <2>2 DEF ReadLosses, Off, RateInv, RateBounded
  <2>3. QED
    BY <2>1, <2>2
<1>16. CASE Device
  BY <1>2, <1>16 DEF Device
<1>17. CASE UNCHANGED vars
  BY <1>2, <1>17 DEF vars, runVars
<1>18. QED
  BY <1>3, <1>4, <1>5, <1>6, <1>7, <1>8, <1>9, <1>10, <1>11, <1>12, <1>13, <1>14,
     <1>15, <1>16, <1>17 DEF Next, Host

\* For every plan, the zero budget and overlapping ramps included, a step's rate
\* is defined and within its bounds.
THEOREM RateBoundedHolds == Spec => []RateBounded
<1>1. Init => HostInv /\ RateInv
  BY DEF Init, HostInv, RateInv, RateBounded, NoBatch
<1>2. RateInv => RateBounded
  BY DEF RateInv
<1>3. QED
  BY <1>1, <1>2, HostStep, RateStep, PTL DEF Spec

-----------------------------------------------------------------------------
(* The device.                                                              *)

\* What taking one thing off a queue, and putting one or two on it, does.
LEMMA Queue ==
  ASSUME NEW S, NEW s \in Seq(S), NEW a \in S, NEW b \in S
  PROVE  /\ Len(s) \in Nat
         /\ /\ Append(s, a) \in Seq(S) /\ Len(Append(s, a)) = Len(s) + 1
            /\ \A i \in 1..Len(s) : Append(s, a)[i] = s[i]
            /\ Append(s, a)[Len(s) + 1] = a
         /\ /\ s \o <<a, b>> \in Seq(S) /\ Len(s \o <<a, b>>) = Len(s) + 2
            /\ \A i \in 1..Len(s) : (s \o <<a, b>>)[i] = s[i]
            /\ (s \o <<a, b>>)[Len(s) + 1] = a /\ (s \o <<a, b>>)[Len(s) + 2] = b
         /\ s # <<>> =>
            /\ Tail(s) \in Seq(S) /\ Len(s) # 0 /\ Len(Tail(s)) = Len(s) - 1
            /\ \A i \in 1..(Len(s) - 1) : Tail(s)[i] = s[i + 1]
            /\ Head(s) = s[1] /\ Head(s) \in S
OBVIOUS

Half(h) == IF h = 1 THEN "inputs" ELSE "targets"

\* A copy of this half is among the first n things the device has to do.
Copies(h, n) == \E j \in 1..n : stream[j].op = Half(h)

\* The device's buffer is as the pinned one, or will be.
GpuInv ==
  /\ gpu \in Int \X Int
  /\ \A h \in {1, 2} : \/ h = 1 /\ pc = "send"
                       \/ gpu[h] = cpu[h]
                       \/ Copies(h, Len(stream))

\* Before a pass both halves are of its batch or of a later one; the first pass
\* of a step has the device to itself, and so has every pass of the evaluation.
PassInv ==
  \A i \in 1..Len(stream) : stream[i].op = "pass" =>
    /\ stream[i].batch \in 0..batch
    /\ \A h \in {1, 2} : gpu[h] >= stream[i].batch \/ Copies(h, i - 1)
    /\ phase = "train" /\ stream[i].batch = 0 => i = 1 /\ gpu = <<0, 0>>
    /\ phase = "eval" => stream[i].batch = batch /\ i = Len(stream) /\ pc = "read"

\* Where the device has nothing to do.
QuietInv ==
  /\ \/ pc \in {"off", "load", "list", "evaluate"}
     \/ pc \in {"pack", "send"} /\ (phase = "eval" \/ batch = -1)
     \/ pc = "launch" /\ phase = "train" /\ batch = 0
     => stream = <<>>
  /\ pc = "launch" /\ phase = "train" /\ batch = 0 => gpu = <<0, 0>>

StreamInv ==
  /\ stream \in Seq(Operations)
  /\ GpuInv /\ PassInv /\ QuietInv
  /\ BatchesInOrder

\* Each thing the device may do is a copy of a half or a pass.
LEMMA OperationKinds ==
  \A do \in Operations :
    /\ do.op \in {"inputs", "targets", "pass"}
    /\ do.op = "pass" => do.batch \in 0..(Accum + EvalBatches)
BY DEF Operations

\* The pinned buffer is of the last batch, or of the one being packed.
LEMMA PinnedIsRecent ==
  HostInv => /\ \A h \in {1, 2} : cpu[h] \in Int /\ cpu[h] >= batch
             /\ cpu \in Int \X Int
BY DEF HostInv

\* A copy keeps the device's invariant ...
LEMMA CopyStep ==
  ASSUME HostInv, StreamInv, Device, NEW c \in {1, 2}, stream[1].op = Half(c)
  PROVE  StreamInv'
<1> DEFINE n == Len(stream)
<1>1. /\ stream # <<>> /\ stream' = Tail(stream)
      /\ UNCHANGED <<pc, phase, batch, cpu>>
  BY DEF Device
<1>2. /\ n \in Nat /\ n # 0 /\ stream' \in Seq(Operations) /\ Len(stream') = n - 1
      /\ \A i \in 1..(n - 1) : stream'[i] = stream[i + 1]
      /\ Head(stream) = stream[1]
  BY <1>1, Queue DEF StreamInv
<1>3. /\ gpu' = [gpu EXCEPT ![c] = cpu[c]] /\ seen' = seen
  BY <1>2 DEF Device, Half
<1>4. gpu' \in Int \X Int
  BY <1>3, PinnedIsRecent DEF StreamInv, GpuInv
<1>5. gpu'[c] = cpu[c] /\ \A h \in {1, 2} : h # c => gpu'[h] = gpu[h]
  BY <1>3 DEF StreamInv, GpuInv
<1>6. \A h \in {1, 2}, m \in 1..n : h # c /\ Copies(h, m) => Copies(h, m - 1)'
  <2> SUFFICES ASSUME NEW h \in {1, 2}, NEW m \in 1..n, h # c, Copies(h, m)
               PROVE  \E j \in 1..(m - 1) : stream'[j].op = Half(h)
    BY DEF Copies
  <2>1. PICK j \in 1..m : stream[j].op = Half(h)
    BY DEF Copies
  <2>2. j # 1
    BY <2>1 DEF Half
  <2>3. j - 1 \in 1..(m - 1) /\ stream'[j - 1] = stream[j]
    BY <1>2, <2>2
  <2>4. QED
    BY <2>1, <2>3
<1>7. GpuInv'
  <2> SUFFICES ASSUME NEW h \in {1, 2}, h # c, ~(h = 1 /\ pc = "send"), gpu[h] # cpu[h]
               PROVE  Copies(h, Len(stream))'
    BY <1>1, <1>4, <1>5 DEF GpuInv
  <2>1. Copies(h, n)
    BY DEF StreamInv, GpuInv
  <2>2. PICK m : m = n
    OBVIOUS
  <2>3. Copies(h, m - 1)'
    BY <1>2, <1>6, <2>1, <2>2
  <2>4. QED
    BY <1>2, <2>2, <2>3 DEF Copies
<1>8. PassInv'
  <2> SUFFICES ASSUME NEW i \in 1..(n - 1), stream'[i].op = "pass"
               PROVE  /\ stream'[i].batch \in 0..batch'
                      /\ \A h \in {1, 2} : gpu'[h] >= stream'[i].batch \/ Copies(h, i - 1)'
                      /\ phase' = "train" /\ stream'[i].batch = 0 => i = 1 /\ gpu' = <<0, 0>>
                      /\ phase' = "eval" => /\ stream'[i].batch = batch'
                                            /\ i = Len(stream') /\ pc' = "read"
    BY <1>2 DEF PassInv
  <2>1. i + 1 \in 1..n /\ stream'[i] = stream[i + 1]
    BY <1>2
  <2>2. /\ stream[i + 1].batch \in 0..batch
        /\ \A h \in {1, 2} : gpu[h] >= stream[i + 1].batch \/ Copies(h, i)
        /\ ~(phase = "train" /\ stream[i + 1].batch = 0)
        /\ phase = "eval" => stream[i + 1].batch = batch /\ i + 1 = n /\ pc = "read"
    BY <2>1 DEF StreamInv, PassInv
  <2>3. ASSUME NEW h \in {1, 2}
        PROVE  gpu'[h] >= stream'[i].batch \/ Copies(h, i - 1)'
    <3>1. CASE h = c
      <4>1. gpu'[h] = cpu[h] /\ cpu[h] \in Int /\ cpu[h] >= batch /\ batch \in Int
        BY <1>5, <3>1, PinnedIsRecent DEF HostInv
      <4>2. stream'[i].batch \in 0..batch
        BY <2>1, <2>2
      <4>3. QED
        BY <4>1, <4>2
    <3>2. CASE h # c
      BY <1>2, <1>5, <1>6, <2>1, <2>2, <3>2
    <3>3. QED
      BY <3>1, <3>2
  <2>4. ~(phase' = "train" /\ stream'[i].batch = 0)
    BY <1>1, <2>1, <2>2
  <2>5. phase' = "eval" => /\ stream'[i].batch = batch'
                           /\ i = Len(stream') /\ pc' = "read"
    BY <1>1, <1>2, <2>1, <2>2
  <2>6. stream'[i].batch \in 0..batch'
    BY <1>1, <2>1, <2>2
  <2>7. QED
    BY <2>3, <2>4, <2>5, <2>6
<1>9. QuietInv'
  BY <1>1 DEF StreamInv, QuietInv
<1>10. BatchesInOrder'
  BY <1>1, <1>3 DEF StreamInv, BatchesInOrder
<1>11. QED
  BY <1>2, <1>7, <1>8, <1>9, <1>10 DEF StreamInv

\* ... and so does a pass, which sees the batches it should.
LEMMA PassStep ==
  ASSUME HostInv, StreamInv, Device, stream[1].op = "pass"
  PROVE  StreamInv'
<1> DEFINE n == Len(stream)
           b == stream[1].batch
<1>1. /\ stream # <<>> /\ stream' = Tail(stream)
      /\ UNCHANGED <<pc, phase, batch, cpu>>
  BY DEF Device
<1>2. /\ n \in Nat /\ n # 0 /\ stream' \in Seq(Operations) /\ Len(stream') = n - 1
      /\ \A i \in 1..(n - 1) : stream'[i] = stream[i + 1]
      /\ Head(stream) = stream[1]
  BY <1>1, Queue DEF StreamInv
<1>3. gpu' = gpu /\ seen' = seen \cup {<<b, gpu[1], gpu[2]>>}
  BY <1>2 DEF Device
<1>4. ASSUME NEW h \in {1, 2}, NEW m \in 1..n, Copies(h, m)
      PROVE  \E j \in 1..(m - 1) : stream'[j].op = Half(h)
  <2>1. PICK j \in 1..m : stream[j].op = Half(h)
    BY <1>4 DEF Copies
  <2>2. j # 1
    BY <2>1 DEF Half
  <2>3. j - 1 \in 1..(m - 1) /\ stream'[j - 1] = stream[j]
    BY <1>2, <2>2
  <2>4. QED
    BY <2>1, <2>3
<1>5. GpuInv'
  <2> SUFFICES ASSUME NEW h \in {1, 2}, ~(h = 1 /\ pc = "send"), gpu[h] # cpu[h]
               PROVE  \E j \in 1..Len(stream') : stream'[j].op = Half(h)
    BY <1>1, <1>3 DEF StreamInv, GpuInv, Copies
  <2>1. Copies(h, n)
    BY DEF StreamInv, GpuInv
  <2>2. QED
    BY <1>2, <1>4, <2>1
<1>6. PassInv'
  <2> SUFFICES ASSUME NEW i \in 1..(n - 1), stream'[i].op = "pass"
               PROVE  /\ stream'[i].batch \in 0..batch'
                      /\ \A h \in {1, 2} : gpu'[h] >= stream'[i].batch \/ Copies(h, i - 1)'
                      /\ phase' = "train" /\ stream'[i].batch = 0 => i = 1 /\ gpu' = <<0, 0>>
                      /\ phase' = "eval" => /\ stream'[i].batch = batch'
                                            /\ i = Len(stream') /\ pc' = "read"
    BY <1>2 DEF PassInv
  <2>1. i + 1 \in 1..n /\ i \in 1..n /\ stream'[i] = stream[i + 1]
    BY <1>2
  <2>2. /\ stream[i + 1].batch \in 0..batch
        /\ \A h \in {1, 2} : gpu[h] >= stream[i + 1].batch \/ Copies(h, i)
        /\ ~(phase = "train" /\ stream[i + 1].batch = 0)
        /\ phase # "eval"
    BY <1>2, <2>1 DEF StreamInv, PassInv
  <2>3. \A h \in {1, 2} : gpu'[h] >= stream'[i].batch \/ Copies(h, i - 1)'
    BY <1>3, <1>4, <2>1, <2>2 DEF Copies
  <2>4. QED
    BY <1>1, <2>1, <2>2, <2>3
<1>7. QuietInv'
  BY <1>1 DEF StreamInv, QuietInv
<1>8. BatchesInOrder'
  <2>1. /\ b \in 0..batch /\ batch \in Int
        /\ \A h \in {1, 2} : gpu[h] >= b
        /\ phase = "train" /\ b = 0 => gpu = <<0, 0>>
        /\ phase = "eval" => b = batch /\ n = 1 /\ pc = "read"
    <3>1. 1 \in 1..n /\ \A h \in {1, 2} : ~Copies(h, 1 - 1)
      BY <1>2 DEF Copies
    <3>2. /\ b \in 0..batch
          /\ \A h \in {1, 2} : gpu[h] >= b \/ Copies(h, 1 - 1)
          /\ phase = "train" /\ b = 0 => 1 = 1 /\ gpu = <<0, 0>>
          /\ phase = "eval" => b = batch /\ 1 = Len(stream) /\ pc = "read"
      BY <3>1 DEF StreamInv, PassInv
    <3>3. QED
      BY <3>1, <3>2 DEF HostInv
  <2>2. phase \in {"train", "eval"}
    BY <1>1 DEF StreamInv, QuietInv, HostInv
  <2>3. gpu[1] >= b /\ gpu[2] >= b
    BY <2>1
  <2>4. phase = "eval" => gpu[1] = b /\ gpu[2] = b
    <3> SUFFICES ASSUME phase = "eval"
                 PROVE  \A h \in {1, 2} : gpu[h] = b
      OBVIOUS
    <3>1. TAKE h \in {1, 2}
    <3>2. ~Copies(h, n)
      <4>1. n = 1
        BY <2>1
      <4>2. \A j \in 1..n : j = 1
        BY <4>1
      <4>3. stream[1].op # Half(h)
        BY DEF Half
      <4>4. QED
        BY <4>2, <4>3 DEF Copies
    <3>3. cpu[h] = batch
      BY <2>1 DEF HostInv
    <3>4. QED
      BY <2>1, <3>2, <3>3 DEF StreamInv, GpuInv
  <2>5. b = 0 => gpu[1] = b /\ gpu[2] = b
    BY <2>1, <2>2, <2>4
  <2>6. QED
    BY <1>1, <1>3, <2>3, <2>4, <2>5 DEF StreamInv, BatchesInOrder
<1>9. QED
  BY <1>2, <1>5, <1>6, <1>7, <1>8 DEF StreamInv

\* Where the device is idle only its buffer and what it has seen matter.
LEMMA IdleDevice ==
  ASSUME stream' = <<>>, gpu' \in Int \X Int, BatchesInOrder',
         \A h \in {1, 2} : (h = 1 /\ pc' = "send") \/ gpu'[h] = cpu'[h],
         pc' = "launch" /\ phase' = "train" /\ batch' = 0 => gpu' = <<0, 0>>
  PROVE  StreamInv'
BY DEF StreamInv, GpuInv, PassInv, QuietInv

\* With nothing to do, the device has the batch that the program has.
LEMMA IdleHasBatch ==
  ASSUME HostInv, StreamInv, stream = <<>>, pc # "send"
  PROVE  gpu = <<batch, batch>> /\ cpu = <<batch, batch>> /\ batch \in Int
<1>1. cpu = <<batch, batch>> /\ batch \in Int
  BY DEF HostInv
<1>2. \A h \in {1, 2} : ~Copies(h, Len(stream))
  BY DEF Copies
<1>3. gpu[1] = cpu[1] /\ gpu[2] = cpu[2] /\ gpu \in Int \X Int
  BY <1>2 DEF StreamInv, GpuInv
<1>4. QED
  BY <1>1, <1>3

\* A run that ends leaves the device nothing to do.
LEMMA OffStream == Off => StreamInv'
<1> SUFFICES ASSUME Off PROVE StreamInv'
  OBVIOUS
<1>1. /\ stream' = <<>> /\ seen' = {} /\ pc' = "off"
      /\ gpu' = <<-1, -1>> /\ cpu' = <<-1, -1>>
  BY DEF Off, NoBatch
<1>2. QED
  BY <1>1, IdleDevice DEF BatchesInOrder

\* The halves of a batch are copied behind everything else.
LEMMA SendStep ==
  ASSUME HostInv, StreamInv, Send
  PROVE  StreamInv'
<1> DEFINE n == Len(stream)
<1>1. /\ pc = "send" /\ pc' # "read" /\ pc' # "send"
      /\ batch' = batch + 1 /\ UNCHANGED <<phase, gpu, seen>>
      /\ stream' = stream \o <<[op |-> "inputs"], [op |-> "targets"]>>
      /\ pc' \in {"launch", "sync", "optimize"}
      /\ phase = "train" /\ pc' = "launch" => batch' # 0
  <2>1. /\ pc = "send" /\ batch' = batch + 1 /\ UNCHANGED <<phase, gpu, seen>>
        /\ stream' = stream \o <<[op |-> "inputs"], [op |-> "targets"]>>
    BY DEF Send, Goto, HostAt
  <2>2. CASE phase = "eval"
    BY <2>1, <2>2 DEF Send, Goto
  <2>3. CASE phase = "train"
    <3>1. batch + 1 = 0 \/ batch + 1 \in 1..(Accum - 1) \/ batch + 1 = Accum
      BY <2>1, <2>3, TrainerAssumption DEF TrainerAssumption, HostInv
    <3>2. CASE batch + 1 = 0
      BY <2>1, <2>3, <3>2, TrainerAssumption DEF TrainerAssumption, Send, Goto
    <3>3. CASE batch + 1 \in 1..(Accum - 1)
      BY <2>1, <2>3, <3>3, TrainerAssumption DEF TrainerAssumption, Send, Goto
    <3>4. CASE batch + 1 = Accum
      BY <2>1, <2>3, <3>4, TrainerAssumption DEF TrainerAssumption, Send, Goto
    <3>5. QED
      BY <3>1, <3>2, <3>3, <3>4
  <2>4. QED
    BY <2>1, <2>2, <2>3 DEF HostInv
<1>2. [op |-> "inputs"] \in Operations /\ [op |-> "targets"] \in Operations
  BY DEF Operations
<1>3. /\ n \in Nat /\ stream' \in Seq(Operations) /\ Len(stream') = n + 2
      /\ \A i \in 1..n : stream'[i] = stream[i]
      /\ stream'[n + 1].op = "inputs" /\ stream'[n + 2].op = "targets"
  BY <1>1, <1>2, Queue DEF StreamInv
<1>4. GpuInv'
  <2>1. n + 1 \in 1..Len(stream') /\ n + 2 \in 1..Len(stream')
    BY <1>3
  <2>2. \A h \in {1, 2} : \E j \in 1..Len(stream') : stream'[j].op = Half(h)
    BY <1>3, <2>1 DEF Half
  <2>3. QED
    BY <1>1, <2>2 DEF StreamInv, GpuInv, Copies
<1>5. PassInv'
  <2> SUFFICES ASSUME NEW i \in 1..(n + 2), stream'[i].op = "pass"
               PROVE  /\ stream'[i].batch \in 0..batch'
                      /\ \A h \in {1, 2} : gpu'[h] >= stream'[i].batch \/ Copies(h, i - 1)'
                      /\ phase' = "train" /\ stream'[i].batch = 0 => i = 1 /\ gpu' = <<0, 0>>
                      /\ phase' = "eval" => /\ stream'[i].batch = batch'
                                            /\ i = Len(stream') /\ pc' = "read"
    BY <1>3 DEF PassInv
  <2>1. i \in 1..n /\ stream'[i] = stream[i]
    <3>1. i \in 1..n \/ i = n + 1 \/ i = n + 2
      BY <1>3
    <3>2. QED
      BY <1>3, <3>1
  <2>2. /\ stream[i].batch \in 0..batch
        /\ \A h \in {1, 2} : gpu[h] >= stream[i].batch \/ Copies(h, i - 1)
        /\ phase = "train" /\ stream[i].batch = 0 => i = 1 /\ gpu = <<0, 0>>
        /\ phase # "eval"
    BY <1>1, <2>1 DEF StreamInv, PassInv
  <2>3. \A h \in {1, 2} : Copies(h, i - 1) => Copies(h, i - 1)'
    BY <1>3, <2>1 DEF Copies
  <2>4. stream'[i].batch \in 0..batch'
    BY <1>1, <2>1, <2>2 DEF HostInv
  <2>5. QED
    BY <1>1, <2>1, <2>2, <2>3, <2>4
<1>6. QuietInv' /\ BatchesInOrder'
  BY <1>1 DEF StreamInv, QuietInv, BatchesInOrder
<1>7. QED
  BY <1>3, <1>4, <1>5, <1>6 DEF StreamInv

\* A pass is enqueued behind the copies of its batch.
LEMMA LaunchStep ==
  ASSUME HostInv, StreamInv, Launch
  PROVE  StreamInv'
<1> DEFINE n == Len(stream)
<1>1. /\ pc = "launch" /\ pc' = (IF phase = "train" THEN "pack" ELSE "read")
      /\ UNCHANGED <<phase, batch, cpu, gpu, seen>>
      /\ stream' = Append(stream, [op |-> "pass", batch |-> batch])
  BY DEF Launch, Goto, HostAt
<1>2. /\ cpu[1] = batch /\ cpu[2] = batch /\ phase \in {"train", "eval"}
      /\ batch \in 0..(Accum + EvalBatches)
  BY <1>1, TrainerAssumption DEF TrainerAssumption, HostInv
<1>3. [op |-> "pass", batch |-> batch] \in Operations
  BY <1>2 DEF Operations
<1>4. /\ n \in Nat /\ stream' \in Seq(Operations) /\ Len(stream') = n + 1
      /\ \A i \in 1..n : stream'[i] = stream[i]
      /\ stream'[n + 1] = [op |-> "pass", batch |-> batch]
  BY <1>1, <1>3, Queue DEF StreamInv
<1>5. \A h \in {1, 2}, m \in 0..n : Copies(h, m) => Copies(h, m)'
  BY <1>4 DEF Copies
<1>6. \A h \in {1, 2} : gpu[h] = batch \/ Copies(h, n)
  BY <1>1, <1>2 DEF StreamInv, GpuInv
<1>7. GpuInv'
  <2>1. \A h \in {1, 2} : Copies(h, n) => \E j \in 1..Len(stream') : stream'[j].op = Half(h)
    BY <1>4 DEF Copies
  <2>2. QED
    BY <1>1, <1>2, <1>6, <2>1 DEF StreamInv, GpuInv, Copies
<1>8. PassInv'
  <2> SUFFICES ASSUME NEW i \in 1..(n + 1), stream'[i].op = "pass"
               PROVE  /\ stream'[i].batch \in 0..batch'
                      /\ \A h \in {1, 2} : gpu'[h] >= stream'[i].batch \/ Copies(h, i - 1)'
                      /\ phase' = "train" /\ stream'[i].batch = 0 => i = 1 /\ gpu' = <<0, 0>>
                      /\ phase' = "eval" => /\ stream'[i].batch = batch'
                                            /\ i = Len(stream') /\ pc' = "read"
    BY <1>4 DEF PassInv
  <2>1. CASE i \in 1..n
    <3>1. /\ stream[i].batch \in 0..batch
          /\ \A h \in {1, 2} : gpu[h] >= stream[i].batch \/ Copies(h, i - 1)
          /\ phase = "train" /\ stream[i].batch = 0 => i = 1 /\ gpu = <<0, 0>>
          /\ phase # "eval"
      BY <1>1, <1>4, <2>1 DEF StreamInv, PassInv
    <3>2. i - 1 \in 0..n
      BY <1>4, <2>1
    <3>3. QED
      BY <1>1, <1>4, <1>5, <2>1, <3>1, <3>2
  <2>2. CASE i = n + 1
    <3>1. stream'[i].batch = batch /\ i - 1 = n
      BY <1>4, <2>2
    <3>2. \A h \in {1, 2} : gpu'[h] >= stream'[i].batch \/ Copies(h, i - 1)'
      <4>1. n \in 0..n
        BY <1>4
      <4>2. QED
        BY <1>1, <1>2, <1>5, <1>6, <3>1, <4>1
    <3>3. phase = "train" /\ batch = 0 => i = 1 /\ gpu = <<0, 0>>
      BY <1>1, <2>2 DEF StreamInv, QuietInv
    <3>4. QED
      BY <1>1, <1>2, <1>4, <2>2, <3>1, <3>2, <3>3
  <2>3. QED
    BY <1>4, <2>1, <2>2
<1>9. QuietInv' /\ BatchesInOrder'
  BY <1>1, <1>2 DEF StreamInv, QuietInv, BatchesInOrder, HostInv
<1>10. QED
  BY <1>4, <1>7, <1>8, <1>9 DEF StreamInv

\* Every step keeps the device's invariant.
LEMMA StreamStep == HostInv /\ StreamInv /\ [Next]_vars => StreamInv'
<1> SUFFICES ASSUME HostInv, StreamInv, [Next]_vars
             PROVE  StreamInv'
  OBVIOUS
<1>1. ASSUME UNCHANGED <<phase, pc, batch, cpu, gpu, stream, seen>>
      PROVE  StreamInv'
  BY <1>1 DEF StreamInv, GpuInv, PassInv, QuietInv, BatchesInOrder, Copies
<1>2. CASE Prepare /\ PrepareNext
  BY <1>1, <1>2 DEF Prepare, runVars
<1>3. ASSUME pc \in {"off", "load"}, pc' \in {"load", "list"},
             UNCHANGED <<batch, cpu, gpu, stream, seen>>, phase' # "eval"
      PROVE  StreamInv'
  BY <1>3, IdleHasBatch, IdleDevice DEF StreamInv, QuietInv, BatchesInOrder
<1>4. CASE StartRun
  BY <1>3, <1>4 DEF StartRun, HostAt
<1>5. CASE LoadTokenizer
  BY <1>3, <1>5 DEF LoadTokenizer, Goto, HostAt, HostInv, EvalPlaces
<1>6. CASE ListTraining
  <2>1. /\ phase' = "train" /\ phase = "train" /\ pc' = "pack" /\ seen' = seen
        /\ stream' = stream /\ pc = "list"
        /\ gpu' = <<-1, -1>> /\ cpu' = <<-1, -1>>
    BY <1>6 DEF ListTraining, BeginLoader, Goto, HostAt, NoBatch, HostInv, EvalPlaces
  <2>2. stream' = <<>> /\ BatchesInOrder'
    BY <2>1 DEF StreamInv, QuietInv, BatchesInOrder
  <2>3. QED
    BY <2>1, <2>2, IdleDevice
<1>7. CASE Pack
  BY <1>1, <1>7 DEF Pack, Goto, HostAt
<1>8. CASE Split
  <2>1. /\ pc = "pack" /\ pc' = "send" /\ cpu'[2] = cpu[2]
        /\ UNCHANGED <<phase, batch, gpu, stream, seen>>
    BY <1>8, PinnedIsRecent DEF Split, Goto, HostAt
  <2>2. GpuInv'
    BY <2>1 DEF StreamInv, GpuInv, Copies
  <2>3. PassInv'
    BY <2>1 DEF StreamInv, PassInv, Copies
  <2>4. QuietInv' /\ BatchesInOrder'
    BY <2>1 DEF StreamInv, QuietInv, BatchesInOrder
  <2>5. QED
    BY <2>1, <2>2, <2>3, <2>4 DEF StreamInv
<1>9. CASE BeginStep
  <2>1. /\ stream = <<>> /\ pc = "sync" /\ pc' = "launch" /\ batch' = 0 /\ seen' = {}
        /\ cpu' = [i \in 1..2 |-> cpu[i] - batch] /\ gpu' = [i \in 1..2 |-> gpu[i] - batch]
        /\ UNCHANGED stream
    BY <1>9 DEF BeginStep, Idle, Goto, HostAt
  <2>2. cpu' = <<0, 0>> /\ gpu' = <<0, 0>>
    BY <2>1, IdleHasBatch
  <2>3. QED
    BY <2>1, <2>2, IdleDevice DEF BatchesInOrder
<1>10. CASE Optimize
  <2>1. /\ pc = "optimize" /\ pc' = "item" /\ phase = "train"
        /\ UNCHANGED <<phase, batch, cpu, gpu, stream, seen>>
    BY <1>10 DEF Optimize, Goto, HostAt, HostInv, EvalPlaces
  <2>2. GpuInv' /\ PassInv'
    BY <2>1 DEF StreamInv, GpuInv, PassInv, Copies
  <2>3. QuietInv' /\ BatchesInOrder'
    BY <2>1 DEF StreamInv, QuietInv, BatchesInOrder
  <2>4. QED
    BY <2>1, <2>2, <2>3 DEF StreamInv
<1>11. CASE EndStep
  <2>1. /\ stream = <<>> /\ pc = "item" /\ pc' \in {"evaluate", "sync"}
        /\ UNCHANGED <<phase, batch, cpu, gpu, stream, seen>>
    BY <1>11 DEF EndStep, Idle, Goto, HostAt
  <2>2. BatchesInOrder'
    BY <2>1 DEF StreamInv, BatchesInOrder
  <2>3. QED
    BY <2>1, <2>2, IdleHasBatch, IdleDevice
<1>12. CASE BeginEvaluation
  <2>1. /\ pc = "evaluate" /\ pc' = "pack" /\ seen' = {} /\ stream' = stream
        /\ gpu' = <<-1, -1>> /\ cpu' = <<-1, -1>>
    BY <1>12 DEF BeginEvaluation, BeginLoader, Goto, HostAt, NoBatch
  <2>2. stream' = <<>> /\ BatchesInOrder'
    BY <2>1 DEF StreamInv, QuietInv, BatchesInOrder
  <2>3. QED
    BY <2>1, <2>2, IdleDevice
<1>13. CASE ReadLosses
  <2>1. CASE batch + 1 < EvalBatches
    <3>1. /\ stream = <<>> /\ pc = "read" /\ pc' = "pack" /\ seen' = {}
          /\ UNCHANGED <<phase, batch, cpu, gpu, stream>>
      BY <1>13, <2>1 DEF ReadLosses, Idle, HostAt
    <3>2. QED
      BY <3>1, IdleHasBatch, IdleDevice DEF BatchesInOrder
  <2>2. CASE ~(batch + 1 < EvalBatches)
    BY <1>13, <2>2, OffStream DEF ReadLosses
  <2>3. QED
    BY <2>1, <2>2
<1>14. CASE LossExplodes \/ Raise \/ Killed
  BY <1>14, OffStream DEF LossExplodes, Raise, Killed
<1>15. CASE Device
  <2>1. stream # <<>>
    BY <1>15 DEF Device
  <2>2. stream[1] \in Operations
    BY <2>1, Queue DEF StreamInv
  <2>3. stream[1].op \in {Half(1), Half(2), "pass"}
    BY <2>2, OperationKinds DEF Half
  <2>4. QED
    BY <1>15, <2>3, CopyStep, PassStep
<1>16. CASE UNCHANGED vars
  BY <1>1, <1>16 DEF vars, runVars
<1>17. QED
  BY <1>2, <1>4, <1>5, <1>6, <1>7, <1>8, <1>9, <1>10, <1>11, <1>12, <1>13, <1>14,
     <1>15, <1>16, SendStep, LaunchStep DEF Next, Host

\* The device has nothing to do at the start.
LEMMA StreamInit == Init => StreamInv
BY DEF Init, NoBatch, StreamInv, GpuInv, PassInv, QuietInv, BatchesInOrder

\* However far the device is behind, no pass sees an older batch than its own,
\* and the evaluation scores exactly the batches it was given.
THEOREM BatchesInOrderHold == Spec => []BatchesInOrder
<1>1. Init => HostInv
  BY DEF Init, HostInv, NoBatch
<1>2. StreamInv => BatchesInOrder
  BY DEF StreamInv
<1>3. QED
  BY <1>1, <1>2, StreamInit, HostStep, StreamStep, PTL DEF Spec

-----------------------------------------------------------------------------
(* The loader's buffer and its rows.                                        *)

\* The lengths of buffered documents are positive numbers.
LEMMA BufferLengths ==
  ASSUME NEW buffer \in Seq(Documents)
  PROVE  /\ DOMAIN buffer = 1..Len(buffer) /\ Len(buffer) \in Nat
         /\ \A i \in DOMAIN buffer : buffer[i] \in Documents /\ buffer[i].len \in Nat \ {0}
<1>1. \A i \in DOMAIN buffer : buffer[i] \in Documents
  OBVIOUS
<1>2. \A d \in Documents : d.len \in Nat \ {0}
  BY DEF Documents
<1>3. QED
  BY <1>1, <1>2

\* The best fit is a document that fits, and none that fits is longer.
LEMMA BestFitIsLongest ==
  ASSUME NEW buffer \in Seq(Documents), NEW room \in Nat, Fitting(buffer, room) # {}
  PROVE  /\ BestFit(buffer, room) \in Fitting(buffer, room)
         /\ \A j \in Fitting(buffer, room) :
              buffer[j].len <= buffer[BestFit(buffer, room)].len
<1> DEFINE Lengths == {buffer[i].len : i \in Fitting(buffer, room)}
           Longest == {i \in DOMAIN buffer : buffer[i].len = Max(Lengths)}
<1>1. /\ \A i \in DOMAIN buffer : i \in Nat /\ buffer[i].len \in Nat
      /\ \A i \in Fitting(buffer, room) : i \in DOMAIN buffer /\ buffer[i].len \in 0..room
  BY BufferLengths DEF Fitting
<1>2. Lengths \subseteq 0..room /\ Lengths # {}
  BY <1>1
<1>3. Max(Lengths) \in Lengths /\ \A n \in Lengths : Max(Lengths) >= n
  <2> HIDE DEF Lengths
  <2>1. QED
    BY <1>2, MaxIsGreatest
<1>4. Longest \subseteq Nat /\ Longest # {}
  <2>1. PICK i \in Fitting(buffer, room) : buffer[i].len = Max(Lengths)
    BY <1>3
  <2>2. i \in Longest
    BY <1>1, <2>1
  <2>3. QED
    BY <1>1, <2>2
<1>5. Min(Longest) \in Longest
  <2> HIDE DEF Longest
  <2>1. QED
    BY <1>4, MinIsLeast
<1>6. BestFit(buffer, room) = Min(Longest)
  BY DEF BestFit
<1>7. Min(Longest) \in DOMAIN buffer /\ buffer[Min(Longest)].len = Max(Lengths)
  BY <1>5
<1>8. QED
  <2>1. Max(Lengths) <= room
    BY <1>2, <1>3
  <2>2. \A j \in Fitting(buffer, room) : buffer[j].len <= Max(Lengths)
    BY <1>1, <1>2, <1>3
  <2> HIDE DEF Lengths, Longest
  <2>3. QED
    BY <1>6, <1>7, <2>1, <2>2 DEF Fitting

\* Where there is a document there is a shortest one.
LEMMA ShortestIsLeast ==
  ASSUME NEW buffer \in Seq(Documents), Len(buffer) > 0
  PROVE  /\ Shortest(buffer) \in DOMAIN buffer
         /\ \A j \in DOMAIN buffer : buffer[j].len >= buffer[Shortest(buffer)].len
<1> DEFINE Lengths == {buffer[i].len : i \in DOMAIN buffer}
           Least == {i \in DOMAIN buffer : buffer[i].len = Min(Lengths)}
<1>1. \A i \in DOMAIN buffer : i \in Nat /\ buffer[i].len \in Nat
  BY BufferLengths
<1>2. Lengths \subseteq Nat /\ Lengths # {}
  <2>1. 1 \in DOMAIN buffer
    BY BufferLengths
  <2>2. buffer[1].len \in Lengths
    BY <2>1
  <2>3. QED
    BY <1>1, <2>2
<1>3. Min(Lengths) \in Lengths /\ \A n \in Lengths : Min(Lengths) <= n
  <2> HIDE DEF Lengths
  <2>1. QED
    BY <1>2, MinIsLeast
<1>4. Least \subseteq Nat /\ Least # {}
  <2>1. PICK i \in DOMAIN buffer : buffer[i].len = Min(Lengths)
    BY <1>3
  <2>2. i \in Least
    BY <2>1
  <2>3. QED
    BY <1>1, <2>2
<1>5. Min(Least) \in Least
  <2> HIDE DEF Least
  <2>1. QED
    BY <1>4, MinIsLeast
<1>6. Shortest(buffer) = Min(Least)
  BY DEF Shortest
<1>7. Min(Least) \in DOMAIN buffer /\ buffer[Min(Least)].len = Min(Lengths)
  BY <1>5
<1>8. QED
  <2>1. \A j \in DOMAIN buffer : buffer[j].len >= Min(Lengths)
    BY <1>1, <1>2, <1>3
  <2> HIDE DEF Lengths, Least
  <2>2. QED
    BY <1>6, <1>7, <2>1

\* The next file is one of the files.
LEMMA NextFileIsFile ==
  ASSUME NEW files, files \subseteq Nat, files # {}, NEW at
  PROVE  NextFile(files, at) \in files
<1> DEFINE later == {f \in files : f > at}
<1>1. CASE later = {}
  BY <1>1, MinIsLeast DEF NextFile
<1>2. CASE later # {}
  <2>1. Min(later) \in later
    <3>1. later \subseteq Nat
      OBVIOUS
    <3> HIDE DEF later
    <3>2. QED
      BY <1>2, <3>1, MinIsLeast
  <2>2. QED
    BY <1>2, <2>1 DEF NextFile
<1>3. QED
  BY <1>1, <1>2

\* What is left of a buffer when document i has gone.
LEMMA Removed ==
  ASSUME NEW s \in Seq(Documents), NEW i \in DOMAIN s
  PROVE  /\ RemoveAt(s, i) \in Seq(Documents)
         /\ Len(RemoveAt(s, i)) = Len(s) - 1
         /\ \A j \in DOMAIN RemoveAt(s, i) :
              RemoveAt(s, i)[j] = s[IF j < i THEN j ELSE j + 1]
         /\ \A j \in DOMAIN RemoveAt(s, i) : \E k \in DOMAIN s : RemoveAt(s, i)[j] = s[k]
<1> DEFINE rest == RemoveAt(s, i)
           front == SubSeq(s, 1, i - 1)
           back == SubSeq(s, i + 1, Len(s))
<1>1. i \in 1..Len(s) /\ Len(s) \in Nat
  OBVIOUS
<1>2. /\ front \in Seq(Documents) /\ Len(front) = i - 1
      /\ \A j \in 1..(i - 1) : front[j] = s[j]
  BY <1>1
<1>3. /\ back \in Seq(Documents) /\ Len(back) = Len(s) - i
      /\ \A j \in 1..(Len(s) - i) : back[j] = s[i + j]
  BY <1>1
<1>4. rest = front \o back
  BY DEF RemoveAt
<1>5. rest \in Seq(Documents) /\ Len(rest) = Len(s) - 1
  <2> HIDE DEF front, back, rest
  <2>1. QED
    BY <1>1, <1>2, <1>3, <1>4
<1>6. ASSUME NEW j \in DOMAIN rest
      PROVE  rest[j] = s[IF j < i THEN j ELSE j + 1]
  <2> HIDE DEF front, back, rest
  <2>1. j \in 1..(Len(s) - 1)
    BY <1>1, <1>5
  <2>2. rest[j] = IF j <= Len(front) THEN front[j] ELSE back[j - Len(front)]
    BY <1>1, <1>2, <1>3, <1>4, <2>1
  <2>3. CASE j < i
    BY <1>1, <1>2, <2>1, <2>2, <2>3
  <2>4. CASE ~(j < i)
    <3>1. rest[j] = back[j - (i - 1)] /\ j - (i - 1) \in 1..(Len(s) - i)
      BY <1>1, <1>2, <2>1, <2>2, <2>4
    <3>2. rest[j] = s[i + (j - (i - 1))]
      BY <1>3, <3>1
    <3>3. i + (j - (i - 1)) = j + 1
      BY <1>1, <2>1
    <3>4. QED
      BY <2>4, <3>2, <3>3
  <2>5. QED
    BY <2>3, <2>4
<1>7. ASSUME NEW j \in DOMAIN rest
      PROVE  \E k \in DOMAIN s : rest[j] = s[k]
  <2>1. (IF j < i THEN j ELSE j + 1) \in 1..Len(s)
    <3> HIDE DEF rest
    <3>1. j \in 1..(Len(s) - 1)
      BY <1>1, <1>5
    <3>2. QED
      BY <1>1, <3>1
  <2>2. QED
    BY <1>6, <2>1
<1>8. QED
  BY <1>5, <1>6, <1>7

\* Two sequences of documents one behind the other.
LEMMA Joined ==
  ASSUME NEW s \in Seq(Documents), NEW t \in Seq(Documents)
  PROVE  /\ s \o t \in Seq(Documents) /\ Len(s \o t) = Len(s) + Len(t)
         /\ \A i \in DOMAIN (s \o t) :
              \/ i \in DOMAIN s /\ (s \o t)[i] = s[i]
              \/ \E j \in DOMAIN t : (s \o t)[i] = t[j]
<1>1. s \o t \in Seq(Documents) /\ Len(s \o t) = Len(s) + Len(t)
  OBVIOUS
<1>2. ASSUME NEW i \in DOMAIN (s \o t), ~(i \in DOMAIN s)
      PROVE  \E j \in DOMAIN t : (s \o t)[i] = t[j]
  <2>1. i - Len(s) \in DOMAIN t /\ (s \o t)[i] = t[i - Len(s)]
    BY <1>1, <1>2
  <2>2. QED
    BY <2>1
<1>3. \A i \in DOMAIN s : (s \o t)[i] = s[i]
  OBVIOUS
<1>4. QED
  BY <1>1, <1>2, <1>3

\* The loader's state, with the shards its row was packed from.
PackInv ==
  /\ LoaderTypeOK /\ RowsPacked
  /\ \A i \in DOMAIN row : row[i].shard \in loader.files

\* A piece appended to the row, and what the row was before.
LEMMA RowAppend ==
  ASSUME NEW r \in Seq(Pieces), NEW piece \in Pieces
  PROVE  /\ Append(r, piece) \in Seq(Pieces) /\ Len(Append(r, piece)) = Len(r) + 1
         /\ \A i \in DOMAIN Append(r, piece) :
              \/ i \in DOMAIN r /\ i <= Len(r) /\ Append(r, piece)[i] = r[i]
              \/ i = Len(r) + 1 /\ Append(r, piece)[i] = piece
OBVIOUS

\* A document leaves the buffer for the row: the piece says what it left.
LEMMA PlaceStep ==
  ASSUME PackInv, pos < RowCapacity, NEW i \in DOMAIN loader.buffer,
         NEW taken \in 1..(RowCapacity - pos), Place(i, taken)
  PROVE  /\ LoaderTypeOK' /\ loader'.files = loader.files /\ pos' = pos + taken
         /\ \E piece \in Pieces :
              /\ row' = Append(row, piece)
              /\ piece.shard = loader.buffer[i].shard
              /\ piece.len = loader.buffer[i].len
              /\ piece.taken = taken /\ piece.room = RowCapacity - pos
              /\ \A n \in piece.left :
                   \E j \in DOMAIN loader.buffer : n = loader.buffer[j].len
<1> DEFINE buffer == loader.buffer
           rest == RemoveAt(buffer, i)
           piece == [shard |-> buffer[i].shard, len |-> buffer[i].len, taken |-> taken,
                     room |-> RowCapacity - pos,
                     left |-> {rest[j].len : j \in DOMAIN rest}]
<1>1. /\ buffer \in Seq(Documents) /\ row \in Seq(Pieces) /\ pos \in 0..RowCapacity
      /\ RowCapacity \in Nat \ {0} /\ BufferSize \in Nat /\ BatchDocs \in Nat
  BY LoaderAssumption DEF LoaderAssumption, PackInv, LoaderTypeOK
<1>2. /\ row' = Append(row, piece) /\ loader' = [loader EXCEPT !.buffer = rest]
      /\ pos' = pos + taken
  BY DEF Place
<1>3. /\ rest \in Seq(Documents) /\ Len(rest) = Len(buffer) - 1
      /\ \A j \in DOMAIN rest : \E k \in DOMAIN buffer : rest[j] = buffer[k]
  BY <1>1, Removed
<1>4. \A j \in DOMAIN buffer : buffer[j] \in Documents /\ buffer[j].len \in Nat \ {0}
  BY <1>1, BufferLengths
<1>5. \A n \in piece.left : \E j \in DOMAIN buffer : n = buffer[j].len
  BY <1>3
<1>6. piece \in Pieces
  <2>1. buffer[i].shard \in DOMAIN Corpus
    BY <1>4 DEF Documents
  <2>2. piece.left \subseteq Nat \ {0}
    BY <1>4, <1>5
  <2>3. RowCapacity - pos \in 1..RowCapacity /\ taken \in Nat \ {0}
    BY <1>1
  <2>4. QED
    BY <1>4, <2>1, <2>2, <2>3 DEF Pieces
<1>7. row' \in Seq(Pieces) /\ pos' \in 0..RowCapacity
  BY <1>1, <1>2, <1>6, RowAppend
<1>8. /\ loader' \in [files : SUBSET DOMAIN Corpus, at : Nat, doc : Nat,
                      buffer : Seq(Documents)]
      /\ loader'.files = loader.files /\ loader'.at = loader.at
      /\ loader'.doc = loader.doc /\ loader'.buffer = rest
  BY <1>2, <1>3 DEF PackInv, LoaderTypeOK
<1>9. \A j \in DOMAIN rest : rest[j].shard \in loader.files
  BY <1>3 DEF PackInv, LoaderTypeOK
<1>10. Len(rest) < BufferSize + BatchDocs
  BY <1>1, <1>3 DEF PackInv, LoaderTypeOK
<1>11. LoaderTypeOK'
  BY <1>7, <1>8, <1>9, <1>10 DEF PackInv, LoaderTypeOK, Documents, Pieces
<1>12. QED
  BY <1>2, <1>5, <1>6, <1>8, <1>11


\* A document is packed: the row stays full but for its end, and thrifty.
LEMMA PackDocumentStep ==
  ASSUME PackInv, PackDocument
  PROVE  PackInv' /\ loader'.files = loader.files
<1> DEFINE buffer == loader.buffer
           room == RowCapacity - pos
<1>1. /\ buffer \in Seq(Documents) /\ row \in Seq(Pieces) /\ pos \in 0..RowCapacity
      /\ RowCapacity \in Nat \ {0} /\ BufferSize \in Nat \ {0}
      /\ pos < RowCapacity /\ Len(buffer) >= BufferSize
  BY LoaderAssumption DEF LoaderAssumption, PackInv, LoaderTypeOK, PackDocument
<1>2. room \in 1..RowCapacity /\ Len(buffer) > 0
  BY <1>1
<1>3. \A j \in DOMAIN buffer : buffer[j] \in Documents /\ buffer[j].len \in Nat \ {0}
  BY <1>1, BufferLengths
<1>4. \E i \in DOMAIN buffer, taken \in 1..room :
        /\ Place(i, taken)
        /\ taken # buffer[i].len => taken = room
        /\ \A j \in DOMAIN buffer :
             IF taken < buffer[i].len
             THEN buffer[j].len > room /\ buffer[j].len >= buffer[i].len
             ELSE buffer[j].len > room \/ buffer[j].len <= buffer[i].len
  <2>1. CASE Fitting(buffer, room) # {}
    <3> DEFINE i == BestFit(buffer, room)
    <3>1. /\ i \in Fitting(buffer, room)
          /\ \A j \in Fitting(buffer, room) : buffer[j].len <= buffer[i].len
      BY <1>1, <1>2, <2>1, BestFitIsLongest
    <3> HIDE DEF i
    <3>2. i \in DOMAIN buffer /\ buffer[i].len \in 1..room
      BY <1>2, <1>3, <3>1 DEF Fitting
    <3>3. \A j \in DOMAIN buffer : buffer[j].len > room \/ buffer[j].len <= buffer[i].len
      BY <1>2, <1>3, <3>1 DEF Fitting
    <3>4. Place(i, buffer[i].len)
      BY <2>1 DEF PackDocument, i
    <3>5. QED
      BY <1>3, <3>2, <3>3, <3>4
  <2>2. CASE Fitting(buffer, room) = {}
    <3> DEFINE i == Shortest(buffer)
    <3>1. /\ i \in DOMAIN buffer
          /\ \A j \in DOMAIN buffer : buffer[j].len >= buffer[i].len
      BY <1>1, <1>2, ShortestIsLeast
    <3> HIDE DEF i
    <3>2. \A j \in DOMAIN buffer : buffer[j].len > room
      BY <1>2, <1>3, <2>2 DEF Fitting
    <3>3. Place(i, room)
      BY <2>2 DEF PackDocument, i
    <3>4. room \in 1..room
      BY <1>2
    <3>5. QED
      BY <3>1, <3>2, <3>3, <3>4
  <2>3. QED
    BY <2>1, <2>2
<1>5. PICK i \in DOMAIN buffer, taken \in 1..room :
        /\ Place(i, taken)
        /\ taken # buffer[i].len => taken = room
        /\ \A j \in DOMAIN buffer :
             IF taken < buffer[i].len
             THEN buffer[j].len > room /\ buffer[j].len >= buffer[i].len
             ELSE buffer[j].len > room \/ buffer[j].len <= buffer[i].len
  BY <1>4
<1>6. /\ LoaderTypeOK' /\ loader'.files = loader.files /\ pos' = pos + taken
      /\ \E piece \in Pieces :
           /\ row' = Append(row, piece)
           /\ piece.shard = buffer[i].shard /\ piece.len = buffer[i].len
           /\ piece.taken = taken /\ piece.room = room
           /\ \A n \in piece.left : \E j \in DOMAIN buffer : n = buffer[j].len
  BY <1>1, <1>5, PlaceStep
<1>7. PICK piece \in Pieces :
        /\ row' = Append(row, piece)
        /\ piece.shard = buffer[i].shard /\ piece.len = buffer[i].len
        /\ piece.taken = taken /\ piece.room = room
        /\ \A n \in piece.left : \E j \in DOMAIN buffer : n = buffer[j].len
  BY <1>6
<1>8. /\ Len(row') = Len(row) + 1
      /\ \A k \in DOMAIN row' :
           \/ k \in DOMAIN row /\ row'[k] = row[k]
           \/ k = Len(row) + 1 /\ row'[k] = piece
  BY <1>1, <1>7, RowAppend
<1>9. \A k \in DOMAIN row : row[k].taken = row[k].len
  BY <1>1 DEF PackInv, RowsPacked, RowFull
<1>10. RowFull'
  <2>1. pos' <= RowCapacity /\ (taken = room => pos' = RowCapacity)
    BY <1>1, <1>2, <1>6
  <2>2. ASSUME NEW k \in DOMAIN row', row'[k].taken # row'[k].len
        PROVE  k = Len(row') /\ pos' = RowCapacity
    BY <1>5, <1>7, <1>8, <1>9, <2>1, <2>2
  <2>3. QED
    BY <2>1, <2>2 DEF RowFull
<1>11. RowThrifty'
  <2>1. \A n \in piece.left :
          IF piece.taken < piece.len
          THEN n > piece.room /\ n >= piece.len
          ELSE n > piece.room \/ n <= piece.len
    BY <1>5, <1>7
  <2>2. QED
    BY <1>8, <2>1 DEF PackInv, RowsPacked, RowThrifty
<1>12. \A k \in DOMAIN row' : row'[k].shard \in loader'.files
  BY <1>6, <1>7, <1>8 DEF PackInv, LoaderTypeOK
<1>13. QED
  BY <1>6, <1>10, <1>11, <1>12 DEF PackInv, RowsPacked

\* A batch of documents is read: of the listed files, and one batch only.
LEMMA RefillStep ==
  ASSUME PackInv, Refill, loader.files # {}
  PROVE  PackInv' /\ loader'.files = loader.files
<1> DEFINE s == loader.at
           end == Min({loader.doc + BatchDocs, Len(Corpus[s])})
           docs == NextDocs
           read == loader.doc + Len(docs)
<1>1. /\ s \in loader.files /\ s \in DOMAIN Corpus /\ s \in Nat
      /\ loader.files \subseteq DOMAIN Corpus /\ loader.files \subseteq Nat
      /\ loader.doc \in Nat /\ loader.doc < Len(Corpus[s])
      /\ loader.buffer \in Seq(Documents) /\ Len(loader.buffer) < BufferSize
  BY LoaderAssumption DEF LoaderAssumption, PackInv, LoaderTypeOK, Refill
<1>2. /\ Corpus[s] \in Seq(Nat \ {0}) /\ Len(Corpus[s]) \in Nat
      /\ BatchDocs \in Nat \ {0} /\ BufferSize \in Nat \ {0}
      /\ \A f \in DOMAIN Corpus : Corpus[f] \in Seq(Nat \ {0}) /\ Corpus[f] # <<>>
  BY <1>1, LoaderAssumption DEF LoaderAssumption
<1>3. /\ end \in Nat /\ end <= loader.doc + BatchDocs /\ end <= Len(Corpus[s])
      /\ end - loader.doc \in Nat
  <2> DEFINE ends == {loader.doc + BatchDocs, Len(Corpus[s])}
  <2>1. ends \subseteq Nat /\ ends # {}
    BY <1>1, <1>2
  <2>2. Min(ends) \in ends /\ \A n \in ends : Min(ends) <= n
    <3> HIDE DEF ends
    <3>1. QED
      BY <2>1, MinIsLeast
  <2>3. QED
    BY <1>1, <1>2, <2>2
<1> HIDE DEF end
<1>4. docs = [i \in 1..(end - loader.doc) |-> [shard |-> s, len |-> Corpus[s][loader.doc + i]]]
  BY DEF NextDocs, end
<1>5. \A i \in 1..(end - loader.doc) : Corpus[s][loader.doc + i] \in Nat \ {0}
  <2>1. \A i \in 1..(end - loader.doc) : loader.doc + i \in 1..Len(Corpus[s])
    <3>1. \A d, e, n \in Nat : e <= n => \A i \in 1..(e - d) : d + i \in 1..n
      OBVIOUS
    <3>2. QED
      BY <1>1, <1>2, <1>3, <3>1
  <2>2. \A k \in 1..Len(Corpus[s]) : Corpus[s][k] \in Nat \ {0}
    <3> DEFINE lengths == Corpus[s]
    <3>1. lengths \in Seq(Nat \ {0})
      BY <1>2
    <3> HIDE DEF lengths
    <3>2. \A k \in 1..Len(lengths) : lengths[k] \in Nat \ {0}
      BY <3>1
    <3>3. QED
      BY <3>2 DEF lengths
  <2>3. QED
    BY <2>1, <2>2
<1>6. docs \in Seq(Documents) /\ Len(docs) = end - loader.doc
  <2>1. \A i \in 1..(end - loader.doc) :
          [shard |-> s, len |-> Corpus[s][loader.doc + i]] \in Documents
    BY <1>1, <1>5 DEF Documents
  <2>2. docs \in [1..(end - loader.doc) -> Documents]
    BY <1>4, <2>1
  <2> HIDE DEF docs
  <2>3. QED
    BY <1>3, <2>2
<1>7. \A i \in DOMAIN docs : docs[i].shard = s
  BY <1>4
<1> HIDE DEF docs
<1>8. read \in Nat /\ Len(docs) \in Nat /\ Len(docs) <= BatchDocs
  <2>1. Len(docs) \in Nat /\ Len(docs) <= BatchDocs
    BY <1>1, <1>2, <1>3, <1>6
  <2>2. QED
    BY <1>1, <2>1
<1> DEFINE buffer == loader.buffer \o docs
<1>9. /\ buffer \in Seq(Documents) /\ Len(buffer) = Len(loader.buffer) + Len(docs)
      /\ \A i \in DOMAIN buffer :
           \/ i \in DOMAIN loader.buffer /\ buffer[i] = loader.buffer[i]
           \/ \E j \in DOMAIN docs : buffer[i] = docs[j]
  BY <1>1, <1>6, Joined
<1>10. /\ loader' = [loader EXCEPT
                       !.buffer = buffer,
                       !.doc = IF read < Len(Corpus[s]) THEN read ELSE 0,
                       !.at = IF read < Len(Corpus[s]) THEN s
                              ELSE NextFile(loader.files, s)]
       /\ UNCHANGED <<row, pos>>
  BY DEF Refill, docs
<1>11. NextFile(loader.files, s) \in loader.files
  BY <1>1, NextFileIsFile
<1> HIDE DEF buffer, read
<1>12. /\ loader' \in [files : SUBSET DOMAIN Corpus, at : Nat, doc : Nat,
                       buffer : Seq(Documents)]
       /\ loader'.files = loader.files /\ loader'.buffer = buffer
       /\ loader'.at \in loader.files
       /\ \/ loader'.at = s /\ loader'.doc = read /\ read < Len(Corpus[s])
          \/ loader'.doc = 0
  BY <1>1, <1>8, <1>9, <1>10, <1>11 DEF PackInv, LoaderTypeOK
<1>13. loader'.doc < Len(Corpus[loader'.at])
  <2>1. \A f \in DOMAIN Corpus : 0 < Len(Corpus[f])
    BY <1>2
  <2>2. QED
    BY <1>1, <1>12, <2>1
<1>14. \A i \in DOMAIN buffer : buffer[i].shard \in loader.files
  BY <1>1, <1>7, <1>9 DEF PackInv, LoaderTypeOK
<1>15. Len(buffer) < BufferSize + BatchDocs
  BY <1>1, <1>2, <1>6, <1>8, <1>9
<1>16. LoaderTypeOK'
  BY <1>10, <1>12, <1>13, <1>14, <1>15 DEF PackInv, LoaderTypeOK, Documents, Pieces
<1>17. QED
  BY <1>10, <1>12, <1>16 DEF PackInv, RowsPacked, RowFull, RowThrifty

\* The files a loader lists are those of its phase, and it has some from then on.
LoadInv ==
  /\ PackInv
  /\ loader.files \subseteq IF phase = "train" THEN TrainShards ELSE {ValShard}
  /\ loader.files = {} <=> pc \in {"off", "load", "list"}

\* No loader, and no row.
LEMMA NothingPacked ==
  /\ LoaderInit => PackInv /\ loader.files = {}
  /\ Off => PackInv' /\ loader'.files = {}
<1>1. /\ NoLoader \in [files : SUBSET DOMAIN Corpus, at : Nat, doc : Nat,
                       buffer : Seq(Documents)]
      /\ NoLoader.files = {} /\ NoLoader.buffer = <<>>
  BY DEF NoLoader
<1>2. /\ 0 \in 0..RowCapacity /\ <<>> \in Seq(Pieces) /\ 0 < BufferSize + BatchDocs
      /\ 0 <= RowCapacity
  BY LoaderAssumption DEF LoaderAssumption
<1>3. LoaderInit => PackInv /\ loader.files = {}
  BY <1>1, <1>2
     DEF LoaderInit, PackInv, LoaderTypeOK, RowsPacked, RowFull, RowThrifty
<1>4. Off => PackInv' /\ loader'.files = {}
  BY <1>1, <1>2
     DEF Off, PackInv, LoaderTypeOK, RowsPacked, RowFull, RowThrifty, Documents, Pieces
<1>5. QED
  BY <1>3, <1>4

\* A loader that begins is at the first of its files.
LEMMA BeginStepPacks ==
  ASSUME NEW p \in {"train", "eval"}, BeginLoader(p)
  PROVE  /\ PackInv' /\ loader'.files # {} /\ phase' = p
         /\ loader'.files \subseteq IF p = "train" THEN TrainShards ELSE {ValShard}
<1>1. /\ Files(p) \subseteq IF p = "train" THEN TrainShards ELSE {ValShard}
      /\ Files(p) \subseteq DOMAIN Corpus /\ Files(p) # {}
  BY PreparationAssumption, TrainerAssumption
     DEF PreparationAssumption, TrainerAssumption, BeginLoader, Files, TrainShards,
         ValShard, Shards
<1>2. Min(Files(p)) \in Files(p) /\ Files(p) \subseteq Nat
  BY <1>1, LoaderAssumption, MinIsLeast DEF LoaderAssumption
<1>3. /\ loader' = NewLoader(Files(p)) /\ row' = <<>> /\ pos' = 0 /\ phase' = p
  BY DEF BeginLoader
<1>4. /\ loader' \in [files : SUBSET DOMAIN Corpus, at : Nat, doc : Nat,
                      buffer : Seq(Documents)]
      /\ loader'.files = Files(p) /\ loader'.buffer = <<>> /\ loader'.doc = 0
      /\ loader'.at = Min(Files(p))
  <2>1. loader' = [files |-> Files(p), at |-> Min(Files(p)), doc |-> 0, buffer |-> <<>>]
    BY <1>3 DEF NewLoader
  <2>2. QED
    BY <1>1, <1>2, <2>1
<1>5. 0 < Len(Corpus[loader'.at])
  <2>1. \A f \in DOMAIN Corpus : 0 < Len(Corpus[f])
    BY LoaderAssumption DEF LoaderAssumption
  <2>2. QED
    BY <1>1, <1>2, <1>4, <2>1
<1>6. 0 \in 0..RowCapacity /\ 0 < BufferSize + BatchDocs /\ 0 <= RowCapacity
  BY LoaderAssumption DEF LoaderAssumption
<1>7. LoaderTypeOK'
  BY <1>1, <1>2, <1>3, <1>4, <1>5, <1>6 DEF LoaderTypeOK, Documents, Pieces
<1>8. QED
  BY <1>1, <1>3, <1>4, <1>6, <1>7 DEF PackInv, RowsPacked, RowFull, RowThrifty

\* Every step keeps the rows packed, and packed of documents of the right shards.
LEMMA LoadStep == HostInv /\ LoadInv /\ [Next]_vars => LoadInv'
<1> SUFFICES ASSUME HostInv, LoadInv, [Next]_vars
             PROVE  LoadInv'
  OBVIOUS
<1>1. ASSUME UNCHANGED <<loaderVars, phase>>,
             pc \in {"off", "load", "list"} <=> pc' \in {"off", "load", "list"}
      PROVE  LoadInv'
  BY <1>1 DEF LoadInv, PackInv, LoaderTypeOK, RowsPacked, RowFull, RowThrifty,
              Documents, Pieces, loaderVars
<1>2. ASSUME Off
      PROVE  LoadInv'
  <2>1. PackInv' /\ loader'.files = {} /\ pc' = "off"
    BY <1>2, NothingPacked DEF Off
  <2>2. QED
    BY <2>1 DEF LoadInv
<1>3. CASE Prepare /\ PrepareNext
  BY <1>1, <1>3 DEF Prepare, runVars
<1>4. CASE StartRun
  <2>1. /\ pc = "off" /\ pc' = "load" /\ phase' = "train" /\ UNCHANGED loaderVars
    BY <1>4 DEF StartRun, HostAt, loaderVars
  <2>2. PackInv' /\ loader' = loader
    BY <2>1 DEF LoadInv, PackInv, LoaderTypeOK, RowsPacked, RowFull, RowThrifty,
                Documents, Pieces, loaderVars
  <2>3. QED
    BY <2>1, <2>2 DEF LoadInv
<1>5. CASE LoadTokenizer
  BY <1>1, <1>5 DEF LoadTokenizer, Goto, HostAt
<1>6. CASE ListTraining
  <2>1. BeginLoader("train") /\ pc' = "pack"
    BY <1>6 DEF ListTraining, Goto
  <2>2. QED
    BY <2>1, BeginStepPacks DEF LoadInv
<1>7. CASE BeginEvaluation
  <2>1. BeginLoader("eval") /\ pc' = "pack"
    BY <1>7 DEF BeginEvaluation, Goto
  <2>2. QED
    BY <2>1, BeginStepPacks DEF LoadInv
<1>8. CASE Pack
  <2>1. pc = "pack" /\ pc' = "pack" /\ phase' = phase /\ (Refill \/ PackDocument)
    BY <1>8 DEF Pack, Goto, HostAt
  <2>2. loader.files # {} /\ PackInv
    BY <2>1 DEF LoadInv
  <2>3. PackInv' /\ loader'.files = loader.files
    BY <2>1, <2>2, RefillStep, PackDocumentStep
  <2>4. QED
    BY <2>1, <2>2, <2>3 DEF LoadInv
<1>9. CASE Split
  <2>1. /\ pc = "pack" /\ pc' = "send" /\ row' = <<>> /\ pos' = 0
        /\ UNCHANGED <<loader, phase>>
    BY <1>9 DEF Split, Goto, HostAt
  <2>2. 0 \in 0..RowCapacity /\ 0 <= RowCapacity
    BY LoaderAssumption DEF LoaderAssumption
  <2>3. QED
    BY <2>1, <2>2 DEF LoadInv, PackInv, LoaderTypeOK, RowsPacked, RowFull, RowThrifty,
                      Documents, Pieces
<1>10. CASE Send
  <2>1. pc = "send" /\ UNCHANGED <<loaderVars, phase>>
    BY <1>10 DEF Send, Goto, HostAt
  <2>2. pc' \in {"launch", "sync", "optimize"}
    <3>1. \/ phase = "eval"
          \/ phase = "train" /\ batch \in -1..(Accum - 1)
      BY <2>1 DEF HostInv
    <3>2. CASE phase = "eval"
      BY <1>10, <3>2 DEF Send, Goto
    <3>3. CASE phase = "train" /\ batch \in -1..(Accum - 1)
      <4>1. batch + 1 = 0 \/ batch + 1 \in 1..(Accum - 1) \/ batch + 1 = Accum
        BY <3>3, TrainerAssumption DEF TrainerAssumption
      <4>2. QED
        BY <1>10, <3>3, <4>1, TrainerAssumption DEF TrainerAssumption, Send, Goto
    <3>4. QED
      BY <3>1, <3>2, <3>3
  <2>3. QED
    BY <1>1, <2>1, <2>2
<1>11. CASE BeginStep \/ Launch \/ Optimize \/ EndStep
  BY <1>1, <1>11 DEF BeginStep, Launch, Optimize, EndStep, Goto, HostAt
<1>12. CASE ReadLosses
  BY <1>1, <1>2, <1>12 DEF ReadLosses, HostAt
<1>13. CASE LossExplodes \/ Raise \/ Killed
  BY <1>2, <1>13 DEF LossExplodes, Raise, Killed
<1>14. CASE Device
  BY <1>1, <1>14 DEF Device
<1>15. CASE UNCHANGED vars
  BY <1>1, <1>15 DEF vars, runVars
<1>16. QED
  BY <1>3, <1>4, <1>5, <1>6, <1>7, <1>8, <1>9, <1>10, <1>11, <1>12, <1>13, <1>14, <1>15
     DEF Next, Host

LEMMA LoadInit == Init => LoadInv
BY NothingPacked DEF Init, LoadInv

\* Rows are exactly full and waste as little as the buffered documents allow,
\* for every corpus, row length, buffer size and batch of documents.
THEOREM RowsPackedHold == Spec => []RowsPacked
<1>1. Init => HostInv /\ LoadInv
  BY LoadInit DEF Init, HostInv, NoBatch
<1>2. LoadInv => RowsPacked
  BY DEF LoadInv, PackInv
<1>3. QED
  BY <1>1, <1>2, HostStep, LoadStep, PTL DEF Spec

\* Neither the tokenizer nor the model ever sees the validation shard, and the
\* evaluation sees nothing else, whatever shards the preparations left.
THEOREM SplitsStayApart == Spec => []SplitsApart
<1>1. Init => PrepInv /\ HostInv /\ ScoreInv /\ LoadInv
  BY PrepInitInv, LoadInit DEF Init, HostInv, ScoreInv, NoBatch, Versions
<1>2. ScoreInv /\ LoadInv => SplitsApart
  BY DEF ScoreInv, LoadInv, PackInv, SplitsApart, Versions
<1>3. QED
  BY <1>1, <1>2, PrepStepOfAll, HostStep, ScoreStep, LoadStep, PTL DEF Spec

-----------------------------------------------------------------------------
(* Typing, and how much the device may have to do.                          *)

\* The most the stream holds, by where the program is.
Allowance ==
  IF phase = "eval" THEN (IF pc = "launch" THEN 2 ELSE 3)
  ELSE IF batch = -1 THEN 0
  ELSE IF pc \in {"pack", "send"} THEN 3 * batch + 1
  ELSE IF pc = "launch" THEN 3 * batch
  ELSE 3 * Accum

RestInv ==
  /\ step \in 0..(Uncounted + 1) /\ rate \in Nat /\ gpu \in Buffers
  /\ Len(stream) <= Allowance

\* The pinned buffer has the type of the device's.
LEMMA PinnedType ==
  HostInv => /\ cpu \in Buffers
             /\ \A h \in {1, 2} : cpu[h] \in NoBatch..(Accum + EvalBatches)
BY TrainerAssumption DEF TrainerAssumption, HostInv, Buffers, NoBatch, TrainPlaces, EvalPlaces

\* Every step keeps the rest of the types.
LEMMA RestStep ==
  HostInv /\ StreamInv /\ RateInv /\ RestInv /\ [Next]_vars => RestInv'
<1> SUFFICES ASSUME HostInv, StreamInv, RateInv, RestInv, [Next]_vars
             PROVE  RestInv'
  OBVIOUS
<1> USE TrainerAssumption DEF TrainerAssumption
<1>1. /\ <<-1, -1>> \in Buffers /\ <<0, 0>> \in Buffers
      /\ Len(stream) \in Nat /\ Len(<<>>) = 0 /\ batch \in Int
  BY DEF Buffers, NoBatch, StreamInv, HostInv
<1>2. HostInv'
  BY HostStep
<1>3. Allowance' \in Nat
  <2>1. batch' = -1 \/ batch' \in Nat
    BY <1>2 DEF HostInv, TrainPlaces, EvalPlaces
  <2>2. 3 * Accum \in Nat /\ (batch' \in Nat => 3 * batch' \in Nat)
    OBVIOUS
  <2>3. QED
    BY <2>1, <2>2 DEF Allowance
<1>4. ASSUME stream' = <<>>, UNCHANGED <<step, rate, gpu>>
      PROVE  RestInv'
  BY <1>1, <1>3, <1>4 DEF RestInv
<1>5. ASSUME UNCHANGED <<phase, pc, batch, gpu, stream, step, rate>>
      PROVE  RestInv'
  BY <1>5 DEF RestInv, Allowance
<1>6. CASE Prepare /\ PrepareNext
  BY <1>5, <1>6 DEF Prepare, runVars
<1>7. CASE StartRun \/ LoadTokenizer
  <2>1. pc \in {"off", "load"} /\ UNCHANGED <<stream, step, rate, gpu>>
    BY <1>7 DEF StartRun, LoadTokenizer, Goto, HostAt
  <2>2. QED
    BY <1>4, <2>1 DEF StreamInv, QuietInv
<1>8. CASE ListTraining \/ BeginEvaluation
  <2>1. /\ pc \in {"list", "evaluate"} /\ UNCHANGED <<stream, step, rate>>
        /\ gpu' = <<-1, -1>>
    BY <1>8 DEF ListTraining, BeginEvaluation, BeginLoader, Goto, HostAt, NoBatch
  <2>2. stream' = <<>>
    BY <2>1 DEF StreamInv, QuietInv
  <2>3. QED
    BY <1>1, <1>3, <2>1, <2>2 DEF RestInv
<1>9. CASE Pack
  BY <1>5, <1>9 DEF Pack, Goto, HostAt
<1>10. CASE Split
  BY <1>10 DEF Split, Goto, HostAt, RestInv, Allowance
<1>11. CASE Send
  <2>1. /\ pc = "send" /\ batch' = batch + 1 /\ UNCHANGED <<phase, gpu, step, rate>>
        /\ stream' = stream \o <<[op |-> "inputs"], [op |-> "targets"]>>
    BY <1>11 DEF Send, Goto, HostAt
  <2>2. Len(stream') = Len(stream) + 2
    <3>1. [op |-> "inputs"] \in Operations /\ [op |-> "targets"] \in Operations
      BY DEF Operations
    <3>2. QED
      BY <2>1, <3>1, Queue DEF StreamInv
  <2>3. CASE phase = "eval"
    <3>1. stream = <<>>
      BY <2>1, <2>3 DEF StreamInv, QuietInv
    <3>2. QED
      BY <1>1, <2>1, <2>2, <2>3, <3>1 DEF RestInv, Allowance
  <2>4. CASE phase = "train" /\ batch = -1
    <3>1. stream = <<>> /\ batch' = 0
      BY <2>1, <2>4 DEF StreamInv, QuietInv
    <3>2. pc' = "sync"
      BY <1>11, <2>4 DEF Send, Goto
    <3>3. QED
      BY <1>1, <2>1, <2>2, <2>4, <3>1, <3>2 DEF RestInv, Allowance
  <2>5. CASE phase = "train" /\ batch # -1
    <3>1. batch \in 0..(Accum - 1) /\ Len(stream) <= 3 * batch + 1
      BY <2>1, <2>5 DEF HostInv, RestInv, Allowance
    <3>2. CASE batch + 1 \in 1..(Accum - 1)
      <4>1. pc' = "launch"
        BY <1>11, <2>5, <3>1, <3>2 DEF Send, Goto
      <4>2. QED
        BY <1>1, <2>1, <2>2, <2>5, <3>1, <4>1 DEF RestInv, Allowance
    <3>3. CASE batch + 1 = Accum
      <4>1. pc' = "optimize"
        BY <1>11, <2>5, <3>1, <3>3 DEF Send, Goto
      <4>2. QED
        BY <1>1, <2>1, <2>2, <2>5, <3>1, <3>3, <4>1 DEF RestInv, Allowance
    <3>4. QED
      BY <3>1, <3>2, <3>3
  <2>6. QED
    BY <2>1, <2>3, <2>4, <2>5 DEF HostInv
<1>12. CASE BeginStep
  <2>1. /\ stream = <<>> /\ pc = "sync" /\ UNCHANGED <<stream, step, rate>>
        /\ gpu' = [i \in 1..2 |-> gpu[i] - batch]
    BY <1>12 DEF BeginStep, Idle, Goto, HostAt
  <2>2. gpu' = <<0, 0>>
    BY <2>1, IdleHasBatch
  <2>3. QED
    BY <1>1, <1>3, <2>1, <2>2 DEF RestInv
<1>13. CASE Launch
  <2>1. /\ pc = "launch" /\ UNCHANGED <<phase, batch, gpu, step, rate>>
        /\ pc' = (IF phase = "train" THEN "pack" ELSE "read")
        /\ stream' = Append(stream, [op |-> "pass", batch |-> batch])
    BY <1>13 DEF Launch, Goto, HostAt
  <2>2. batch \in 0..(Accum + EvalBatches) /\ phase \in {"train", "eval"}
    BY <2>1 DEF HostInv
  <2>3. Len(stream') = Len(stream) + 1
    <3>1. [op |-> "pass", batch |-> batch] \in Operations
      BY <2>2 DEF Operations
    <3>2. QED
      BY <2>1, <3>1, Queue DEF StreamInv
  <2>4. phase = "eval" => Len(stream) <= 2
    BY <2>1 DEF RestInv, Allowance
  <2>5. QED
    BY <1>1, <2>1, <2>2, <2>3, <2>4 DEF RestInv, Allowance
<1>14. CASE Optimize
  <2>1. /\ pc = "optimize" /\ pc' = "item" /\ phase = "train"
        /\ UNCHANGED <<phase, batch, gpu, stream, step>> /\ rate' = Multiplier(plan, total)
        /\ plan.budget # 0
    BY <1>14 DEF Optimize, Goto, HostAt, HostInv, EvalPlaces
  <2>2. plan \in Plans /\ total \in Nat /\ total < plan.budget
    BY <2>1 DEF RateInv
  <2>3. rate' \in Nat
    BY <2>1, <2>2, MultiplierBounds
  <2>4. QED
    BY <2>1, <2>3 DEF RestInv, Allowance
<1>15. CASE EndStep
  <2>1. /\ stream = <<>> /\ UNCHANGED <<gpu, stream, rate>>
        /\ step' = IF step > Uncounted THEN step ELSE step + 1
    BY <1>15 DEF EndStep, Idle
  <2>2. step' \in 0..(Uncounted + 1)
    BY <2>1 DEF RestInv
  <2>3. QED
    BY <1>1, <1>3, <2>1, <2>2 DEF RestInv
<1>16. ASSUME Off
       PROVE  RestInv'
  BY <1>1, <1>3, <1>16 DEF Off, NoBatch, RestInv
<1>17. CASE LossExplodes \/ Raise \/ Killed
  BY <1>16, <1>17 DEF LossExplodes, Raise, Killed
<1>18. CASE ReadLosses
  BY <1>4, <1>16, <1>18 DEF ReadLosses, Idle
<1>19. CASE Device
  <2>1. /\ stream # <<>> /\ stream' = Tail(stream)
        /\ UNCHANGED <<phase, pc, batch, cpu, step, rate>>
    BY <1>19 DEF Device
  <2>2. Len(stream') = Len(stream) - 1 /\ Head(stream) \in Operations
    BY <2>1, Queue DEF StreamInv
  <2>3. Head(stream).op \in {"inputs", "targets", "pass"}
    BY <2>2, OperationKinds
  <2>4. \/ gpu' = gpu
        \/ gpu' = [gpu EXCEPT ![1] = cpu[1]]
        \/ gpu' = [gpu EXCEPT ![2] = cpu[2]]
    BY <1>19, <2>3 DEF Device
  <2>5. gpu' \in Buffers
    BY <2>4, PinnedType DEF RestInv, Buffers
  <2>6. QED
    BY <1>1, <1>3, <2>1, <2>2, <2>5 DEF RestInv, Allowance
<1>20. CASE UNCHANGED vars
  BY <1>5, <1>20 DEF vars, runVars
<1>21. QED
  BY <1>6, <1>7, <1>8, <1>9, <1>10, <1>11, <1>12, <1>13, <1>14, <1>15, <1>17, <1>18,
     <1>19, <1>20 DEF Next, Host

\* The variables keep their types, and the stream holds at most a step's work.
THEOREM Typing == Spec => []TypeOK
<1>1. Init => PrepInv /\ HostInv /\ ScoreInv /\ RateInv /\ StreamInv /\ RestInv /\ LoadInv
  <2>1. Init => PrepInv /\ HostInv /\ ScoreInv
    BY PrepInitInv DEF Init, HostInv, ScoreInv, NoBatch, Versions
  <2>2. Init => RateInv
    BY DEF Init, RateInv, RateBounded
  <2>3. Init => RestInv
    BY TrainerAssumption
       DEF TrainerAssumption, Init, RestInv, Allowance, Buffers, NoBatch
  <2>4. QED
    BY <2>1, <2>2, <2>3, StreamInit, LoadInit
<1>2. PrepInv /\ HostInv /\ ScoreInv /\ RateInv /\ StreamInv /\ RestInv /\ LoadInv => TypeOK
  <2> SUFFICES ASSUME PrepInv, HostInv, ScoreInv, RateInv, StreamInv, RestInv, LoadInv
               PROVE  TypeOK
    OBVIOUS
  <2>1. PrepTypeOK /\ LoaderTypeOK /\ loaded \subseteq Shards /\ total \in Nat
    BY VersionIsComplete DEF PrepInv, ScoreInv, RateInv, LoadInv, PackInv
  <2>2. /\ phase \in {"off", "train", "eval"} /\ (phase = "off" <=> pc = "off")
    BY DEF HostInv, TrainPlaces, EvalPlaces
  <2>3. batch \in NoBatch..(Accum + EvalBatches)
    BY TrainerAssumption
       DEF TrainerAssumption, HostInv, NoBatch, TrainPlaces, EvalPlaces
  <2>4. \A i \in DOMAIN stream : stream[i] \in Operations
    BY DEF StreamInv
  <2>5. Len(stream) <= 3 * Accum
    BY TrainerAssumption
       DEF TrainerAssumption, HostInv, StreamInv, RestInv, Allowance, TrainPlaces, EvalPlaces
  <2>6. metrics \subseteq [tokenizer : SUBSET TrainShards, bytes : SUBSET TrainShards]
    BY DEF ScoreInv, Versions
  <2>7. QED
    BY <2>1, <2>2, <2>3, <2>4, <2>5, <2>6, PinnedType DEF TypeOK, RestInv
<1>3. QED
  BY <1>1, <1>2, PrepStepOfAll, HostStep, ScoreStep, RateStep, StreamStep, RestStep,
     LoadStep, PTL DEF Spec

-----------------------------------------------------------------------------
(* Without micro-batches.                                                   *)

\* Outside the evaluation the passes done and to be done are of batches the step
\* has launched: its last one is for the next step.
LaunchedInv ==
  phase # "eval" =>
    /\ \A s \in seen : s[1] \in 0..(Accum - 1)
    /\ \A i \in 1..Len(stream) :
         stream[i].op = "pass" => stream[i].batch \in 0..(Accum - 1)

\* Every step keeps to the batches of its step.
LEMMA LaunchedStep ==
  HostInv /\ StreamInv /\ LaunchedInv /\ [Next]_vars => LaunchedInv'
<1> SUFFICES ASSUME HostInv, StreamInv, LaunchedInv, [Next]_vars
             PROVE  LaunchedInv'
  OBVIOUS
<1>1. ASSUME UNCHANGED <<phase, stream>>, seen' = seen \/ seen' = {}
      PROVE  LaunchedInv'
  BY <1>1 DEF LaunchedInv
<1>2. ASSUME stream' = <<>>, phase' = "eval" \/ seen' = {}
      PROVE  LaunchedInv'
  BY <1>2 DEF LaunchedInv
<1>3. CASE Prepare /\ PrepareNext
  BY <1>1, <1>3 DEF Prepare, runVars
<1>4. CASE StartRun
  <2>1. phase = "off" /\ UNCHANGED <<stream, seen>>
    BY <1>4 DEF StartRun, HostAt, HostInv, TrainPlaces, EvalPlaces
  <2>2. QED
    BY <2>1 DEF LaunchedInv
<1>5. CASE ListTraining
  <2>1. phase = "train" /\ phase' = "train" /\ UNCHANGED <<stream, seen>>
    BY <1>5 DEF ListTraining, BeginLoader, Goto, HostAt, HostInv, EvalPlaces
  <2>2. QED
    BY <1>1, <2>1
<1>6. CASE LoadTokenizer \/ Pack \/ Split \/ Optimize \/ EndStep \/ BeginStep
  BY <1>1, <1>6
     DEF LoadTokenizer, Pack, Split, Optimize, EndStep, BeginStep, Goto, HostAt
<1>7. CASE Send
  <2>1. /\ stream' = stream \o <<[op |-> "inputs"], [op |-> "targets"]>>
        /\ UNCHANGED <<phase, seen>>
    BY <1>7 DEF Send
  <2>2. [op |-> "inputs"] \in Operations /\ [op |-> "targets"] \in Operations
    BY DEF Operations
  <2>3. /\ Len(stream') = Len(stream) + 2 /\ Len(stream) \in Nat
        /\ \A i \in 1..Len(stream) : stream'[i] = stream[i]
        /\ stream'[Len(stream) + 1].op = "inputs" /\ stream'[Len(stream) + 2].op = "targets"
    BY <2>1, <2>2, Queue DEF StreamInv
  <2>4. \A i \in 1..Len(stream') : \/ i \in 1..Len(stream)
                                   \/ i = Len(stream) + 1 \/ i = Len(stream) + 2
    BY <2>3
  <2>5. QED
    BY <2>1, <2>3, <2>4 DEF LaunchedInv
<1>8. CASE Launch
  <2>1. /\ stream' = Append(stream, [op |-> "pass", batch |-> batch]) /\ pc = "launch"
        /\ UNCHANGED <<phase, seen>>
    BY <1>8 DEF Launch, Goto, HostAt
  <2>2. phase # "eval" => phase = "train" /\ batch \in 0..(Accum - 1)
    BY <2>1 DEF HostInv
  <2>3. [op |-> "pass", batch |-> batch] \in Operations
    BY <2>1, TrainerAssumption DEF TrainerAssumption, HostInv, Operations
  <2>4. /\ Len(stream') = Len(stream) + 1 /\ Len(stream) \in Nat
        /\ \A i \in 1..Len(stream) : stream'[i] = stream[i]
        /\ stream'[Len(stream) + 1].batch = batch
    BY <2>1, <2>3, Queue DEF StreamInv
  <2>5. \A i \in 1..Len(stream') : i \in 1..Len(stream) \/ i = Len(stream) + 1
    BY <2>4
  <2>6. QED
    BY <2>1, <2>2, <2>4, <2>5 DEF LaunchedInv
<1>9. CASE BeginEvaluation
  <2>1. phase' = "eval"
    BY <1>9 DEF BeginEvaluation, BeginLoader
  <2>2. QED
    BY <2>1 DEF LaunchedInv
<1>10. CASE ReadLosses
  BY <1>1, <1>2, <1>10 DEF ReadLosses, Off
<1>11. CASE LossExplodes \/ Raise \/ Killed
  BY <1>2, <1>11 DEF LossExplodes, Raise, Killed, Off
<1>12. CASE Device
  <2>1. /\ stream # <<>> /\ stream' = Tail(stream) /\ phase' = phase
        /\ \/ seen' = seen
           \/ /\ Head(stream).op = "pass"
              /\ seen' = seen \cup {<<Head(stream).batch, gpu[1], gpu[2]>>}
    BY <1>12 DEF Device
  <2>2. /\ Len(stream) \in Nat /\ Len(stream) # 0 /\ Len(stream') = Len(stream) - 1
        /\ \A i \in 1..(Len(stream) - 1) : stream'[i] = stream[i + 1]
        /\ Head(stream) = stream[1]
    BY <2>1, Queue DEF StreamInv
  <2>3. ASSUME phase # "eval", stream[1].op = "pass"
        PROVE  <<stream[1].batch, gpu[1], gpu[2]>>[1] \in 0..(Accum - 1)
    BY <2>2, <2>3 DEF LaunchedInv
  <2>4. \A i \in 1..(Len(stream) - 1) : i + 1 \in 1..Len(stream)
    BY <2>2
  <2>5. QED
    BY <2>1, <2>2, <2>3, <2>4 DEF LaunchedInv
<1>13. CASE UNCHANGED vars
  BY <1>1, <1>13 DEF vars, runVars
<1>14. QED
  BY <1>3, <1>4, <1>5, <1>6, <1>7, <1>8, <1>9, <1>10, <1>11, <1>12, <1>13 DEF Next, Host

\* A step of one batch trains on what the loader yielded: the loader's race needs
\* a second micro-batch to be copied while the first is still to be seen.
THEOREM OneBatchTrainsOnYielded ==
  ASSUME Accum = 1
  PROVE  Spec => []TrainsOnYieldedBatch
<1>1. Init => HostInv /\ StreamInv /\ LaunchedInv
  BY StreamInit DEF Init, HostInv, NoBatch, LaunchedInv
<1>2. StreamInv /\ LaunchedInv => TrainsOnYieldedBatch
  <2> SUFFICES ASSUME StreamInv, LaunchedInv, NEW s \in seen
               PROVE  s[2] = s[1] /\ s[3] = s[1]
    BY DEF TrainsOnYieldedBatch
  <2>1. s[1] = 0 \/ phase = "eval"
    BY DEF LaunchedInv
  <2>2. QED
    BY <2>1 DEF StreamInv, BatchesInOrder
<1>3. QED
  BY <1>1, <1>2, HostStep, StreamStep, LaunchedStep, PTL DEF Spec
================================================================================
