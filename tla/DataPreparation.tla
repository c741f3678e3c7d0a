---------------------------- MODULE DataPreparation ----------------------------
(***************************************************************************)
(* `aep research prepare': aep.research.data.pipeline.download_data and    *)
(* train_tokenizer.  Worker processes download one shard each, through a   *)
(* temporary file that is renamed when it is complete; then a tokenizer is *)
(* trained on the shards there are and saved as two files, one after the   *)
(* other.  The command may fail or be killed at any point and be repeated, *)
(* with another number of shards.                                          *)
(*                                                                         *)
(* One such command runs at a time.  Any number of its workers run at      *)
(* once: they work on different shards and do not meet.                    *)
(***************************************************************************)
EXTENDS Integers

CONSTANTS
  MaxShard,   \* MAX_SHARD: training shards are numbered below it
  Attempts,   \* how often a worker tries: 5 in the code
  Absent,     \* the tokenizer file that is not there
  Partial     \* the tokenizer file that is being, or was partly, written

ASSUME PreparationAssumption ==
  /\ MaxShard \in Nat /\ Attempts \in Nat \ {0}
  /\ Absent # Partial
  /\ \A v \in SUBSET (0..MaxShard) : v \notin {Absent, Partial}

VARIABLES
  file,        \* the shards under their final names
  tmp,         \* and under their temporary names
  prep,        \* where the command is
  task,        \* where the worker of each shard is
  attempt,     \* its attempt
  trained,     \* the shards the new tokenizer was trained on
  tokenizer,   \* tokenizer.pkl: which shards it was trained on
  tokenBytes   \* token_bytes.pt, likewise

prepVars == <<file, tmp, prep, task, attempt, trained, tokenizer, tokenBytes>>

ValShard == MaxShard
Shards == 0..MaxShard
TrainShards == Shards \ {ValShard}

Contents == {"absent", "partial", "complete"}
Downloads == {"queued", "fetch", "write", "rename", "cleanup"}
Versions == SUBSET TrainShards

PrepInit ==
  /\ file = [s \in Shards |-> "absent"] /\ tmp = [s \in Shards |-> "absent"]
  /\ prep = "idle"
  /\ task = [s \in Shards |-> "none"] /\ attempt = [s \in Shards |-> 0]
  /\ trained = {} /\ tokenizer = Absent /\ tokenBytes = Absent

-----------------------------------------------------------------------------
(* download_data.                                                           *)

\* The shards a command wants: the first n, and the validation shard.
Ids(n) == (0..(n - 1)) \cup {ValShard}

\* download_data goes to the pool unless every shard is there.
StartPrepare(n) ==
  /\ prep = "idle"
  /\ IF \A s \in Ids(n) : file[s] # "absent"
     THEN prep' = "tokenizer" /\ UNCHANGED task
     ELSE /\ prep' = "download"
          /\ task' = [s \in Shards |-> IF s \in Ids(n) THEN "queued" ELSE "none"]
  /\ UNCHANGED <<file, tmp, attempt, trained, tokenizer, tokenBytes>>

\* pool.map returns; how many downloads succeeded is only printed.
PoolDone ==
  /\ prep = "download"
  /\ \A s \in Shards : task[s] \notin Downloads
  /\ prep' = "tokenizer"
  /\ task' = [s \in Shards |-> "none"]
  /\ UNCHANGED <<file, tmp, attempt, trained, tokenizer, tokenBytes>>

Work(s, from, to) ==
  /\ task[s] = from /\ task' = [task EXCEPT ![s] = to]
  /\ UNCHANGED <<prep, trained, tokenizer, tokenBytes>>

\* A worker takes up a shard; one that is there needs nothing.
Begin(s) ==
  IF file[s] # "absent"
  THEN Work(s, "queued", "done") /\ UNCHANGED <<file, tmp, attempt>>
  ELSE /\ Work(s, "queued", "fetch")
       /\ attempt' = [attempt EXCEPT ![s] = 1]
       /\ UNCHANGED <<file, tmp>>

\* Mutant of OpenTmp: the download goes to the final name.
OpenFinal(s) ==
  /\ Work(s, "fetch", "write")
  /\ file' = [file EXCEPT ![s] = "partial"]
  /\ UNCHANGED <<tmp, attempt>>

\* The server answers, and the temporary file is opened for writing.
OpenTmp(s) ==
  /\ Work(s, "fetch", "write")
  /\ tmp' = [tmp EXCEPT ![s] = "partial"]
  /\ UNCHANGED <<file, attempt>>

\* The last chunk is written.  (A body cut short raises.)
WriteAll(s) ==
  /\ Work(s, "write", "rename")
  /\ tmp' = [tmp EXCEPT ![s] = "complete"]
  /\ UNCHANGED <<file, attempt>>

Rename(s) ==
  /\ Work(s, "rename", "done")
  /\ file' = [file EXCEPT ![s] = tmp[s]]
  /\ tmp' = [tmp EXCEPT ![s] = "absent"]
  /\ attempt' = [attempt EXCEPT ![s] = 0]

\* The request, a chunk, the disk or the rename raises.
AttemptFails(s) ==
  /\ \E from \in {"fetch", "write", "rename"} : Work(s, from, "cleanup")
  /\ UNCHANGED <<file, tmp, attempt>>

\* Mutant of Cleanup: it goes on trying.
CleanupForever(s) ==
  /\ Work(s, "cleanup", "fetch")
  /\ tmp' = [tmp EXCEPT ![s] = "absent"]
  /\ UNCHANGED <<file, attempt>>

\* Both names are removed (a removal that fails is ignored), and the worker
\* tries again or gives up.
Cleanup(s) ==
  /\ Work(s, "cleanup", IF attempt[s] < Attempts THEN "fetch" ELSE "done")
  /\ attempt' = [attempt EXCEPT ![s] = IF @ < Attempts THEN @ + 1 ELSE 0]
  /\ \E left \in {"absent", tmp[s]} : tmp' = [tmp EXCEPT ![s] = left]
  /\ file' = [file EXCEPT ![s] = "absent"]

-----------------------------------------------------------------------------
(* train_tokenizer.                                                         *)

\* Mutant of AlreadyTrained: the files on disk are not looked at, and every
\* preparation trains the tokenizer anew.
NeverTrained == FALSE

AlreadyTrained == tokenizer # Absent /\ tokenBytes # Absent

SkipTokenizer ==
  /\ prep = "tokenizer" /\ AlreadyTrained
  /\ prep' = "idle"
  /\ UNCHANGED <<file, tmp, task, attempt, trained, tokenizer, tokenBytes>>

\* Mutant of TrainTexts: every parquet file is read.
AllTexts == {s \in Shards : file[s] # "absent"}

\* _text_iterator reads every shard but the one for validation.
TrainTexts == {s \in TrainShards : file[s] # "absent"}

\* The tokenizer is trained, and tokenizer.pkl opened for writing.
TrainTokenizer ==
  /\ prep = "tokenizer" /\ ~AlreadyTrained
  /\ prep' = "save_tokenizer"
  /\ trained' = TrainTexts
  /\ tokenizer' = Partial
  /\ UNCHANGED <<file, tmp, task, attempt, tokenBytes>>

\* Mutant of SaveTokenizer: the pickle is still in the writer's buffer.
SaveBuffered ==
  /\ prep = "save_tokenizer"
  /\ prep' = "open_bytes"
  /\ UNCHANGED <<file, tmp, task, attempt, trained, tokenizer, tokenBytes>>

\* tokenizer.pkl is closed; the bytes of each token are listed.
SaveTokenizer ==
  /\ prep = "save_tokenizer"
  /\ prep' = "open_bytes"
  /\ tokenizer' = trained
  /\ UNCHANGED <<file, tmp, task, attempt, trained, tokenBytes>>

\* token_bytes.pt is opened for writing.
OpenBytes ==
  /\ prep = "open_bytes"
  /\ prep' = "save_bytes"
  /\ tokenBytes' = Partial
  /\ UNCHANGED <<file, tmp, task, attempt, trained, tokenizer>>

SaveBytes ==
  /\ prep = "save_bytes"
  /\ prep' = "idle"
  /\ tokenBytes' = trained
  /\ trained' = {}
  /\ UNCHANGED <<file, tmp, task, attempt, tokenizer>>

\* The command is killed or raises; its workers go with it.
PrepareStops ==
  /\ prep # "idle"
  /\ prep' = "idle"
  /\ task' = [s \in Shards |-> "none"] /\ attempt' = [s \in Shards |-> 0]
  /\ trained' = {}
  /\ UNCHANGED <<file, tmp, tokenizer, tokenBytes>>

Download(s) ==
  /\ prep = "download"
  /\ \/ Begin(s) \/ OpenTmp(s) \/ WriteAll(s) \/ Rename(s)
     \/ AttemptFails(s) \/ Cleanup(s)

PrepareStep ==
  \/ \E s \in Shards : Download(s)
  \/ PoolDone
  \/ SkipTokenizer \/ TrainTokenizer \/ SaveTokenizer \/ OpenBytes \/ SaveBytes

PrepareNext ==
  \/ \E n \in 0..MaxShard : StartPrepare(n)
  \/ PrepareStep \/ PrepareStops

-----------------------------------------------------------------------------
(* Properties.                                                              *)

PrepTypeOK ==
  /\ file \in [Shards -> Contents] /\ tmp \in [Shards -> Contents]
  /\ prep \in {"idle", "download", "tokenizer", "save_tokenizer",
              "open_bytes", "save_bytes"}
  /\ task \in [Shards -> Downloads \cup {"none", "done"}]
  /\ attempt \in [Shards -> 0..Attempts]
  /\ trained \in SUBSET Shards
  /\ tokenizer \in (SUBSET Shards) \cup {Absent, Partial}
  /\ tokenBytes \in (SUBSET Shards) \cup {Absent, Partial}

\* A shard under its final name is complete, however often downloads fail,
\* are killed, and are tried again over what they left.
FinalsComplete == \A s \in Shards : file[s] # "partial"

\* The two files of the tokenizer belong together: token_bytes.pt is only
\* there next to a complete tokenizer.pkl, and if complete, of the same
\* training.  (It may be partial for ever: the next command takes it as it is.)
TokenizerPair ==
  tokenBytes # Absent =>
    /\ tokenizer \notin {Absent, Partial}
    /\ tokenBytes \in {Partial, tokenizer}

\* Every command ends: retries are bounded, and each attempt has a timeout.
PrepareEnds == prep # "idle" ~> prep = "idle"
================================================================================
