----------------------------- MODULE ExperimentLoop -----------------------------
(***************************************************************************)
(* aep.research.autoresearch.loop.ExperimentLoop.  A session is one loop   *)
(* object in one process: `aep research train' starts one with a fresh     *)
(* configuration, and runs either the baseline or experiments; a library   *)
(* caller does both, as the class's docstring shows.  A run of the trainer *)
(* is followed by a row in results.tsv, a line in the ledger, and, for a   *)
(* retained experiment, the new baseline.  The process may end between any *)
(* two of these; the two files stay, everything else is lost.              *)
(*                                                                         *)
(* Rows are appended whole.  A row of the ledger also carries the number   *)
(* of its session, which the code does not write: the properties need it.  *)
(***************************************************************************)
EXTENDS ExperimentHarness, Sequences

CONSTANTS
  MaxIterations,   \* config.max_iterations
  MaxRuns,         \* how many runs the trainer starts (bound)
  MaxSessions,     \* how many loop objects are made (bound)
  MaxFaults        \* how many appends fail (bound)

ASSUME LoopAssumption ==
  /\ MaxIterations \in Nat
  /\ MaxRuns \in Nat /\ MaxSessions \in Nat /\ MaxFaults \in Nat

VARIABLES
  pc,          \* where the session is
  mode,        \* the kind of the current run: "baseline" or "experiment"
  safety,      \* config.safety_checks: "passed", "failed", or "none" to make
  baseline,    \* _baseline_bpb
  iteration,   \* _iteration
  result,      \* val_bpb and crashed of the current run
  tsv,         \* the rows of results.tsv
  ledger,      \* the lines of experiment_ledger.jsonl
  runs,        \* how many runs were started: it names the current one
  session,     \* how many sessions were started: it names the current one
  faults       \* how many appends failed

vars == <<pc, mode, safety, baseline, iteration, result, tsv, ledger, runs,
          session, faults>>

Places == {"off", "ready", "training", "tsv", "ledger", "adopt"}

NoResult == [val |-> 0, crashed |-> FALSE]
CrashResult == [val |-> 0, crashed |-> TRUE]

Init ==
  /\ pc = "off" /\ mode = "experiment" /\ safety = "none"
  /\ baseline = NoBaseline /\ iteration = 0 /\ result = NoResult
  /\ tsv = <<>> /\ ledger = <<>>
  /\ runs = 0 /\ session = 0 /\ faults = 0

-----------------------------------------------------------------------------
(* Sessions.                                                                *)

\* ExperimentLoop(LoopConfig(...)): no baseline is configured, and none is
\* read from the files.
StartSession ==
  /\ pc = "off" /\ session < MaxSessions
  /\ pc' = "ready"
  /\ safety' \in {"passed", "failed", "none"}
  /\ baseline' = NoBaseline
  /\ iteration' = 0
  /\ session' = session + 1
  /\ UNCHANGED <<mode, result, tsv, ledger, runs, faults>>

\* The process ends, wherever it is.
StopSession ==
  /\ pc # "off"
  /\ pc' = "off" /\ mode' = "experiment" /\ safety' = "none"
  /\ baseline' = NoBaseline /\ iteration' = 0 /\ result' = NoResult
  /\ UNCHANGED <<tsv, ledger, runs, session, faults>>

-----------------------------------------------------------------------------
(* One run of the trainer.                                                  *)

Train(kind) ==
  /\ pc = "ready" /\ runs < MaxRuns
  /\ pc' = "training" /\ mode' = kind
  /\ runs' = runs + 1
  /\ UNCHANGED <<safety, baseline, iteration, result, tsv, ledger, session,
                 faults>>

RunBaseline == Train("baseline")

\* __next__, and run_one until the trainer is called.
RunOne == iteration < MaxIterations /\ Train("experiment")

\* Mutant of Returned: the baseline keeps its value after a crash.
ReturnedUnlessCrashed(r) ==
  /\ pc = "training"
  /\ pc' = "tsv"
  /\ result' = r
  /\ baseline' = IF mode = "baseline" /\ ~r.crashed THEN r.val ELSE baseline
  /\ UNCHANGED <<mode, safety, iteration, tsv, ledger, runs, session, faults>>

\* The trainer returns.  run_baseline takes the value over at once.
Returned(r) ==
  /\ pc = "training"
  /\ pc' = "tsv"
  /\ result' = r
  /\ baseline' = IF mode = "baseline" THEN r.val ELSE baseline
  /\ UNCHANGED <<mode, safety, iteration, tsv, ledger, runs, session, faults>>

Measured == \E v \in Scores \cup {NotANumber} :
              Returned([val |-> v, crashed |-> FALSE])

\* The loss exploded, or a dependency is missing.
Crashed == Returned(CrashResult)

\* An exception of the trainer or of an append reaches the caller, who may
\* use the loop again.
Abandon ==
  /\ pc' = "ready"
  /\ result' = NoResult
  /\ UNCHANGED <<mode, safety, baseline, iteration, tsv, ledger, runs, session>>

TrainerRaises == pc = "training" /\ Abandon /\ UNCHANGED faults

AppendFails ==
  /\ pc \in {"tsv", "ledger"} /\ faults < MaxFaults
  /\ faults' = faults + 1
  /\ Abandon

-----------------------------------------------------------------------------
(* The decision and its records.                                            *)

\* A crash fails every safety check there is; all() of none is true.
SafetyOk == IF result.crashed THEN safety = "none" ELSE safety # "failed"

Retained == Retains(SafetyOk, result.crashed, baseline, result.val)

\* Mutant of Status: the words of the sample table in examples/README.md.
StatusOfSample == IF mode = "baseline" \/ Retained THEN "retain" ELSE "revert"

\* The status column of results.tsv.
Status ==
  IF mode = "baseline" \/ Retained THEN "keep"
  ELSE IF result.crashed THEN "crash" ELSE "discard"

\* Mutant of AppendTsv: the row of a baseline run is left out.
AppendTsvExperiment ==
  /\ pc = "tsv"
  /\ pc' = "ledger"
  /\ tsv' = IF mode = "baseline" THEN tsv
            ELSE Append(tsv, [run |-> runs, val |-> result.val, status |-> Status])
  /\ UNCHANGED <<mode, safety, baseline, iteration, result, ledger, runs,
                 session, faults>>

\* _append_tsv.
AppendTsv ==
  /\ pc = "tsv"
  /\ pc' = "ledger"
  /\ tsv' = Append(tsv, [run |-> runs, val |-> result.val, status |-> Status])
  /\ UNCHANGED <<mode, safety, baseline, iteration, result, ledger, runs,
                 session, faults>>

\* The line for the ledger.
Entry ==
  [run |-> runs, session |-> session, kind |-> mode, val |-> result.val,
   decision |-> IF mode = "baseline" \/ Retained THEN "retain" ELSE "discard"]

\* _append_ledger; run_baseline returns then.
AppendLedger ==
  /\ pc = "ledger"
  /\ pc' = IF mode = "baseline" THEN "ready" ELSE "adopt"
  /\ ledger' = Append(ledger, Entry)
  /\ result' = IF mode = "baseline" THEN NoResult ELSE result
  /\ UNCHANGED <<mode, safety, baseline, iteration, tsv, runs, session, faults>>

\* Mutant of Adopt: whatever was measured becomes the baseline.
AdoptAlways ==
  /\ pc = "adopt"
  /\ pc' = "ready"
  /\ baseline' = IF result.crashed THEN baseline ELSE result.val
  /\ iteration' = iteration + 1
  /\ result' = NoResult
  /\ UNCHANGED <<mode, safety, tsv, ledger, runs, session, faults>>

\* The baseline follows a retained experiment, and run_one returns.
Adopt ==
  /\ pc = "adopt"
  /\ pc' = "ready"
  /\ baseline' = IF Retained /\ ~result.crashed THEN result.val ELSE baseline
  /\ iteration' = iteration + 1
  /\ result' = NoResult
  /\ UNCHANGED <<mode, safety, tsv, ledger, runs, session, faults>>

Next ==
  \/ StartSession \/ StopSession
  \/ RunBaseline \/ RunOne
  \/ Measured \/ Crashed \/ TrainerRaises
  \/ AppendTsv \/ AppendLedger \/ Adopt \/ AppendFails

Spec == Init /\ [][Next]_vars

-----------------------------------------------------------------------------
(* Properties.                                                              *)

Vals == Scores \cup {0, NotANumber}

Row == [run : Nat, val : Vals, status : {"keep", "crash", "discard"}]

Line == [run : Nat, session : Nat, kind : {"baseline", "experiment"},
         val : Vals, decision : {"retain", "discard"}]

\* The types of the loop's state; outside a run there is no result.
TypeOK ==
  /\ pc \in Places
  /\ mode \in {"baseline", "experiment"}
  /\ safety \in {"passed", "failed", "none"}
  /\ baseline \in Vals \cup {NoBaseline}
  /\ result \in [val : Vals, crashed : BOOLEAN]
  /\ iteration \in Nat /\ runs \in Nat /\ session \in Nat /\ faults \in Nat
  /\ tsv \in Seq(Row) /\ ledger \in Seq(Line)
  /\ pc \in {"off", "ready", "training"} => result = NoResult

Kept(i) == ledger[i].decision = "retain"

\* No crashed or overflowed experiment is ever retained, whatever the safety
\* checks are: not even where there are none, although a crash reports a
\* bits-per-byte of 0, better than any other.
OnlyScoresKept ==
  \A i \in DOMAIN ledger :
    Kept(i) /\ ledger[i].kind = "experiment" => ledger[i].val \in Scores

\* Every line of the ledger has its row in results.tsv, with the same value
\* and an agreeing status, wherever processes ended and appends failed.  (The
\* converse fails: a row may lack its line.)
LinesHaveRows ==
  \A i \in DOMAIN ledger : \E j \in DOMAIN tsv :
    /\ tsv[j].run = ledger[i].run
    /\ tsv[j].val = ledger[i].val
    /\ tsv[j].status = "keep" <=> Kept(i)

\* The last line the current session retained.
LastKept(i) ==
  /\ i \in DOMAIN ledger
  /\ ledger[i].session = session /\ Kept(i)
  /\ \A j \in DOMAIN ledger : j > i => ~Kept(j)

\* Between two runs the baseline in memory is the value of the session's last
\* retained line: who reads the ledger knows what the next experiment must
\* beat.  (A failed append breaks it: run_baseline sets the value first.)
LedgerTellsBaseline ==
  faults = 0 /\ pc = "ready" =>
    IF \E i \in DOMAIN ledger : LastKept(i)
    THEN \A i \in DOMAIN ledger : LastKept(i) => baseline = ledger[i].val
    ELSE baseline = NoBaseline

\* An experiment that a session retained is no worse than what the session
\* retained before it, and where its gain is below the threshold it is below
\* the acceptance value: trivial gains, even none, are retained there.
KeptIsNoWorse ==
  faults = 0 =>
    \A j \in DOMAIN ledger : \A i \in 1..(j - 1) :
      /\ Kept(i) /\ Kept(j) /\ ledger[j].kind = "experiment"
      /\ ledger[i].session = ledger[j].session
      /\ ledger[i].val \in Scores
      /\ \A k \in (i + 1)..(j - 1) : ~Kept(k)
      => /\ ledger[j].val <= ledger[i].val
         /\ \/ ledger[i].val - ledger[j].val >= MinImprovement
            \/ ledger[j].val < AcceptBelow

\* examples/README.md: "Regressing experiments automatically reverted".  A
\* retained experiment is no worse than the last line retained before it.
\* The baseline is lost with the session, so it fails across sessions.
RegressionsReverted ==
  \A j \in DOMAIN ledger : \A i \in 1..(j - 1) :
    /\ Kept(i) /\ Kept(j) /\ ledger[j].kind = "experiment"
    /\ ledger[i].val \in Scores
    /\ \A k \in (i + 1)..(j - 1) : ~Kept(k)
    => ledger[j].val <= ledger[i].val

\* The loop is a ratchet on its baseline.
Phase == IF pc = "off" THEN "off"
         ELSE IF mode = "baseline" /\ pc \in {"training", "tsv", "ledger"}
         THEN "baseline" ELSE "experiments"

Promise == INSTANCE BaselineRatchet
             WITH Values <- Scores, best <- baseline, phase <- Phase

KeepsRatchet == Promise!Ratchet
================================================================================
