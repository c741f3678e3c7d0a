--------------------------- MODULE ExperimentHarness ---------------------------
(***************************************************************************)
(* aep.research.autoresearch.harness.AutoresearchHarness: whether a run of *)
(* the trainer is retained.  A bits-per-byte value is a positive integer,  *)
(* in units small enough to tell a trivial gain from a sufficient one; the *)
(* evaluation may also yield NotANumber, and a crashed run reports 0.      *)
(***************************************************************************)
EXTENDS Integers

CONSTANTS
  Scores,          \* the finite bits-per-byte values a run may reach
  NotANumber,      \* the value of an evaluation that overflowed
  NoBaseline,      \* the baseline before one is established ("unknown")
  MinImprovement,  \* _MIN_BPB_IMPROVEMENT
  AcceptBelow      \* the value whose end_to_end_completion_rate is 0.5

ASSUME HarnessAssumption ==
  /\ Scores \subseteq Nat \ {0}
  /\ NotANumber \notin Int /\ NoBaseline \notin Int
  /\ NotANumber # NoBaseline
  /\ MinImprovement \in Nat \ {0}
  /\ AcceptBelow \in Nat \ {0}

\* baseline_bpb > 0 and val_bpb > 0: not-a-number compares false, "unknown"
\* does not parse, and 0 stands for a crash.
Comparable(baseline, val) == baseline \in Scores /\ val \in Scores

Improved(baseline, val) ==
  Comparable(baseline, val) /\ baseline - val >= MinImprovement

\* Mutant of Regressed: a regression within the threshold counts as noise.
RegressedClearly(baseline, val) ==
  Comparable(baseline, val) /\ val - baseline >= MinImprovement

Regressed(baseline, val) == Comparable(baseline, val) /\ baseline < val

\* to_metrics: max(0, 1 - val / 4) > 0.5.  A crashed run, at 0, meets it.
CompletionMet(val) == val # NotANumber /\ val < AcceptBelow

\* Mutant of Retains: the completion rate alone shields from a crash.
RetainsCrash(safe, crashed, baseline, val) ==
  /\ safe
  /\ \/ Improved(baseline, val)
     \/ ~Regressed(baseline, val) /\ CompletionMet(val)

\* evaluate: safety, then the crash, then the comparison with the baseline;
\* where that decides nothing (no baseline, or a gain below the threshold) the
\* completion rate does.
Retains(safe, crashed, baseline, val) ==
  /\ safe
  /\ ~(crashed /\ val = 0)
  /\ \/ Improved(baseline, val)
     \/ ~Regressed(baseline, val) /\ CompletionMet(val)
================================================================================
