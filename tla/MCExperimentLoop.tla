---------------------------- MODULE MCExperimentLoop ----------------------------
(* A scale of scores: with MinImprovement = 2 and AcceptBelow = 4 it has gains *)
(* and losses on either side of both thresholds, and values on the bound.      *)
EXTENDS ExperimentLoop

MCScores == {2, 3, 4, 5, 7}
================================================================================
