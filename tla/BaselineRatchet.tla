---------------------------- MODULE BaselineRatchet ----------------------------
(***************************************************************************)
(* What the research loop promises of its baseline.  While experiments run *)
(* the baseline only ever gets better; a value takes the place of an       *)
(* absent one; anything else needs a baseline run or a new session.        *)
(***************************************************************************)
EXTENDS Integers

CONSTANT Values      \* the values that can be compared

VARIABLES
  best,              \* the baseline
  phase              \* "off", "experiments" or "baseline"

Start == phase = "off"

Step ==
  \/ phase = "experiments" /\ phase' # "off"
       /\ (best' # best =>
             /\ best' \in Values
             /\ best \in Values => best' < best)
  \/ phase = "baseline" /\ phase' # "off"
       /\ (best' # best => phase' = "baseline")
  \/ phase = "off" \/ phase' = "off"

Ratchet == Start /\ [][Step]_<<best, phase>>
================================================================================
