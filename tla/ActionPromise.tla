----------------------------- MODULE ActionPromise -----------------------------
(***************************************************************************)
(* What the engine promises about every action: its status only moves      *)
(* along the documented life cycle, and the adapter is called at most      *)
(* once, while the action is EXECUTING.  Nothing is said of threads,       *)
(* policies, adapters or the audit log.                                    *)
(***************************************************************************)
EXTENDS Lifecycle, Naturals

CONSTANT ActionIds

VARIABLES status,       \* status[a]: where action a is in its life cycle
          invocations   \* invocations[a]: how often its adapter has been called

vars == <<status, invocations>>

Init == /\ status = [a \in ActionIds |-> "PROPOSED"]
        /\ invocations = [a \in ActionIds |-> 0]

\* One legal step of the life cycle.
Advance(a) ==
  /\ \E s \in ActionStatus :
       /\ ValidTransition(status[a], s)
       /\ status' = [status EXCEPT ![a] = s]
  /\ UNCHANGED invocations

\* The call of the adapter: the first, and there is no second.
Invoke(a) ==
  /\ status[a] = "EXECUTING"
  /\ invocations[a] = 0
  /\ invocations' = [invocations EXCEPT ![a] = 1]
  /\ UNCHANGED status

Next == \E a \in ActionIds : Advance(a) \/ Invoke(a)

Spec == Init /\ [][Next]_vars
================================================================================
