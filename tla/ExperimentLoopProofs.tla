-------------------------- MODULE ExperimentLoopProofs --------------------------
(***************************************************************************)
(* Theorems about ExperimentLoop, for every set of scores, every threshold *)
(* and any number of sessions, runs and failing appends.                   *)
(***************************************************************************)
EXTENDS ExperimentLoop, TLAPS

-----------------------------------------------------------------------------
(* Operators.                                                               *)

\* What an append does to a file.
LEMMA Appended ==
  ASSUME NEW S, NEW s \in Seq(S), NEW e \in S
  PROVE  /\ Append(s, e) \in Seq(S)
         /\ DOMAIN s = 1..Len(s) /\ Len(s) \in Nat
         /\ Len(Append(s, e)) = Len(s) + 1
         /\ DOMAIN Append(s, e) = 1..(Len(s) + 1)
         /\ \A i \in 1..Len(s) : Append(s, e)[i] = s[i]
         /\ Append(s, e)[Len(s) + 1] = e
OBVIOUS

\* A run that reports a crash exactly when it reports 0.
HonestResult ==
  /\ result \in [val : Vals, crashed : BOOLEAN]
  /\ result.crashed <=> result.val = 0

\* A retained value is a finite score, and no worse than the baseline it was
\* compared with; a gain below the threshold is below the acceptance value.
LEMMA RetainedIsScore ==
  ASSUME HonestResult, Retained
  PROVE  /\ result.val \in Scores /\ ~result.crashed
         /\ baseline \in Scores =>
              /\ result.val <= baseline
              /\ \/ baseline - result.val >= MinImprovement
                 \/ result.val < AcceptBelow
<1>1. ~result.crashed /\ result.val # 0
  BY DEF HonestResult, Retained, Retains
<1>2. \/ Improved(baseline, result.val)
      \/ /\ ~Regressed(baseline, result.val)
         /\ CompletionMet(result.val)
  BY DEF Retained, Retains
<1>3. result.val \in Scores
  BY <1>1, <1>2, HarnessAssumption
     DEF HonestResult, Vals, Improved, Comparable, CompletionMet
<1>4. ASSUME baseline \in Scores
      PROVE  /\ result.val <= baseline
             /\ baseline - result.val >= MinImprovement \/ result.val < AcceptBelow
  <2>1. /\ baseline \in Nat /\ result.val \in Nat
        /\ MinImprovement \in Nat \ {0} /\ Comparable(baseline, result.val)
    BY <1>3, <1>4, HarnessAssumption DEF HarnessAssumption, Comparable
  <2>2. CASE baseline - result.val >= MinImprovement
    BY <2>1, <2>2
  <2>3. CASE ~Regressed(baseline, result.val) /\ CompletionMet(result.val)
    BY <2>1, <2>3 DEF Regressed, CompletionMet
  <2>4. QED
    BY <1>2, <2>1, <2>2, <2>3 DEF Improved
<1>5. QED
  BY <1>1, <1>3, <1>4

-----------------------------------------------------------------------------
(* Typing, with what a place in the loop says of the run.                   *)

RunInv ==
  /\ pc \in {"tsv", "ledger", "adopt"} => HonestResult
  /\ pc = "adopt" => mode = "experiment"

TypeInv == TypeOK /\ RunInv

\* The first state is well typed.
LEMMA TypeInit == Init => TypeInv
BY DEF Init, TypeInv, TypeOK, RunInv, Places, NoResult, Vals, Row, Line

\* Every step keeps the types, and a run reports 0 exactly when it crashes.
LEMMA TypeStep == TypeInv /\ [Next]_vars => TypeInv'
<1> SUFFICES ASSUME TypeInv, [Next]_vars
             PROVE  TypeInv'
  OBVIOUS
<1> USE DEF TypeInv, RunInv
<1>1. CASE StartSession
  BY <1>1 DEF StartSession, TypeOK, Places
<1>2. CASE StopSession
  BY <1>2 DEF StopSession, TypeOK, Places, NoResult, Vals
<1>3. ASSUME NEW kind \in {"baseline", "experiment"}, Train(kind)
      PROVE  TypeInv'
  BY <1>3 DEF Train, TypeOK, Places
<1>4. ASSUME NEW r \in [val : Vals, crashed : BOOLEAN],
             r.crashed <=> r.val = 0, Returned(r)
      PROVE  TypeInv'
  BY <1>4 DEF Returned, TypeOK, Places, HonestResult
<1>5. CASE Measured
  <2>1. PICK v \in Scores \cup {NotANumber} : Returned([val |-> v, crashed |-> FALSE])
    BY <1>5 DEF Measured
  <2>2. v \in Vals /\ v # 0
    BY HarnessAssumption DEF HarnessAssumption, Vals
  <2>3. QED
    BY <1>4, <2>1, <2>2
<1>6. CASE Crashed
  <2>1. CrashResult \in [val : Vals, crashed : BOOLEAN]
        /\ CrashResult.crashed /\ CrashResult.val = 0
    BY DEF CrashResult, Vals
  <2>2. QED
    BY <1>4, <1>6, <2>1 DEF Crashed
<1>7. ASSUME Abandon, faults' \in Nat
      PROVE  TypeInv'
  BY <1>7 DEF Abandon, TypeOK, Places, NoResult, Vals
<1>8. CASE TrainerRaises
  BY <1>7, <1>8 DEF TrainerRaises, TypeOK
<1>9. CASE AppendFails
  BY <1>7, <1>9 DEF AppendFails, TypeOK
<1>10. CASE AppendTsv
  <2>1. Status \in {"keep", "crash", "discard"}
    BY DEF Status
  <2>2. [run |-> runs, val |-> result.val, status |-> Status] \in Row
    BY <2>1 DEF TypeOK, Row
  <2>3. tsv' \in Seq(Row)
    BY <1>10, <2>2, Appended DEF AppendTsv, TypeOK
  <2>4. QED
    BY <1>10, <2>3 DEF AppendTsv, TypeOK, Places, HonestResult
<1>11. CASE AppendLedger
  <2>1. Entry \in Line
    BY DEF TypeOK, Line, Entry
  <2>2. ledger' \in Seq(Line)
    BY <1>11, <2>1, Appended DEF AppendLedger, TypeOK
  <2>3. QED
    BY <1>11, <2>2 DEF AppendLedger, TypeOK, Places, NoResult, Vals, HonestResult
<1>12. CASE Adopt
  BY <1>12 DEF Adopt, TypeOK, Places, NoResult, Vals
<1>13. CASE UNCHANGED vars
  BY <1>13 DEF vars, TypeOK, HonestResult
<1>14. QED
  BY <1>1, <1>2, <1>3, <1>5, <1>6, <1>8, <1>9, <1>10, <1>11, <1>12, <1>13
     DEF Next, RunBaseline, RunOne

\* The loop's state keeps its types through any number of runs and sessions.
THEOREM Typing == Spec => []TypeOK
<1>1. TypeInv => TypeOK
  BY DEF TypeInv
<1>2. QED
  BY TypeInit, TypeStep, <1>1, PTL DEF Spec

-----------------------------------------------------------------------------
(* The two files.                                                           *)

TsvRow == [run |-> runs, val |-> result.val, status |-> Status]

\* Before the line of a run is appended, its row is there.
FilesInv ==
  /\ OnlyScoresKept
  /\ LinesHaveRows
  /\ pc = "ledger" => \E j \in DOMAIN tsv : tsv[j] = TsvRow

\* There are no lines at the start.
LEMMA FilesInit == Init => FilesInv
BY DEF Init, FilesInv, OnlyScoresKept, LinesHaveRows

\* A step that appends nothing leaves the claims about the files alone.
LEMMA FilesUntouched ==
  ASSUME FilesInv, UNCHANGED <<tsv, ledger>>,
         pc' # "ledger" \/ UNCHANGED <<pc, runs, result, mode, safety, baseline>>
  PROVE  FilesInv'
<1>1. OnlyScoresKept' /\ LinesHaveRows'
  BY DEF FilesInv, OnlyScoresKept, LinesHaveRows, Kept
<1>2. CASE pc' = "ledger"
  <2>1. TsvRow' = TsvRow /\ pc = "ledger"
    BY <1>2 DEF TsvRow, Status, Retained, SafetyOk, Retains, Improved, Regressed,
                CompletionMet, Comparable
  <2>2. QED
    BY <1>1, <2>1 DEF FilesInv
<1>3. QED
  BY <1>1, <1>2 DEF FilesInv

\* Every step keeps the claims about the files.
LEMMA FilesStep == TypeInv /\ FilesInv /\ [Next]_vars => FilesInv'
<1> SUFFICES ASSUME TypeInv, FilesInv, [Next]_vars
             PROVE  FilesInv'
  OBVIOUS
<1>1. CASE AppendTsv
  <2>1. TsvRow \in Row
    <3>1. Status \in {"keep", "crash", "discard"}
      BY DEF Status
    <3>2. QED
      BY <3>1 DEF TsvRow, Row, TypeInv, TypeOK
  <2>2. tsv' = Append(tsv, TsvRow) /\ tsv \in Seq(Row)
    BY <1>1 DEF AppendTsv, TsvRow, TypeInv, TypeOK
  <2>3. /\ DOMAIN tsv = 1..Len(tsv) /\ Len(tsv) \in Nat
        /\ DOMAIN tsv' = 1..(Len(tsv) + 1)
        /\ \A j \in 1..Len(tsv) : tsv'[j] = tsv[j]
        /\ tsv'[Len(tsv) + 1] = TsvRow
    BY <2>1, <2>2, Appended
  <2>4. UNCHANGED <<ledger, runs, result, mode, safety, baseline>>
    BY <1>1 DEF AppendTsv
  <2>5. TsvRow' = TsvRow
    BY <2>4 DEF TsvRow, Status, Retained, SafetyOk, Retains, Improved, Regressed,
                CompletionMet, Comparable
  <2>6. \E j \in DOMAIN tsv' : tsv'[j] = TsvRow'
    BY <2>3, <2>5
  <2>7. LinesHaveRows'
    BY <2>3, <2>4 DEF FilesInv, LinesHaveRows, Kept
  <2>8. OnlyScoresKept'
    BY <2>4 DEF FilesInv, OnlyScoresKept, Kept
  <2>9. QED
    BY <2>6, <2>7, <2>8 DEF FilesInv
<1>2. CASE AppendLedger
  <2>1. Entry \in Line
    BY DEF TypeInv, TypeOK, Line, Entry
  <2>2. ledger' = Append(ledger, Entry) /\ ledger \in Seq(Line) /\ pc = "ledger"
    BY <1>2 DEF AppendLedger, TypeInv, TypeOK
  <2>3. /\ DOMAIN ledger = 1..Len(ledger) /\ Len(ledger) \in Nat
        /\ DOMAIN ledger' = 1..(Len(ledger) + 1)
        /\ \A j \in 1..Len(ledger) : ledger'[j] = ledger[j]
        /\ ledger'[Len(ledger) + 1] = Entry
    BY <2>1, <2>2, Appended
  <2>4. UNCHANGED tsv /\ pc' # "ledger"
    BY <1>2 DEF AppendLedger
  <2>5. OnlyScoresKept'
    <3>1. Entry.decision = "retain" /\ Entry.kind = "experiment"
            => Entry.val \in Scores
      BY <2>2, RetainedIsScore DEF Entry, TypeInv, RunInv
    <3>2. QED
      BY <2>3, <3>1 DEF FilesInv, OnlyScoresKept, Kept
  <2>6. LinesHaveRows'
    <3>1. PICK j \in DOMAIN tsv : tsv[j] = TsvRow
      BY <2>2 DEF FilesInv
    <3>2. /\ tsv[j].run = Entry.run /\ tsv[j].val = Entry.val
          /\ tsv[j].status = "keep" <=> Entry.decision = "retain"
      BY <3>1 DEF TsvRow, Entry, Status
    <3>3. QED
      BY <2>3, <2>4, <3>2 DEF FilesInv, LinesHaveRows, Kept
  <2>7. QED
    BY <2>4, <2>5, <2>6 DEF FilesInv
<1>3. CASE ~AppendTsv /\ ~AppendLedger
  <2>1. UNCHANGED <<tsv, ledger>>
    BY <1>3 DEF Next, vars, StartSession, StopSession, RunBaseline, RunOne, Train,
                Measured, Crashed, Returned, TrainerRaises, AppendFails, Abandon, Adopt
  <2>2. pc' # "ledger" \/ UNCHANGED <<pc, runs, result, mode, safety, baseline>>
    BY <1>3 DEF Next, vars, StartSession, StopSession, RunBaseline, RunOne, Train,
                Measured, Crashed, Returned, TrainerRaises, AppendFails, Abandon, Adopt
  <2>3. QED
    BY <2>1, <2>2, FilesUntouched
<1>4. QED
  BY <1>1, <1>2, <1>3

\* The claims about the files hold in every reachable state.
LEMMA FilesInvariance == Spec => []FilesInv
BY TypeInit, TypeStep, FilesInit, FilesStep, PTL DEF Spec

\* No crashed or overflowed experiment is retained, however sessions end and
\* appends fail.
THEOREM OnlyScoresKeptHolds == Spec => []OnlyScoresKept
<1>1. FilesInv => OnlyScoresKept
  BY DEF FilesInv
<1>2. QED
  BY FilesInvariance, <1>1, PTL

\* Every line of the ledger has its row in results.tsv.
THEOREM LinesHaveRowsHolds == Spec => []LinesHaveRows
<1>1. FilesInv => LinesHaveRows
  BY DEF FilesInv
<1>2. QED
  BY FilesInvariance, <1>1, PTL

-----------------------------------------------------------------------------
(* The ratchet.                                                             *)

\* The loop starts where the ratchet does.
LEMMA RatchetInit == Init => Promise!Start
BY DEF Init, Promise!Start, Phase

\* Every step of the loop is a step of the ratchet, or none.
LEMMA RatchetStep ==
  TypeInv /\ [Next]_vars => [Promise!Step]_<<baseline, Phase>>
<1> SUFFICES ASSUME TypeInv, [Next]_vars
             PROVE  Promise!Step \/ UNCHANGED <<baseline, Phase>>
  BY DEF Promise!Step
<1>1. CASE StartSession \/ StopSession
  BY <1>1 DEF StartSession, StopSession, Promise!Step, Phase
<1>2. CASE Adopt
  <2>1. /\ Phase = "experiments" /\ Phase' = "experiments"
        /\ HonestResult
    BY <1>2 DEF Adopt, Phase, TypeInv, RunInv
  <2>2. baseline' # baseline =>
          /\ baseline' = result.val /\ result.val \in Scores
          /\ baseline \in Scores => result.val <= baseline
    BY <1>2, <2>1, RetainedIsScore DEF Adopt
  <2>3. baseline' # baseline =>
          baseline' \in Scores /\ (baseline \in Scores => baseline' < baseline)
    <3>1. ASSUME NEW old \in Scores, NEW new \in Scores, new <= old, new # old
          PROVE  new < old
      BY <3>1, HarnessAssumption DEF HarnessAssumption
    <3>2. QED
      BY <2>2, <3>1
  <2>4. QED
    BY <2>1, <2>3 DEF Promise!Step
<1>3. ASSUME NEW r, Returned(r)
      PROVE  Promise!Step \/ UNCHANGED <<baseline, Phase>>
  BY <1>3 DEF Returned, Promise!Step, Phase
<1>4. CASE Measured \/ Crashed
  BY <1>3, <1>4 DEF Measured, Crashed
<1>5. CASE RunBaseline \/ RunOne
  BY <1>5 DEF RunBaseline, RunOne, Train, Promise!Step, Phase
<1>6. CASE TrainerRaises \/ AppendFails
  BY <1>6 DEF TrainerRaises, AppendFails, Abandon, Promise!Step, Phase
<1>7. CASE AppendTsv \/ AppendLedger
  BY <1>7 DEF AppendTsv, AppendLedger, Promise!Step, Phase
<1>8. CASE UNCHANGED vars
  BY <1>8 DEF vars, Phase
<1>9. QED
  BY <1>1, <1>2, <1>4, <1>5, <1>6, <1>7, <1>8 DEF Next

\* The loop is a ratchet on its baseline: while experiments run it only gets
\* better.
THEOREM LoopIsRatchet == Spec => KeepsRatchet
BY TypeInit, TypeStep, RatchetInit, RatchetStep, PTL
   DEF Spec, KeepsRatchet, Promise!Ratchet

-----------------------------------------------------------------------------
(* The ledger and the baseline.                                             *)

\* b is the value of the last line the session retained, or the absent one.
Told(b) ==
  IF \E i \in DOMAIN ledger : LastKept(i)
  THEN \A i \in DOMAIN ledger : LastKept(i) => b = ledger[i].val
  ELSE b = NoBaseline

\* While a run is recorded the ledger tells the baseline there was, or will be.
BaselineInv ==
  /\ \A i \in DOMAIN ledger : ledger[i].session <= session
  /\ faults = 0 =>
       /\ pc \in {"ready", "training"} => Told(baseline)
       /\ pc \in {"tsv", "ledger"} =>
            IF mode = "baseline" THEN baseline = result.val ELSE Told(baseline)
       /\ pc = "adopt" => Told(IF Retained THEN result.val ELSE baseline)

\* A session begins with no line of its own, and without a baseline.
LEMMA ToldAtStart ==
  ASSUME TypeInv, BaselineInv, UNCHANGED ledger, session' = session + 1
  PROVE  Told(NoBaseline)'
<1>1. ASSUME NEW i \in DOMAIN ledger
      PROVE  ledger[i].session # session'
  <2>1. ledger[i].session \in Nat /\ ledger[i].session <= session /\ session \in Nat
    <3>1. ledger[i] \in Line
      BY DEF TypeInv, TypeOK
    <3>2. QED
      BY <3>1 DEF Line, BaselineInv, TypeInv, TypeOK
  <2>2. QED
    BY <2>1
<1>2. QED
  BY <1>1 DEF Told, LastKept

\* Where neither the ledger nor the session changes it tells the same.
LEMMA ToldUnchanged ==
  ASSUME UNCHANGED <<ledger, session>>
  PROVE  \A b : Told(b) => Told(b)'
BY DEF Told, LastKept, Kept

\* A retained line is what the ledger tells from then on; another changes nothing.
LEMMA ToldAppended ==
  ASSUME ledger \in Seq(Line), NEW e \in Line, e.session = session,
         ledger' = Append(ledger, e), UNCHANGED session
  PROVE  \A b : IF e.decision = "retain" THEN b = e.val => Told(b)'
                                         ELSE Told(b) => Told(b)'
<1>0. PICK n : n = Len(ledger)
  OBVIOUS
<1>1. /\ DOMAIN ledger = 1..n /\ n \in Nat
      /\ DOMAIN ledger' = 1..(n + 1)
      /\ \A i \in 1..n : ledger'[i] = ledger[i]
      /\ ledger'[n + 1] = e
  BY <1>0, Appended
<1>2. CASE e.decision = "retain"
  <2>1. Kept(n + 1)'
    BY <1>1, <1>2 DEF Kept
  <2>2. LastKept(n + 1)'
    BY <1>1, <2>1 DEF LastKept
  <2>3. \A i \in DOMAIN ledger' : LastKept(i)' => i = n + 1
    BY <1>1, <2>1 DEF LastKept
  <2>4. QED
    BY <1>1, <1>2, <2>2, <2>3 DEF Told
<1>3. CASE e.decision # "retain"
  <2>1. ~Kept(n + 1)'
    BY <1>1, <1>3 DEF Kept
  <2>2. \A i \in DOMAIN ledger : Kept(i)' <=> Kept(i)
    BY <1>1 DEF Kept
  <2>3. \A i \in DOMAIN ledger : LastKept(i)' <=> LastKept(i)
    BY <1>1, <2>1, <2>2 DEF LastKept
  <2>4. \A i \in DOMAIN ledger' : LastKept(i)' => i \in DOMAIN ledger
    BY <1>1, <2>1 DEF LastKept
  <2>5. QED
    BY <1>1, <1>3, <2>3, <2>4 DEF Told
<1>4. QED
  BY <1>2, <1>3

\* There is no session at the start.
LEMMA BaselineInit == Init => BaselineInv
BY DEF Init, BaselineInv

\* Every step keeps the ledger and the baseline together.
LEMMA BaselineStep == TypeInv /\ BaselineInv /\ [Next]_vars => BaselineInv'
<1> SUFFICES ASSUME TypeInv, BaselineInv, [Next]_vars
             PROVE  BaselineInv'
  OBVIOUS
<1> DEFINE Known == \A i \in DOMAIN ledger : ledger[i].session <= session
<1>1. CASE StartSession
  <2>1. Known'
    <3>1. \A i \in DOMAIN ledger : ledger[i].session \in Nat
      <4>1. \A i \in DOMAIN ledger : ledger[i] \in Line
        BY DEF TypeInv, TypeOK
      <4>2. QED
        BY <4>1 DEF Line
    <3>2. session \in Nat /\ session' = session + 1 /\ ledger' = ledger
      BY <1>1 DEF StartSession, TypeInv, TypeOK
    <3>3. QED
      BY <3>1, <3>2 DEF BaselineInv
  <2>2. Told(NoBaseline)'
    BY <1>1, ToldAtStart DEF StartSession
  <2>3. Told(baseline)'
    BY <1>1, <2>2 DEF StartSession, Told
  <2>4. QED
    BY <1>1, <2>1, <2>3 DEF StartSession, BaselineInv
<1>2. CASE StopSession
  BY <1>2 DEF StopSession, BaselineInv
<1>3. ASSUME UNCHANGED <<ledger, session>>
      PROVE  Known' /\ \A b : Told(b) => Told(b)'
  BY <1>3, ToldUnchanged DEF BaselineInv
<1>4. ASSUME NEW kind, Train(kind)
      PROVE  BaselineInv'
  <2>1. faults = 0 => Told(baseline)
    BY <1>4 DEF Train, BaselineInv
  <2>2. faults = 0 => Told(baseline)'
    BY <1>3, <1>4, <2>1 DEF Train, Told
  <2>3. QED
    BY <1>3, <1>4, <2>2 DEF Train, BaselineInv
<1>5. ASSUME NEW r, Returned(r)
      PROVE  BaselineInv'
  <2>1. faults = 0 => Told(baseline)
    BY <1>5 DEF Returned, BaselineInv
  <2>2. mode # "baseline" => (faults = 0 => Told(baseline)')
    BY <1>3, <1>5, <2>1 DEF Returned, Told
  <2>3. QED
    BY <1>3, <1>5, <2>2 DEF Returned, BaselineInv
<1>6. CASE TrainerRaises
  <2>1. faults = 0 => Told(baseline)
    BY <1>6 DEF TrainerRaises, BaselineInv
  <2>2. faults = 0 => Told(baseline)'
    BY <1>3, <1>6, <2>1 DEF TrainerRaises, Abandon, Told
  <2>3. QED
    BY <1>3, <1>6, <2>2 DEF TrainerRaises, Abandon, BaselineInv
<1>7. CASE AppendFails
  <2>1. faults' # 0
    BY <1>7 DEF AppendFails, TypeInv, TypeOK
  <2>2. QED
    BY <1>3, <1>7, <2>1 DEF AppendFails, Abandon, BaselineInv
<1>8. CASE AppendTsv
  <2>1. pc = "tsv" /\ UNCHANGED <<baseline, ledger, session>>
    BY <1>8 DEF AppendTsv
  <2>2. mode # "baseline" => (faults = 0 => Told(baseline))
    BY <2>1 DEF BaselineInv
  <2>3. Told(baseline)' <=> Told(baseline)
    BY ONLY <2>1 DEF Told, LastKept, Kept
  <2>4. mode # "baseline" => (faults = 0 => Told(baseline)')
    BY ONLY <2>2, <2>3
  <2>5. QED
    BY <1>3, <1>8, <2>4 DEF AppendTsv, BaselineInv
<1>9. CASE AppendLedger
  <2>1. PICK e : e = Entry
    OBVIOUS
  <2>2. e \in Line /\ e.session = session
    BY <2>1 DEF TypeInv, TypeOK, Line, Entry
  <2>3. /\ ledger \in Seq(Line) /\ ledger' = Append(ledger, e) /\ UNCHANGED session
        /\ session \in Nat
    BY <1>9, <2>1 DEF AppendLedger, TypeInv, TypeOK
  <2>4. Known'
    BY <2>2, <2>3, Appended DEF BaselineInv
  <2>5. \A b : IF e.decision = "retain" THEN b = e.val => Told(b)'
                                        ELSE Told(b) => Told(b)'
    BY <2>2, <2>3, ToldAppended
  <2>6. CASE mode = "baseline"
    <3>1. e.decision = "retain" /\ e.val = result.val
      BY <2>1, <2>6 DEF Entry
    <3>2. faults = 0 => baseline = e.val
      BY <1>9, <2>6, <3>1 DEF AppendLedger, BaselineInv
    <3>3. faults = 0 => Told(baseline)'
      BY <1>9, <2>5, <3>1, <3>2 DEF AppendLedger, Told
    <3>4. QED
      BY <1>9, <2>4, <2>6, <3>3 DEF AppendLedger, BaselineInv
  <2>7. CASE mode # "baseline"
    <3>1. PICK b : b = IF Retained THEN result.val ELSE baseline
      OBVIOUS
    <3>2. faults = 0 => Told(b)'
      BY <1>9, <2>1, <2>5, <2>7, <3>1 DEF AppendLedger, BaselineInv, Entry
    <3>3. b = (IF Retained THEN result.val ELSE baseline)'
      BY <1>9, <2>7, <3>1
         DEF AppendLedger, Retained, SafetyOk, Retains, Improved, Regressed,
             CompletionMet, Comparable
    <3>4. faults = 0 => Told(IF Retained THEN result.val ELSE baseline)'
      BY <3>2, <3>3 DEF Told
    <3>5. QED
      BY <1>9, <2>4, <2>7, <3>4 DEF AppendLedger, BaselineInv
  <2>8. QED
    BY <2>6, <2>7
<1>10. CASE Adopt
  <2>1. baseline' = IF Retained THEN result.val ELSE baseline
    BY <1>10, RetainedIsScore DEF Adopt, TypeInv, RunInv
  <2>2. faults = 0 => Told(baseline')
    BY <1>10, <2>1 DEF Adopt, BaselineInv
  <2>3. faults = 0 => Told(baseline)'
    BY <1>3, <1>10, <2>2 DEF Adopt, Told, LastKept, Kept
  <2>4. QED
    BY <1>3, <1>10, <2>3 DEF Adopt, BaselineInv
<1>11. CASE UNCHANGED vars
  BY <1>11
     DEF vars, BaselineInv, Told, LastKept, Kept, Retained, SafetyOk, Retains,
         Improved, Regressed, CompletionMet, Comparable
<1>12. QED
  BY <1>1, <1>2, <1>4, <1>5, <1>6, <1>7, <1>8, <1>9, <1>10, <1>11
     DEF Next, RunBaseline, RunOne, Measured, Crashed

\* Until an append fails the ledger tells the baseline between two runs.
THEOREM LedgerTellsBaselineHolds == Spec => []LedgerTellsBaseline
<1>1. BaselineInv => LedgerTellsBaseline
  BY DEF BaselineInv, LedgerTellsBaseline, Told
<1>2. QED
  BY TypeInit, TypeStep, BaselineInit, BaselineStep, <1>1, PTL DEF Spec

\* The line that is appended is no worse than the session's last retained one.
LEMMA KeptStep ==
  TypeInv /\ BaselineInv /\ KeptIsNoWorse /\ [Next]_vars => KeptIsNoWorse'
<1> SUFFICES ASSUME TypeInv, BaselineInv, KeptIsNoWorse, [Next]_vars
             PROVE  KeptIsNoWorse'
  OBVIOUS
<1>1. CASE AppendLedger
  <2>1. PICK e : e = Entry
    OBVIOUS
  <2>2. e \in Line /\ ledger \in Seq(Line) /\ ledger' = Append(ledger, e)
    BY <1>1, <2>1 DEF AppendLedger, TypeInv, TypeOK, Line, Entry
  <2>3. PICK n : n = Len(ledger)
    OBVIOUS
  <2>4. /\ DOMAIN ledger = 1..n /\ n \in Nat
        /\ DOMAIN ledger' = 1..(n + 1)
        /\ \A i \in 1..n : ledger'[i] = ledger[i]
        /\ ledger'[n + 1] = e
    BY <2>2, <2>3, Appended
  <2>5. \A i \in 1..n : Kept(i)' <=> Kept(i)
    BY <2>4 DEF Kept
  <2>6. ASSUME faults = 0, NEW i \in 1..n, Kept(i),
               e.decision = "retain", e.kind = "experiment",
               ledger[i].session = e.session, ledger[i].val \in Scores,
               \A k \in (i + 1)..n : ~Kept(k)
        PROVE  /\ e.val <= ledger[i].val
               /\ \/ ledger[i].val - e.val >= MinImprovement
                  \/ e.val < AcceptBelow
    <3>1. LastKept(i)
      BY <2>1, <2>4, <2>6 DEF LastKept, Entry
    <3>2. mode = "experiment" /\ Retained /\ e.val = result.val
      BY <2>1, <2>6 DEF Entry
    <3>3. Told(baseline) /\ HonestResult
      BY <1>1, <2>6, <3>2 DEF AppendLedger, BaselineInv, TypeInv, RunInv
    <3>4. baseline = ledger[i].val
      BY <2>4, <3>1, <3>3 DEF Told
    <3>5. QED
      BY <2>6, <3>2, <3>3, <3>4, RetainedIsScore
  <2>7. faults' = faults
    BY <1>1 DEF AppendLedger
  <2>8. SUFFICES ASSUME faults = 0, NEW j \in 1..(n + 1), NEW i \in 1..(j - 1),
                        Kept(i)', Kept(j)', ledger'[j].kind = "experiment",
                        ledger'[i].session = ledger'[j].session,
                        ledger'[i].val \in Scores,
                        \A k \in (i + 1)..(j - 1) : ~Kept(k)'
                 PROVE  /\ ledger'[j].val <= ledger'[i].val
                        /\ \/ ledger'[i].val - ledger'[j].val >= MinImprovement
                           \/ ledger'[j].val < AcceptBelow
    BY <2>4, <2>7 DEF KeptIsNoWorse
  <2>9. i \in 1..n /\ \A k \in (i + 1)..(j - 1) : k \in 1..n
    BY <2>4
  <2>10. Kept(i) /\ ledger'[i] = ledger[i] /\ \A k \in (i + 1)..(j - 1) : ~Kept(k)
    BY <2>4, <2>5, <2>8, <2>9
  <2>11. CASE j = n + 1
    <3>1. e.decision = "retain"
      BY <2>4, <2>8, <2>11 DEF Kept
    <3>2. \A k \in (i + 1)..n : ~Kept(k)
      BY <2>4, <2>10, <2>11
    <3>3. QED
      BY <2>4, <2>6, <2>8, <2>9, <2>10, <2>11, <3>1, <3>2
  <2>12. CASE j # n + 1
    <3>1. j \in 1..n /\ ledger'[j] = ledger[j] /\ Kept(j)
      BY <2>4, <2>5, <2>8, <2>12
    <3>2. QED
      BY <2>4, <2>8, <2>10, <3>1 DEF KeptIsNoWorse
  <2>13. QED
    BY <2>11, <2>12
<1>2. CASE ~AppendLedger
  <2>1. ledger' = ledger /\ (faults' = 0 => faults = 0)
    BY <1>2 DEF Next, vars, StartSession, StopSession, RunBaseline, RunOne, Train,
                Measured, Crashed, Returned, TrainerRaises, AppendFails, Abandon,
                AppendTsv, Adopt, TypeInv, TypeOK
  <2>2. QED
    BY <2>1 DEF KeptIsNoWorse, Kept
<1>3. QED
  BY <1>1, <1>2

\* Until an append fails, what a session retains is no worse than what it
\* retained before.
THEOREM KeptIsNoWorseHolds == Spec => []KeptIsNoWorse
<1>1. Init => KeptIsNoWorse
  BY DEF Init, KeptIsNoWorse
<1>2. QED
  BY TypeInit, TypeStep, BaselineInit, BaselineStep, KeptStep, <1>1, PTL DEF Spec

-----------------------------------------------------------------------------
(* Where a regression can be retained.                                      *)

\* Later lines are of the same session or a later one.
SessionInv ==
  \A i \in DOMAIN ledger :
    /\ ledger[i].session <= session
    /\ \A j \in DOMAIN ledger : i <= j => ledger[i].session <= ledger[j].session

\* Sessions are numbered in the order they write.
LEMMA SessionStep == TypeInv /\ SessionInv /\ [Next]_vars => SessionInv'
<1> SUFFICES ASSUME TypeInv, SessionInv, [Next]_vars
             PROVE  SessionInv'
  OBVIOUS
<1>1. /\ ledger \in Seq(Line) /\ session \in Nat
      /\ \A i \in DOMAIN ledger : i \in Nat /\ ledger[i].session \in Nat
  <2>1. ledger \in Seq(Line) /\ session \in Nat
    BY DEF TypeInv, TypeOK
  <2>2. \A l \in Line : l.session \in Nat
    BY DEF Line
  <2>3. \A i \in DOMAIN ledger : i \in Nat /\ ledger[i] \in Line
    BY <2>1
  <2>4. QED
    BY <2>1, <2>2, <2>3
<1>2. CASE AppendLedger
  <2>1. PICK e : e = Entry
    OBVIOUS
  <2>2. e \in Line /\ e.session = session
    BY <2>1 DEF TypeInv, TypeOK, Line, Entry
  <2>3. ledger' = Append(ledger, e) /\ session' = session
    BY <1>2, <2>1 DEF AppendLedger
  <2>4. PICK n : n = Len(ledger)
    OBVIOUS
  <2>5. /\ DOMAIN ledger = 1..n /\ n \in Nat
        /\ DOMAIN ledger' = 1..(n + 1)
        /\ \A i \in 1..n : ledger'[i] = ledger[i]
        /\ ledger'[n + 1] = e
    BY <1>1, <2>2, <2>3, <2>4, Appended
  <2>6. ASSUME NEW i \in 1..(n + 1)
        PROVE  /\ ledger'[i].session <= session'
               /\ \A j \in 1..(n + 1) : i <= j => ledger'[i].session <= ledger'[j].session
    <3>1. CASE i \in 1..n
      <4>1. ledger'[i].session <= session
        BY <2>5, <3>1 DEF SessionInv
      <4>2. ASSUME NEW j \in 1..(n + 1), i <= j
            PROVE  ledger'[i].session <= ledger'[j].session
        <5>1. CASE j \in 1..n
          BY <2>5, <3>1, <4>2, <5>1 DEF SessionInv
        <5>2. CASE j = n + 1
          BY <2>2, <2>5, <4>1, <5>2
        <5>3. QED
          BY <2>5, <5>1, <5>2
      <4>3. QED
        BY <2>3, <4>1, <4>2
    <3>2. CASE i = n + 1
      <4>1. \A j \in 1..(n + 1) : i <= j => j = i
        BY <2>5, <3>2
      <4>2. QED
        BY <1>1, <2>2, <2>3, <2>5, <3>2, <4>1
    <3>3. QED
      BY <2>5, <3>1, <3>2
  <2>7. QED
    BY <2>5, <2>6 DEF SessionInv
<1>3. CASE ~AppendLedger
  <2>1. ledger' = ledger /\ session <= session'
    BY <1>1, <1>3 DEF Next, vars, StartSession, StopSession, RunBaseline, RunOne, Train,
                 Measured, Crashed, Returned, TrainerRaises, AppendFails, Abandon,
                 AppendTsv, Adopt
  <2>2. session' \in Nat
    BY <1>1, <1>3 DEF Next, vars, StartSession, StopSession, RunBaseline, RunOne, Train,
                 Measured, Crashed, Returned, TrainerRaises, AppendFails, Abandon,
                 AppendTsv, Adopt
  <2>3. QED
    BY <1>1, <2>1, <2>2 DEF SessionInv
<1>4. QED
  BY <1>2, <1>3

\* RegressionsReverted, but for the first experiment that a session retains.
RevertedButForFirst ==
  \A j \in DOMAIN ledger : \A i \in 1..(j - 1) :
    /\ Kept(i) /\ Kept(j) /\ ledger[j].kind = "experiment"
    /\ ledger[i].val \in Scores
    /\ \A k \in (i + 1)..(j - 1) : ~Kept(k)
    => \/ ledger[j].val <= ledger[i].val
       \/ \A k \in 1..(j - 1) : Kept(k) => ledger[k].session < ledger[j].session

\* A retained experiment that is worse than what was retained before it is the
\* first its session retains: the missing baseline is the only way to get one.
\* (Until an append fails.)
THEOREM OnlyFirstRegresses == Spec => [](faults = 0 => RevertedButForFirst)
<1>1. Init => SessionInv
  BY DEF Init, SessionInv
<1>2. Spec => [](TypeInv /\ SessionInv)
  BY <1>1, TypeInit, TypeStep, SessionStep, PTL DEF Spec
<1>3. TypeInv /\ SessionInv /\ KeptIsNoWorse => (faults = 0 => RevertedButForFirst)
  <2> SUFFICES ASSUME TypeInv, SessionInv, KeptIsNoWorse, faults = 0,
                      NEW j \in DOMAIN ledger, NEW i \in 1..(j - 1),
                      Kept(i), Kept(j), ledger[j].kind = "experiment",
                      ledger[i].val \in Scores,
                      \A k \in (i + 1)..(j - 1) : ~Kept(k),
                      ~(ledger[j].val <= ledger[i].val),
                      NEW k \in 1..(j - 1), Kept(k)
               PROVE  ledger[k].session < ledger[j].session
    BY DEF RevertedButForFirst
  <2>1. ledger[i].session # ledger[j].session
    BY DEF KeptIsNoWorse
  <2>2. ledger \in Seq(Line)
    BY DEF TypeInv, TypeOK
  <2>3. /\ j \in Nat /\ i \in DOMAIN ledger /\ k \in DOMAIN ledger
        /\ i <= j /\ i \in Nat /\ k \in Nat
    BY <2>2
  <2>4. \A l \in Line : l.session \in Nat
    BY DEF Line
  <2>5. /\ ledger[i].session \in Nat /\ ledger[j].session \in Nat
        /\ ledger[k].session \in Nat
    <3>1. ledger[i] \in Line /\ ledger[j] \in Line /\ ledger[k] \in Line
      BY <2>2, <2>3
    <3>2. QED
      BY <2>4, <3>1
  <2>6. k <= i
    BY <2>3
  <2>7. ledger[k].session <= ledger[i].session /\ ledger[i].session <= ledger[j].session
    BY <2>3, <2>6 DEF SessionInv
  <2>8. QED
    BY <2>1, <2>5, <2>7
<1>4. QED
  BY <1>2, <1>3, KeptIsNoWorseHolds, PTL
=================================================================================
