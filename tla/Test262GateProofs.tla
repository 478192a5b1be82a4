-------------------------- MODULE Test262GateProofs -------------------------
(***************************************************************************)
(* Test262Gate for every suite, every number of shards and whatever the    *)
(* shard jobs discover, write or lose.                                     *)
(***************************************************************************)
EXTENDS Test262Gate, SequenceTheorems, TLAPS

(* The comparison accepts a candidate only over the very tests of the       *)
(* baseline, and only if no test got worse.                                 *)
LEMMA DiffAccepts ==
    ASSUME NEW base, NEW candidate, FailingDiff(base, candidate) = 0
    PROVE  /\ ValidateArtifact(candidate)
           /\ KeysOf(candidate) = KeysOf(base)
           /\ Regressions(base, candidate) = {}
           /\ LostCoverage(base, candidate) = {}
BY DEF FailingDiff, CompleteCoverage

(* The status of a test of a valid artifact is one the runner knows. *)
LEMMA StatusKnown ==
    ASSUME NEW artifact, ValidateArtifact(artifact), NEW k \in KeysOf(artifact)
    PROVE  StatusOf(artifact, k) \in STATUSES
<1>1. \E i \in DOMAIN artifact.results : KeyFor(artifact.results[i]) = k
  BY DEF KeysOf
<1> QED
  BY <1>1 DEF ValidateArtifact, StatusOf

(* A test keeps its rank between two artifacts the comparison accepts: what *)
(* passed passes, and what was executed is executed.                        *)
LEMMA DiffRatchets ==
    ASSUME NEW base, NEW candidate, FailingDiff(base, candidate) = 0,
           NEW k \in KeysOf(base)
    PROVE  /\ k \in KeysOf(candidate)
           /\ StatusOf(base, k) = "pass" => StatusOf(candidate, k) = "pass"
           /\ StatusOf(base, k) \in EXECUTED => StatusOf(candidate, k) \in EXECUTED
<1>1. k \in KeysOf(candidate) /\ StatusOf(candidate, k) \in STATUSES
  BY DiffAccepts, StatusKnown
<1>2. StatusOf(base, k) = "pass" => StatusOf(candidate, k) \notin NONPASS
  BY DiffAccepts DEF Regressions
<1>3. StatusOf(base, k) \in EXECUTED => StatusOf(candidate, k) # "skip"
  BY DiffAccepts DEF LostCoverage
<1> QED
  BY <1>1, <1>2, <1>3 DEF STATUSES, NONPASS, EXECUTED

(* Only the end of a run whose comparison passed in each mode moves the     *)
(* baseline, and it moves it to what was compared.                          *)
LEMMA BaselineMoves ==
    ASSUME [Next]_vars, baseline' # baseline
    PROVE  /\ baseline' = merged
           /\ \A m \in Modes : FailingDiff(baseline[m], merged[m]) = 0
<1>1. Compare
  BY DEF Next, vars, run, Start, ShardJob, Report, Cancel
<1> QED
  BY <1>1 DEF Compare, RegressionCheck

(* A complete report has one row for each test of the suite, in each mode.  *)
LEMMA CompleteReportValid ==
    ASSUME NEW r, NEW st \in [Rows -> Outcomes], NEW m \in Modes
    PROVE  LET report == CompleteReport(r, st) IN
           /\ ValidateArtifact(report[m])
           /\ KeysOf(report[m]) = {<<Suite[m][i], m>> : i \in DOMAIN Suite[m]}
<1> DEFINE report == CompleteReport(r, st)
           D == DOMAIN Suite[m]
           rows == [i \in D |->
              [path |-> [root |-> r, test |-> Suite[m][i]], mode |-> m, status |-> st[<<m, i>>]]]
<1>1. report[m] = [state |-> "written", results |-> rows]
  BY DEF CompleteReport, Artifact
<1>2. D = 1..Len(Suite[m]) /\ 1 \in D
  BY GateAssumption, EmptySeq
<1>3. \A i \in D : st[<<m, i>>] \in STATUSES
  <2>1. \A i \in D : <<m, i>> \in Rows
    BY DEF Rows
  <2> QED
    BY <2>1, GateAssumption
<1> HIDE DEF D
<1>4. /\ DOMAIN rows = D
      /\ \A i \in D : /\ rows[i].status = st[<<m, i>>] /\ rows[i].mode = m
                      /\ KeyFor(rows[i]) = <<Suite[m][i], m>>
  BY DEF KeyFor, NormalizePath
<1>5. rows # <<>>
  BY <1>2, <1>4
<1>6. \A i, j \in D : Suite[m][i] = Suite[m][j] => i = j
  BY GateAssumption DEF IsInjective, D
<1> HIDE DEF rows
<1>7. ValidateArtifact(report[m])
  <2>1. ASSUME NEW i \in D, NEW j \in D, KeyFor(rows[i]) = KeyFor(rows[j])
        PROVE  i = j
    <3>1. <<Suite[m][i], m>> = <<Suite[m][j], m>>
      BY <1>4, <2>1
    <3> QED
      BY <1>6, <3>1
  <2>2. \A i \in D : rows[i].status \in STATUSES /\ rows[i].mode \in Modes
    BY <1>3, <1>4
  <2> QED
    BY <1>1, <1>4, <1>5, <2>1, <2>2 DEF ValidateArtifact
<1>8. KeysOf(report[m]) = {KeyFor(rows[i]) : i \in D}
  BY <1>1, <1>4 DEF KeysOf
<1>9. KeysOf(report[m]) = {<<Suite[m][i], m>> : i \in D}
  BY <1>4, <1>8, ZenonT(30)
<1> QED
  BY <1>7, <1>9 DEF D

-----------------------------------------------------------------------------
(* However shards are cut, lost or discovered differently, every baseline   *)
(* is valid and covers the whole suite of each mode.                        *)
THEOREM BaselinesAreComplete == Spec => []BaselineComplete
<1>1. Init => BaselineComplete
  BY CompleteReportValid DEF Init, BaselineComplete
<1>2. BaselineComplete /\ [Next]_vars => BaselineComplete'
  <2> SUFFICES ASSUME BaselineComplete, [Next]_vars, NEW m \in Modes
               PROVE  /\ ValidateArtifact(baseline'[m])
                      /\ KeysOf(baseline'[m]) = {<<Suite[m][i], m>> : i \in DOMAIN Suite[m]}
    BY DEF BaselineComplete, ValidateArtifact, KeysOf, KeyFor, NormalizePath
  <2>1. CASE baseline' = baseline
    BY <2>1 DEF BaselineComplete
  <2>2. CASE baseline' # baseline
    BY <2>2, BaselineMoves, DiffAccepts DEF BaselineComplete
  <2> QED
    BY <2>1, <2>2
<1> QED
  BY <1>1, <1>2, PTL DEF Spec

(* From one baseline to the next, over any number of failed runs between    *)
(* them, no test that passed or was executed is lost.                       *)
THEOREM NothingIsLost == Spec => Ratchet
<1>1. [Next]_vars =>
        [\A m \in Modes : \A k \in KeysOf(baseline[m]) :
            /\ k \in KeysOf(baseline'[m])
            /\ StatusOf(baseline[m], k) = "pass" => StatusOf(baseline'[m], k) = "pass"
            /\ StatusOf(baseline[m], k) \in EXECUTED => StatusOf(baseline'[m], k) \in EXECUTED
        ]_baseline
  BY BaselineMoves, DiffRatchets
<1> QED
  BY <1>1, PTL DEF Spec, Ratchet

Passes(mode, key) ==
    key \in KeysOf(baseline[mode]) /\ StatusOf(baseline[mode], key) = "pass"

Executes(mode, key) ==
    key \in KeysOf(baseline[mode]) /\ StatusOf(baseline[mode], key) \in EXECUTED

(* A test that passed in one successful run passes in the baseline for      *)
(* ever, and likewise one that was executed: the gate compares only two     *)
(* runs at a time, and the chain of baselines keeps what any of them had.   *)
THEOREM NothingIsEverLost ==
    ASSUME NEW mode \in Modes, NEW key
    PROVE  Spec => /\ [](Passes(mode, key) => []Passes(mode, key))
                   /\ [](Executes(mode, key) => []Executes(mode, key))
<1>1. [\A m \in Modes : \A k \in KeysOf(baseline[m]) :
          /\ k \in KeysOf(baseline'[m])
          /\ StatusOf(baseline[m], k) = "pass" => StatusOf(baseline'[m], k) = "pass"
          /\ StatusOf(baseline[m], k) \in EXECUTED => StatusOf(baseline'[m], k) \in EXECUTED
      ]_baseline
      => /\ Passes(mode, key) => Passes(mode, key)'
         /\ Executes(mode, key) => Executes(mode, key)'
  BY DEF Passes, Executes, KeysOf, StatusOf, KeyFor, NormalizePath
<1> QED
  BY <1>1, NothingIsLost, PTL DEF Ratchet
=============================================================================
