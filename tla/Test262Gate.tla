----------------------------- MODULE Test262Gate -----------------------------
(***************************************************************************)
(* The per-test regression gate of Test262: the shard jobs of a workflow   *)
(* run, the merge of what they uploaded, the comparison of the merged      *)
(* artifact with that of the latest successful run                         *)
(* (test262_regression_check.sh, test262_failing_diff.js), and the run     *)
(* becoming the next baseline.                                             *)
(*                                                                         *)
(* Runs on main form a concurrency group, so that one is in progress at a  *)
(* time and the latest successful run is the last one that succeeded.      *)
(* A successful run is not run again.                                      *)
(***************************************************************************)
EXTENDS Integers, Sequences, FiniteSets, SequencesExt

CONSTANTS
    Modes,            \* MODES
    Suite,            \* the tests a complete checkout has in each mode, in order
    PartialSuite,     \* those of a checkout whose download was cut short
    ShardTotal,       \* SHARD_TOTAL
    Outcomes,         \* statuses the engine's tests end with
    Roots,            \* spellings of the path of the suite in artifacts
    PassedMin,        \* test262-baseline.json, for each mode
    CombinedMin       \* and for all of them

Shards == 1..ShardTotal

STATUSES == {"pass", "fail", "skip", "timeout", "error"}

NONPASS == {"fail", "timeout", "error"}

EXECUTED == {"pass", "fail", "timeout", "error"}

ASSUME GateAssumption ==
    /\ Outcomes \subseteq STATUSES
    /\ ShardTotal \in Nat \ {0}
    /\ \A m \in Modes : /\ Suite[m] \in Seq(Range(Suite[m])) \ {<<>>}
                        /\ IsInjective(Suite[m])
                        /\ PassedMin[m] \in Nat
    /\ CombinedMin \in Nat

VARIABLES
    phase,            \* where the run in progress is
    root,             \* spelling of paths in this run
    jobs,             \* result of each shard job: its file and its conclusion
    merged,           \* the per-mode files of this run
    verdict,          \* whether the counts of this run passed
    baseline          \* the combined report of the latest successful run

run == <<phase, root, jobs, merged, verdict>>

vars == <<run, baseline>>

Jobs == Modes \X Shards

-----------------------------------------------------------------------------
(* Artifacts *)

Absent == [state |-> "absent", results |-> <<>>]

Truncated == [state |-> "truncated", results |-> <<>>]

Artifact(results) == [state |-> "written", results |-> results]

(* shard_bounds, slice_tasks: contiguous slices, the first ones longer. *)
ShardTasks(tasks, shard) ==
    LET base == Len(tasks) \div ShardTotal
        remainder == Len(tasks) % ShardTotal
        before(s) == (s - 1) * base + (IF s - 1 < remainder THEN s - 1 ELSE remainder)
    IN  SubSeq(tasks, before(shard) + 1, before(shard + 1))

(* What the runner can write for a shard: one row for each of its tests. *)
ShardResults(mode, shard, discovered) ==
    LET tasks == ShardTasks(discovered, shard) IN
    {[i \in DOMAIN tasks |->
        [path |-> [root |-> root, test |-> tasks[i]], mode |-> mode, status |-> st[i]]] :
     st \in [DOMAIN tasks -> Outcomes]}

(* normalizePath, keyFor: both spellings of a test have one key. *)
NormalizePath(path) == path.test

KeyFor(row) == <<NormalizePath(row.path), row.mode>>

KeysOf(artifact) == {KeyFor(artifact.results[i]) : i \in DOMAIN artifact.results}

(* loadArtifact, validateArtifact.  The summary counts the rows, as the     *)
(* runner and the merge compute it from them.                               *)
ValidateArtifact(artifact) ==
    /\ artifact.state = "written"
    /\ artifact.results # <<>>
    /\ \A i \in DOMAIN artifact.results :
          artifact.results[i].status \in STATUSES /\ artifact.results[i].mode \in Modes
    /\ \A i, j \in DOMAIN artifact.results :
          KeyFor(artifact.results[i]) = KeyFor(artifact.results[j]) => i = j

StatusOf(artifact, key) ==
    IF key \notin KeysOf(artifact) THEN "undefined"
    ELSE artifact.results[CHOOSE i \in DOMAIN artifact.results :
                             KeyFor(artifact.results[i]) = key].status

(* Mutation of CompleteCoverage: only tests without a baseline are noticed. *)
CoverageOfCandidate(base, candidate) == KeysOf(candidate) \subseteq KeysOf(base)

CompleteCoverage(base, candidate) == KeysOf(candidate) = KeysOf(base)

Regressions(base, candidate) ==
    {k \in KeysOf(base) : StatusOf(base, k) = "pass" /\ StatusOf(candidate, k) \in NONPASS}

(* Mutation of LostCoverage: a test that did not pass may be skipped. *)
LostPasses(base, candidate) ==
    {k \in KeysOf(base) : StatusOf(base, k) = "pass" /\ StatusOf(candidate, k) = "skip"}

LostCoverage(base, candidate) ==
    {k \in KeysOf(base) : StatusOf(base, k) \in EXECUTED /\ StatusOf(candidate, k) = "skip"}

(* main of test262_failing_diff.js, its exit status. *)
FailingDiff(base, candidate) ==
    IF ~(/\ ValidateArtifact(base) /\ ValidateArtifact(candidate)
         /\ CompleteCoverage(base, candidate))
    THEN 3
    ELSE IF Regressions(base, candidate) \union LostCoverage(base, candidate) = {} THEN 0 ELSE 1

-----------------------------------------------------------------------------
(* One run *)

Pending == [file |-> Absent, conclusion |-> "pending"]

NoJobs == [k \in Jobs |-> Pending]

NoFiles == [m \in Modes |-> Absent]

Rows == UNION {{m} \X DOMAIN Suite[m] : m \in Modes}

(* The report of a complete run: a row for each test of the suite. *)
CompleteReport(r, st) ==
    [m \in Modes |-> Artifact([i \in DOMAIN Suite[m] |->
        [path |-> [root |-> r, test |-> Suite[m][i]], mode |-> m, status |-> st[<<m, i>>]]])]

Init ==
    /\ phase = "idle" /\ root \in Roots
    /\ jobs = NoJobs /\ merged = NoFiles /\ verdict = FALSE
    /\ \E r \in Roots, st \in [Rows -> Outcomes] :      \* left by an earlier run
          baseline = CompleteReport(r, st)

Start ==
    /\ phase = "idle"
    /\ phase' = "shards"
    /\ root' \in Roots
    /\ UNCHANGED <<jobs, merged, verdict, baseline>>

(* A shard job discovers the tests in a checkout of its own.  The runner    *)
(* writes its file last; the upload is made whatever its exit status was.   *)
ShardJob(mode, shard) ==
    /\ phase = "shards"
    /\ jobs[<<mode, shard>>] = Pending
    /\ \/ \E discovered \in {Suite[mode], PartialSuite[mode]} :
          \E results \in ShardResults(mode, shard, discovered) :
             jobs' = [jobs EXCEPT ![<<mode, shard>>] =
                        [file |-> Artifact(results), conclusion |-> "success"]]
       \/ \E file \in {Absent, Truncated} :
             jobs' = [jobs EXCEPT ![<<mode, shard>>] = [file |-> file, conclusion |-> "failure"]]
    /\ UNCHANGED <<phase, root, merged, verdict, baseline>>

ShardsPresent(mode) == \A s \in Shards : jobs[<<mode, s>>].file # Absent

(* An unreadable file of a complete set ends the script before any merge. *)
ReportAborts ==
    \E m \in Modes : ShardsPresent(m) /\ \E s \in Shards : jobs[<<m, s>>].file = Truncated

MergeShards(mode) ==
    IF ReportAborts \/ ~ShardsPresent(mode) THEN Absent
    ELSE Artifact(FlattenSeq([s \in Shards |-> jobs[<<mode, s>>].file.results]))

Passed(artifact) == Len(SelectSeq(artifact.results, LAMBDA row : row.status = "pass"))

(* The step "Check for regressions" and the upload of the combined report. *)
Report ==
    /\ phase = "shards"
    /\ \A k \in Jobs : jobs[k].conclusion # "pending"
    /\ merged' = [m \in Modes |-> MergeShards(m)]
    /\ verdict' = ( /\ ~ReportAborts
                    /\ \A m \in Modes : ShardsPresent(m) /\ Passed(merged'[m]) >= PassedMin[m]
                    /\ MapThenSumSet(LAMBDA m : Passed(merged'[m]), Modes) >= CombinedMin )
    /\ phase' = "compare"
    /\ UNCHANGED <<root, jobs, baseline>>

(* test262_regression_check.sh: every mode is compared, one failure fails.  *)
RegressionCheck(downloaded) ==
    /\ downloaded
    /\ \A m \in Modes :
          /\ baseline[m] # Absent /\ merged[m] # Absent
          /\ FailingDiff(baseline[m], merged[m]) = 0

Forget ==
    /\ phase' = "idle" /\ jobs' = NoJobs /\ merged' = NoFiles /\ verdict' = FALSE
    /\ UNCHANGED root

(* The conclusion of the run.  The comparison is made whatever the counts   *)
(* said; unit tests and infrastructure can fail a run that passed it.       *)
Compare ==
    /\ phase = "compare"
    /\ \E downloaded, others \in BOOLEAN :
          baseline' =
             IF /\ RegressionCheck(downloaded) /\ verdict /\ others
                /\ \A k \in Jobs : jobs[k].conclusion = "success"
             THEN merged ELSE baseline
    /\ Forget

Cancel ==
    /\ phase # "idle"
    /\ Forget
    /\ UNCHANGED baseline

Next ==
    \/ Start
    \/ \E m \in Modes, s \in Shards : ShardJob(m, s)
    \/ Report
    \/ Compare
    \/ Cancel

Spec == Init /\ [][Next]_vars

-----------------------------------------------------------------------------
(* Properties *)

(* The baseline can always be compared with: each mode has its file, it     *)
(* validates, and it covers the whole suite, although jobs fail, uploads    *)
(* are missing or cut short, and jobs of one run discover different sets of *)
(* tests, so that a test is in two shards or in none.  A gate that accepted *)
(* anything else would fail every later run, or never look at a test again. *)
BaselineComplete ==
    \A m \in Modes :
        /\ ValidateArtifact(baseline[m])
        /\ KeysOf(baseline[m]) = {<<Suite[m][i], m>> : i \in DOMAIN Suite[m]}

(* From one successful run to the next, whatever runs failed in between, a  *)
(* test that passed passes and a test that was executed is executed, in     *)
(* each mode (test_test262_failing_diff.js: "pass to fail, timeout, and     *)
(* error fail in either mode", "lost coverage fails while recovery passes").*)
Ratchet ==
    [][\A m \in Modes : \A k \in KeysOf(baseline[m]) :
          /\ k \in KeysOf(baseline'[m])
          /\ StatusOf(baseline[m], k) = "pass" => StatusOf(baseline'[m], k) = "pass"
          /\ StatusOf(baseline[m], k) \in EXECUTED => StatusOf(baseline'[m], k) \in EXECUTED
      ]_baseline
=============================================================================
