------------------------------- MODULE UriLoad -------------------------------
(***************************************************************************)
(* The load experiment on two slow Test262 cases                           *)
(* (test262_uri_load_repro.js): it runs the Test262 runner on the same     *)
(* tasks with one worker and with several, and on a control that never     *)
(* ends, checks what came back, and draws a conclusion.                    *)
(***************************************************************************)
EXTENDS Integers, Sequences, FiniteSets, SequencesExt

CONSTANTS
    MODES,            \* in order
    URI_CASES,        \* in order
    Repeats,          \* how often uriTasks names each case
    Options,          \* command lines and what is found where they point
    Statuses,         \* statuses a test of the runner can end with
    VerifyLimit,      \* seconds the runner tries the engine for, before any test
    ISOLATED_WORKERS, LOAD_WORKERS

ASSUME UriLoadAssumption ==
    /\ MODES \in Seq(Range(MODES)) /\ URI_CASES \in Seq(Range(URI_CASES))
    /\ Repeats \in Nat \ {0}
    /\ VerifyLimit \in 0..60     \* runtime.mbt:68 has 30
    /\ ISOLATED_WORKERS \in Nat \ {0} /\ LOAD_WORKERS \in Nat \ {0}
    /\ \A o \in Options : o.iterations \in Int /\ o.timeout \in Int

VARIABLES
    phase,            \* "start", "measure" or "exited"
    options,
    runs, controls,   \* what invokeRunner returned, in order
    exitCode,
    output            \* the file at --output

vars == <<phase, options, runs, controls, exitCode, output>>

-----------------------------------------------------------------------------
(* The plan of the experiment *)

uriTasks ==
    [i \in 1..(Repeats * Len(URI_CASES)) |-> URI_CASES[((i - 1) % Len(URI_CASES)) + 1]]

control == "control"

Conditions == <<"isolated", "load">>

Workers(condition) == IF condition = "isolated" THEN ISOLATED_WORKERS ELSE LOAD_WORKERS

(* The loops of main.  A control ends the iterations of its mode and        *)
(* condition, so the controls so far say where the loops are.               *)
BlocksDone == Len(controls)

Measuring == phase = "measure" /\ BlocksDone < 2 * Len(MODES)

IterationsLeft == Len(runs) < (BlocksDone + 1) * options.iterations

NextDescriptor ==
    [mode |-> MODES[(BlocksDone \div 2) + 1],
     condition |-> Conditions[(BlocksDone % 2) + 1],
     tasks |-> IF IterationsLeft THEN uriTasks ELSE <<control>>]

ParsesArgs(o) == o.complete /\ o.iterations > 0 /\ o.timeout > 0

(* validateInputs *)
InputsExist(o) == o.filesExist

(* resolveRepositoryRevision and resolveTest262Revision: the revision is    *)
(* read from a checkout of its own, and must otherwise be given.            *)
RevisionsKnown(o) == o.repositoryHead /\ (o.standalone \/ o.revisionGiven)

Accepts(o) == ParsesArgs(o) /\ InputsExist(o) /\ RevisionsKnown(o)

(* Mutation of OuterTimeout: the number of tests is not considered. *)
OuterTimeoutOfOne(tasks) == options.timeout + 60

(* In seconds. *)
OuterTimeout(tasks) ==
    LET bound == options.timeout * (Len(tasks) + 2) + 60 IN IF bound > 60 THEN bound ELSE 60

-----------------------------------------------------------------------------
(* The runner *)

(* A task whose test is excluded from the mode by its flags is dropped. *)
RunnerResults(d) ==
    UNION {{[i \in DOMAIN tasks |-> [case |-> tasks[i], mode |-> d.mode, status |-> st[i]]] :
            st \in [DOMAIN tasks -> Statuses]} :
           tasks \in {SelectSeq(d.tasks, LAMBDA t : t \in kept) : kept \in SUBSET Range(d.tasks)}}

(* The longest that a runner in order takes: each worker is busy with tests *)
(* that end within the timeout, after the engine was tried.                 *)
LongestRun(d) ==
    LET workers == Workers(d.condition) IN
    VerifyLimit + options.timeout * ((Len(d.tasks) + workers - 1) \div workers)

(* A runner in order writes its results last; one that is stuck may have    *)
(* written them or not.                                                     *)
Ends(d) ==
    {[exit |-> 0, artifact |-> "results", results |-> r] : r \in RunnerResults(d)}
        \union {[exit |-> 1, artifact |-> "none", results |-> <<>>],
                [exit |-> -1, artifact |-> "none", results |-> <<>>],
                [exit |-> -1, artifact |-> "unparsable", results |-> <<>>]}

StuckEnds(d) ==
    {[exit |-> -1, artifact |-> "none", results |-> <<>>]}
        \union {[exit |-> -1, artifact |-> "results", results |-> r] : r \in RunnerResults(d)}

-----------------------------------------------------------------------------
(* Judging the evidence *)

(* invocationError *)
InvocationError(r) ==
    r.outer_timeout \/ r.exit # 0 \/ r.artifact # "results"

(* validateUriRun *)
UriRunValid(r) ==
    /\ DOMAIN r.results = DOMAIN uriTasks
    /\ \A i \in DOMAIN r.results :
          r.results[i].mode = r.mode /\ r.results[i].status \in {"pass", "timeout"}
    /\ \A c \in Range(URI_CASES) :
          Cardinality({i \in DOMAIN r.results : r.results[i].case = c})
             = Cardinality({i \in DOMAIN uriTasks : uriTasks[i] = c})

(* Mutation of ControlRunValid: a control without a result is overlooked. *)
ControlRunMayBeEmpty(r) ==
    \A i \in DOMAIN r.results : r.results[i].status = "timeout" /\ r.results[i].mode = r.mode

(* validateControlRun *)
ControlRunValid(r) ==
    /\ Len(r.results) = 1
    /\ r.results[1].mode = r.mode
    /\ r.results[1].status = "timeout"
    /\ r.results[1].case = control

(* validateEvidence, with the execution errors of main. *)
EvidenceValid ==
    /\ \A r \in Range(runs) \union Range(controls) : ~InvocationError(r)
    /\ Len(runs) = Len(MODES) * 2 * options.iterations
    /\ Len(controls) = Len(MODES) * 2
    /\ \A r \in Range(runs) : UriRunValid(r)
    /\ \A r \in Range(controls) : ControlRunValid(r)

(* The URI results of a condition: run and place in it. *)
Sample(condition) ==
    UNION {{i} \X DOMAIN runs[i].results : i \in {i \in DOMAIN runs : runs[i].condition = condition}}

(* countStatus over the URI runs of a condition. *)
CountStatus(condition, status) ==
    Cardinality({x \in Sample(condition) : runs[x[1]].results[x[2]].status = status})

(* assessment *)
Assessment ==
    LET isolated == CountStatus("isolated", "timeout")
        load == CountStatus("load", "timeout")
    IN  CASE ~EvidenceValid -> "invalid"
          [] EvidenceValid /\ load > isolated -> "supported"
          [] EvidenceValid /\ load = 0 /\ isolated = 0 -> "not_reproduced"
          [] EvidenceValid /\ load < isolated -> "rejected"
          [] EvidenceValid /\ load = isolated /\ load # 0 -> "inconclusive"

-----------------------------------------------------------------------------
NoOutput == [fresh |-> FALSE, result |-> "none"]

NotRunning == -1

Init ==
    /\ phase = "start"
    /\ options \in Options
    /\ runs = <<>> /\ controls = <<>>
    /\ exitCode = NotRunning
    /\ output \in {NoOutput, [fresh |-> FALSE, result |-> "supported"]}

Exit(code) == phase' = "exited" /\ exitCode' = code

(* Arguments that do not parse are an error even beside --help. *)
Start ==
    /\ phase = "start"
    /\ IF options.help /\ ParsesArgs(options) THEN Exit(0)
       ELSE IF ~Accepts(options) THEN Exit(2)
       ELSE phase' = "measure" /\ UNCHANGED exitCode
    /\ UNCHANGED <<options, runs, controls, output>>

(* "stuck" is a history: whether the runner would have ended by itself.     *)
Record(d, end, outer, isStuck) ==
    LET record == [mode |-> d.mode, condition |-> d.condition, exit |-> end.exit,
                   outer_timeout |-> outer, artifact |-> end.artifact,
                   results |-> end.results, stuck |-> isStuck]
    IN  IF IterationsLeft
        THEN runs' = Append(runs, record) /\ UNCHANGED controls
        ELSE controls' = Append(controls, record) /\ UNCHANGED runs

(* invokeRunner.  A runner in order that outlives the bound is killed too.  *)
InvokeRunner ==
    /\ Measuring
    /\ LET d == NextDescriptor IN
       \E outer \in {FALSE} \union (IF LongestRun(d) > OuterTimeout(d.tasks) THEN {TRUE} ELSE {}) :
       \E end \in IF outer THEN StuckEnds(d) ELSE Ends(d) :
          Record(d, end, outer, FALSE)
    /\ UNCHANGED <<phase, options, exitCode, output>>

InvokeStuckRunner ==
    /\ Measuring
    /\ \E end \in StuckEnds(NextDescriptor) : Record(NextDescriptor, end, TRUE, TRUE)
    /\ UNCHANGED <<phase, options, exitCode, output>>

(* The end of main.  An evidence error makes the exit status 1, but the     *)
(* artifact is written all the same.                                        *)
WriteArtifact ==
    /\ phase = "measure"
    /\ BlocksDone = 2 * Len(MODES)
    /\ output' = [fresh |-> TRUE, result |-> Assessment]
    /\ Exit(IF EvidenceValid THEN 0 ELSE 1)
    /\ UNCHANGED <<options, runs, controls>>

(* A file cannot be written: the exception ends the program, and what an    *)
(* earlier one left at --output stays.                                      *)
Throw ==
    /\ phase = "measure"
    /\ Exit(1)
    /\ UNCHANGED <<options, runs, controls, output>>

Next == Start \/ InvokeRunner \/ InvokeStuckRunner \/ WriteArtifact \/ Throw

Spec == Init /\ [][Next]_vars

-----------------------------------------------------------------------------
(* Properties *)

Total(condition) ==
    CountStatus(condition, "pass") + CountStatus(condition, "timeout")

(* A conclusion rests on comparable samples: the program ends with 0 after  *)
(* measuring only if the file is its own and says more than "invalid", and  *)
(* then both conditions contributed every task in every mode and iteration, *)
(* the hanging control was stopped in each of them, and contention is       *)
(* called supported exactly when load had more timeouts.                    *)
(* (test_issue_695_uri_load.js: "must fail the evidence contract despite    *)
(* runner exit 0".)                                                         *)
ConclusionOnEvidence ==
    (exitCode = 0 /\ runs # <<>>) \/ (output.fresh /\ output.result # "invalid") =>
        /\ output.fresh /\ output.result # "invalid" /\ exitCode = 0
        /\ \A c \in Range(Conditions) :
              Total(c) = Len(MODES) * options.iterations * Repeats * Len(URI_CASES)
        /\ \A m \in Range(MODES), c \in Range(Conditions) :
              \E r \in Range(controls) :
                 /\ r.mode = m /\ r.condition = c
                 /\ r.results # <<>> /\ r.results[1].status = "timeout"
        /\ output.result = "supported"
              <=> CountStatus("load", "timeout") > CountStatus("isolated", "timeout")

(* The outer timeout is for runners that are stuck: however many of its     *)
(* tests run into their own timeout, one after the other when there is one  *)
(* worker, a runner in order is given the time to report them.  ("This      *)
(* outer bound only guards a runner process that fails to return after its  *)
(* own results are written", test262_uri_load_repro.js:249.)                *)
OuterTimeoutOnlyWhenStuck ==
    \A r \in Range(runs) \union Range(controls) : r.outer_timeout => r.stuck

=============================================================================
