------------------------ MODULE ReferenceExperiment -------------------------
(***************************************************************************)
(* The cross-engine JetStream experiment: the driver                       *)
(* (jetstream3_reference_experiment.js), the probe of one engine           *)
(* (jetstream3_reference_probe_core.js, jetstream3_admission.js), the      *)
(* processes they run, and the evidence directory, which outlives them.    *)
(*                                                                         *)
(* The driver is one process that can be killed at any time (its CI job    *)
(* times out) and be started again.  Engine processes run in the checkout  *)
(* and may write to it.                                                    *)
(***************************************************************************)
EXTENDS Integers, Sequences, SequencesExt

CONSTANTS
    Members,          \* EXPECTED_MEMBERS; the first one is js_engine
    Budget,           \* EXPERIMENT_TIMEOUT_MS
    Invocations,      \* command lines the driver is started with
    SpecFiles,        \* contents the specification files can have
    MaxOverhead,      \* bound on the time a probe spends outside its processes
    MaxAttempts       \* bound on the times the driver is started

Schedule == Members \o Reverse(Members)

Slots == 1..Len(Schedule)

Native == Members[1]

External == Range(Tail(Members))

ASSUME ExperimentAssumption ==
    /\ Members \in Seq(Range(Members)) /\ IsInjective(Members) /\ Len(Members) > 1
    /\ Budget \in Nat \ {0}
    /\ \A o \in Invocations : o.timeoutMs \in Int /\ o.complete \in BOOLEAN
    /\ \A specs \in SpecFiles : DOMAIN specs = External
    /\ MaxOverhead \in Nat /\ MaxAttempts \in Nat

VARIABLES
    phase,            \* what the driver is doing
    attempt,          \* which start of the driver this is
    timeoutMs,        \* timeoutMs
    slot, clock, deadline,
    processTimeoutMs,
    probes,           \* how the processes of this slot ended
    observations,
    pinned,           \* history: slots whose workload ran on a clean checkout
    files,            \* the attempt whose report lies under each slot's name
    index,            \* run-index.json
    checkout,         \* state of the JetStream checkout
    payload           \* whether each engine payload is the pinned one

(* The memory of the driver, and what outlives it. *)
memory == <<timeoutMs, slot, clock, deadline, processTimeoutMs, probes,
            observations, pinned>>

world == <<files, index, checkout, payload>>

vars == <<phase, attempt, memory, world>>

NoTime == -1

NoIndex == [attempt |-> 0, valid |-> FALSE, observations |-> <<>>, pinned |-> {}]

-----------------------------------------------------------------------------
(* Command line and specifications. *)

(* parseArgs: --help wins over everything that is checked after the loop. *)
ParsesArgs(o) == o.complete /\ o.timeoutMs > 0

(* validateCommonSpec *)
CommonSpecValid(spec) == spec.wellFormed

(* validateSpecifications: every external member has a well-formed          *)
(* specification of its own, and all agree on the shared fields.            *)
SpecificationsValid(specs) ==
    /\ \A m \in External : CommonSpecValid(specs[m]) /\ specs[m].id = m
    /\ \A m, n \in External : specs[m].shared = specs[n].shared

(* parseProbeArgs and parseArgs of the members. *)
MemberParses(timeout) == timeout > 0

-----------------------------------------------------------------------------
(* Judging a member's two processes. *)

ProcessFailed(p) == p.end # "exit 0"

(* parseResult finds a result that validateWorkloadResult may refuse.       *)
ResultFound(stdout) == stdout # "no result"

WorkloadResultValid(stdout) == stdout = "one score"

(* assessAdmission: the stages that fail.  A result that was found but is   *)
(* not one positive score of the workload fails validation only.            *)
FailedStages(p) ==
    {st \in {"test_discovery", "workload_execution",
             "workload_result_validation", "structured_result"} :
        CASE st = "test_discovery" ->
                ProcessFailed(p.discovery) \/ p.discovery.stdout # "only workload"
          [] st = "workload_execution" -> ProcessFailed(p.execution)
          [] st = "workload_result_validation" ->
                ~ResultFound(p.execution.stdout) \/ ~WorkloadResultValid(p.execution.stdout)
          [] st = "structured_result" -> ~ResultFound(p.execution.stdout)}

Assessment(p) == IF FailedStages(p) = {} THEN "admitted" ELSE "not_admitted"

(* js_engine's own probe returns the assessment.                            *)
NativeOutcome(p) == Assessment(p)

(* runReferenceProbe: a process that was killed or could not be launched    *)
(* leaves compatibility open.                                               *)
ExternalOutcome(p) ==
    IF "killed" \in {p.discovery.end, p.execution.end} THEN "probe_failed"
    ELSE IF Assessment(p) = "admitted" THEN "compatible" ELSE "incompatible"

Outcome(member, p) == IF member = Native THEN NativeOutcome(p) ELSE ExternalOutcome(p)

Expected(member) == IF member = Native THEN "admitted" ELSE "compatible"

Valid(obs) ==
    \A i \in 1..Len(obs) :
        /\ obs[i].raw_report
        /\ obs[i].outcome = Expected(obs[i].member)

-----------------------------------------------------------------------------
(* The driver. *)

NotRun == [discovery |-> [end |-> "not run", stdout |-> "none"],
           execution |-> [end |-> "not run", stdout |-> "none"]]

Init ==
    /\ phase = "idle"
    /\ attempt = 0
    /\ timeoutMs = NoTime /\ slot = 1 /\ clock = 0
    /\ deadline = NoTime /\ processTimeoutMs = NoTime
    /\ probes = NotRun /\ observations = <<>> /\ pinned = {}
    /\ files = [s \in Slots |-> 0]
    /\ index = NoIndex
    /\ checkout = "clean"
    /\ payload \in [External -> BOOLEAN]

DirectoryEmpty == index = NoIndex /\ \A s \in Slots : files[s] = 0

(* Mutation of MayStart: reports of an earlier attempt may lie about. *)
MayStartAnywhere(o, specs) == ParsesArgs(o) /\ SpecificationsValid(specs)

MayStart(o, specs) == ParsesArgs(o) /\ DirectoryEmpty /\ SpecificationsValid(specs)

(* main, up to the loop: it throws, or starts with the first slot. *)
Start(o, specs) ==
    /\ phase = "idle"
    /\ attempt < MaxAttempts
    /\ attempt' = attempt + 1
    /\ IF MayStart(o, specs)
       THEN phase' = "slot" /\ timeoutMs' = o.timeoutMs
       ELSE UNCHANGED <<phase, timeoutMs>>
    /\ UNCHANGED <<slot, clock, deadline, processTimeoutMs, probes, observations,
                   pinned, world>>

(* The process is gone, with its memory. *)
Exit ==
    /\ phase' = "idle"
    /\ timeoutMs' = NoTime /\ slot' = 1 /\ clock' = 0
    /\ deadline' = NoTime /\ processTimeoutMs' = NoTime
    /\ probes' = NotRun /\ observations' = <<>> /\ pinned' = {}
    /\ UNCHANGED attempt

(* The observation of the slot, and the step to the next one or the index.  *)
(* raw_report says whether a file lies under the slot's name by now.        *)
Observe(outcome, cause, present) ==
    /\ observations' = Append(observations,
          [slot |-> slot, member |-> Schedule[slot], outcome |-> outcome,
           cause |-> cause, raw_report |-> present])
    /\ slot' = slot + 1
    /\ phase' = IF slot = Len(Schedule) THEN "index" ELSE "slot"
    /\ processTimeoutMs' = NoTime
    /\ probes' = NotRun
    /\ UNCHANGED <<attempt, timeoutMs>>

(* Mutation of ProcessTimeout: each process gets all the time that is left. *)
ProcessTimeoutUnshared(remaining) ==
    IF timeoutMs < remaining THEN timeoutMs ELSE remaining

(* A member runs two processes one after the other, so that each gets half  *)
(* of the time that is left, but at least one millisecond.                  *)
ProcessTimeout(remaining) ==
    LET half == IF remaining \div 2 < 1 THEN 1 ELSE remaining \div 2
    IN  IF timeoutMs < half THEN timeoutMs ELSE half

(* The head of the loop.  The deadline counts from the first slot. *)
BeginSlot ==
    /\ phase = "slot"
    /\ deadline' = IF deadline = NoTime THEN clock + Budget ELSE deadline
    /\ deadline' - clock > 0
    /\ processTimeoutMs' = ProcessTimeout(deadline' - clock)
    /\ phase' = "preflight"
    /\ UNCHANGED <<attempt, timeoutMs, slot, clock, probes, observations, pinned, world>>

OutOfTime ==
    /\ phase = "slot"
    /\ deadline # NoTime /\ deadline - clock <= 0
    /\ Observe("not_run", "budget", files[slot] # 0)
    /\ UNCHANGED <<clock, deadline, pinned, world>>

(* An exception of a member is caught and observed; the loop goes on. *)
MemberThrows(cause) == Observe("experiment_failed", cause, files[slot] # 0)

(* Mutation of Verified: the checkout is taken on trust. *)
VerifiedPayload == Schedule[slot] # Native => payload[Schedule[slot]]

(* The pinned revision and the clean checkout. *)
CheckoutVerified == checkout = "clean"

(* The fingerprint of the payload of an external engine. *)
PayloadVerified(member) == payload[member]

Verified ==
    /\ CheckoutVerified
    /\ Schedule[slot] # Native => PayloadVerified(Schedule[slot])

(* runReferenceProbe and main of the admission, up to the first process. *)
Preflight ==
    /\ phase = "preflight"
    /\ \E d \in 0..MaxOverhead : clock' = clock + d
    /\ IF ~MemberParses(processTimeoutMs) THEN MemberThrows("arguments")
       ELSE IF ~Verified THEN MemberThrows("preflight")
       ELSE /\ phase' = "discovery"
            /\ UNCHANGED <<attempt, timeoutMs, slot, processTimeoutMs, probes, observations>>
    /\ UNCHANGED <<deadline, pinned, world>>

(* spawnSync: a process ends within its timeout, by itself or killed (the   *)
(* shells do not handle the signal), and has written what it wrote; it may  *)
(* leave files in the checkout.                                             *)
ProcessEnds(outputs) ==
    {[end |-> e, stdout |-> o] : e \in {"exit 0", "exit 1", "killed"}, o \in outputs}

Discovery ==
    /\ phase = "discovery"
    /\ \E p \in ProcessEnds({"only workload", "other"}) :
          probes' = [probes EXCEPT !.discovery = p]
    /\ \E d \in 0..processTimeoutMs : clock' = clock + d
    /\ checkout' \in {checkout, "dirty"}
    /\ phase' = "execution"
    /\ UNCHANGED <<attempt, timeoutMs, slot, deadline, processTimeoutMs,
                   observations, pinned, files, index, payload>>

Execution ==
    /\ phase = "execution"
    /\ \E p \in ProcessEnds({"one score", "other result", "no result"}) :
          probes' = [probes EXCEPT !.execution = p]
    /\ \E d \in 0..processTimeoutMs : clock' = clock + d
    /\ checkout' \in {checkout, "dirty"}
    /\ pinned' = IF checkout = "clean" THEN pinned \union {slot} ELSE pinned
    /\ phase' = "report"
    /\ UNCHANGED <<attempt, timeoutMs, slot, deadline, processTimeoutMs,
                   observations, files, index, payload>>

(* The report is the last thing a member does.  Writing it may throw, and   *)
(* may leave a file all the same.                                           *)
Report ==
    /\ phase = "report"
    /\ files' = [files EXCEPT ![slot] = attempt]
    /\ Observe(Outcome(Schedule[slot], probes), "none", TRUE)
    /\ UNCHANGED <<clock, deadline, pinned, index, checkout, payload>>

ReportFails ==
    /\ phase = "report"
    /\ files' \in {files, [files EXCEPT ![slot] = attempt]}
    /\ Observe("experiment_failed", "report", files'[slot] # 0)
    /\ UNCHANGED <<clock, deadline, pinned, index, checkout, payload>>

(* main, after the loop. *)
WriteIndex ==
    /\ phase = "index"
    /\ index' = [attempt |-> attempt, valid |-> Valid(observations),
                 observations |-> observations, pinned |-> pinned]
    /\ Exit
    /\ UNCHANGED <<files, checkout, payload>>

-----------------------------------------------------------------------------
(* The world outside. *)

(* The job is cancelled or times out; what is on disk stays. *)
Killed ==
    /\ phase # "idle"
    /\ Exit
    /\ UNCHANGED world

(* Between attempts someone may empty the directory or fetch the sources. *)
CleanUp ==
    /\ phase = "idle"
    /\ \/ files' = [s \in Slots |-> 0] /\ index' = NoIndex
       \/ UNCHANGED <<files, index>>
    /\ checkout' \in {checkout, "clean"}
    /\ UNCHANGED <<phase, attempt, memory, payload>>

Driver ==
    \/ BeginSlot \/ OutOfTime \/ Preflight \/ Discovery \/ Execution
    \/ Report \/ ReportFails \/ WriteIndex

Next ==
    \/ \E o \in Invocations, specs \in SpecFiles : Start(o, specs)
    \/ Driver
    \/ Killed
    \/ CleanUp

Spec == Init /\ [][Next]_vars

-----------------------------------------------------------------------------
(* Properties *)

(* What an index says, it says of its own attempt: one observation for each *)
(* slot of the schedule, in order, whatever failed before; reports written  *)
(* by this attempt; and, when it is valid, members that were verified, ran  *)
(* two processes to their end and scored.  (test_jetstream3_reference_      *)
(* experiment.js: "one failed invocation invalidates the experiment without *)
(* hiding later evidence", "an existing evidence directory cannot supply    *)
(* stale reports".)                                                         *)
IndexIsEvidence ==
    index # NoIndex =>
        /\ Len(index.observations) = Len(Schedule)
        /\ \A s \in Slots :
              LET o == index.observations[s] IN
              /\ o.slot = s /\ o.member = Schedule[s]
              /\ o.raw_report => files[s] = index.attempt
              /\ index.valid => o.outcome = Expected(o.member) /\ o.raw_report

(* A valid experiment measured the pinned sources: a checkout that a        *)
(* process changed is noticed before the next member runs, so that only the *)
(* last slot can have measured something else, and js_engine apart, every   *)
(* payload was the pinned one.                                              *)
ValidOnPinnedSources ==
    index.valid =>
        /\ Slots \ {Len(Schedule)} \subseteq index.pinned
        /\ \A m \in External : payload[m]

(* The budget is kept: processes start before the deadline and the two of   *)
(* the last slot end by it, but for the probe's own work and the last       *)
(* millisecond; and time that is left is enough to start a member with.     *)
BudgetKept ==
    /\ deadline # NoTime => clock <= deadline + MaxOverhead + 1
    /\ \A i \in 1..Len(observations) : observations[i].cause # "arguments"

=============================================================================
