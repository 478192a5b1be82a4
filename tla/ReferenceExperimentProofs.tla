---------------------- MODULE ReferenceExperimentProofs ---------------------
(***************************************************************************)
(* ReferenceExperiment for every list of members, every budget and any     *)
(* number of crashes and restarts.                                         *)
(***************************************************************************)
EXTENDS ReferenceExperiment, SequenceTheorems, TLAPS

Phases == {"idle", "slot", "preflight", "discovery", "execution", "report", "index"}

Outcomes == {"not_run", "experiment_failed", "probe_failed", "admitted",
             "not_admitted", "compatible", "incompatible"}

Causes == {"none", "budget", "arguments", "preflight", "report"}

Observations == [slot : Nat, member : Range(Members), outcome : Outcomes,
                 cause : Causes, raw_report : BOOLEAN]

TypeOK ==
    /\ phase \in Phases
    /\ attempt \in Nat
    /\ timeoutMs \in Int /\ processTimeoutMs \in Int
    /\ slot \in Nat /\ clock \in Nat /\ deadline \in Int
    /\ observations \in Seq(Observations)
    /\ files \in [Slots -> Nat]
    /\ checkout \in {"clean", "dirty"}

(* Where the driver is in the schedule.  While it runs there is no index,   *)
(* and every report in the directory is its own.                            *)
Progress ==
    IF phase = "idle"
    THEN slot = 1 /\ clock = 0 /\ deadline = NoTime /\ observations = <<>>
    ELSE /\ index = NoIndex
         /\ timeoutMs > 0
         /\ Len(observations) = slot - 1
         /\ slot \in 1..(Len(Schedule) + 1)
         /\ phase = "index" <=> slot = Len(Schedule) + 1
         /\ \A s \in Slots : files[s] \in {0, attempt}

(* Each observation is of its slot, and what it says of a report is so. *)
Recorded ==
    \A i \in 1..Len(observations) :
        /\ observations[i].slot = i
        /\ observations[i].member = Schedule[i]
        /\ observations[i].cause # "arguments"
        /\ observations[i].raw_report => files[i] = attempt

(* The two processes of a member fit in what is left of the budget, but for *)
(* its last millisecond, and the time of the probe itself.                  *)
Timing ==
    LET end == deadline + 1 + MaxOverhead IN
    /\ phase \in {"idle", "slot", "index"} =>
          \/ deadline = NoTime /\ clock = 0
          \/ deadline > 0 /\ clock <= end
    /\ phase \in {"preflight", "discovery", "execution"} =>
          deadline > 0 /\ processTimeoutMs > 0
    /\ phase = "preflight" => clock + 2 * processTimeoutMs <= deadline + 1
    /\ phase = "discovery" => clock + 2 * processTimeoutMs <= end
    /\ phase = "execution" => clock + processTimeoutMs <= end
    /\ phase = "report" => deadline > 0 /\ clock <= end

Good(o) == o.outcome = Expected(o.member)

Measuring == phase \in {"discovery", "execution", "report"}

(* A slot with the expected outcome ran on the pinned sources, or has left  *)
(* the checkout dirty; it then is dirty for good, so that no later slot     *)
(* can have the expected outcome.                                           *)
Pinning ==
    /\ \A i \in 1..Len(observations) : Good(observations[i]) =>
          /\ i \in pinned \/ checkout = "dirty"
          /\ observations[i].member # Native => payload[observations[i].member]
          /\ \A j \in 1..(i - 1) : Good(observations[j]) => j \in pinned
    /\ Measuring =>
          /\ \A j \in 1..(slot - 1) : Good(observations[j]) => j \in pinned
          /\ Schedule[slot] # Native => payload[Schedule[slot]]
    /\ phase = "report" => slot \in pinned \/ checkout = "dirty"

ExperimentInv ==
    /\ TypeOK
    /\ Progress
    /\ Recorded
    /\ Timing
    /\ Pinning
    /\ IndexIsEvidence
    /\ ValidOnPinnedSources

-----------------------------------------------------------------------------
(* The schedule names every member twice. *)
LEMMA ScheduleProperties ==
    /\ Schedule \in Seq(Range(Members))
    /\ Len(Schedule) \in Nat /\ Len(Schedule) > 1
    /\ \A s \in Slots : Schedule[s] \in Range(Members)
    /\ \A m \in External : m # Native /\ \E s \in Slots : Schedule[s] = m
<1> DEFINE M == Range(Members)
<1>1. /\ Members \in Seq(M) /\ Len(Members) \in Nat /\ Len(Members) > 1
      /\ DOMAIN Members = 1..Len(Members)
  BY ExperimentAssumption
<1>2. Reverse(Members) \in Seq(M) /\ Len(Reverse(Members)) = Len(Members)
  <2>1. Reverse(Members) = [i \in 1..Len(Members) |-> Members[(Len(Members) - i) + 1]]
    BY DEF Reverse
  <2>2. \A i \in 1..Len(Members) : Members[(Len(Members) - i) + 1] \in M
    BY <1>1, ElementOfSeq
  <2> QED
    BY <1>1, <2>1, <2>2, IsASeq
<1>3. /\ Schedule \in Seq(M) /\ Len(Schedule) = 2 * Len(Members)
      /\ \A i \in 1..Len(Members) : Schedule[i] = Members[i]
  BY <1>1, <1>2, ConcatProperties DEF Schedule
<1>4. \A s \in Slots : Schedule[s] \in M
  BY <1>3, ElementOfSeq DEF Slots
<1>5. ASSUME NEW m \in External
      PROVE  m # Native /\ \E s \in Slots : Schedule[s] = m
  <2>1. PICK i \in 1..Len(Tail(Members)) : m = Tail(Members)[i]
    BY <1>1, HeadTailProperties DEF External, Range
  <2>2. i + 1 \in 2..Len(Members) /\ m = Members[i + 1]
    BY <1>1, <2>1, HeadTailProperties
  <2>3. m # Native
    BY <1>1, <2>2, ExperimentAssumption DEF Native, IsInjective
  <2> QED
    BY <1>1, <1>3, <2>2, <2>3 DEF Slots
<1> QED
  BY <1>1, <1>3, <1>4, <1>5

(* Nothing is claimed of a directory without an index. *)
LEMMA NoIndexClaims ==
    ASSUME index' = NoIndex
    PROVE  IndexIsEvidence' /\ ValidOnPinnedSources'
BY DEF NoIndex, IndexIsEvidence, ValidOnPinnedSources

(* What Observe appends, and that it leaves what was observed before. *)
LEMMA ObserveAppends ==
    ASSUME TypeOK, slot \in Slots,
           NEW outcome \in Outcomes, NEW cause \in Causes, NEW present \in BOOLEAN,
           Observe(outcome, cause, present)
    PROVE  LET n == Len(observations) IN
           /\ n \in Nat
           /\ observations' \in Seq(Observations)
           /\ Len(observations') = n + 1
           /\ \A i \in 1..n : observations'[i] = observations[i]
           /\ observations'[n + 1] =
                 [slot |-> slot, member |-> Schedule[slot], outcome |-> outcome,
                  cause |-> cause, raw_report |-> present]
<1> DEFINE o == [slot |-> slot, member |-> Schedule[slot], outcome |-> outcome,
                 cause |-> cause, raw_report |-> present]
<1>1. o \in Observations
  BY ScheduleProperties DEF TypeOK, Observations
<1>2. observations' = Append(observations, o) /\ observations \in Seq(Observations)
  BY DEF Observe, TypeOK
<1>3. Len(observations) \in Nat
  BY <1>2
<1> HIDE DEF o
<1>4. /\ observations' \in Seq(Observations)
      /\ Len(observations') = Len(observations) + 1
      /\ \A i \in 1..Len(observations) : observations'[i] = observations[i]
      /\ observations'[Len(observations) + 1] = o
  BY <1>1, <1>2, AppendProperties
<1> QED
  BY <1>3, <1>4 DEF o

(* A slot of the schedule is in progress. *)
LEMMA InSlot ==
    ASSUME TypeOK, Progress, phase \notin {"idle", "index"}
    PROVE  /\ slot \in Slots
           /\ Len(observations) = slot - 1
           /\ index = NoIndex
           /\ \A s \in Slots : files[s] \in {0, attempt}
BY ScheduleProperties DEF TypeOK, Progress, Slots

(* The end of a slot, however it comes about. *)
LEMMA ObserveInv ==
    ASSUME ExperimentInv, phase \notin {"idle", "index"},
           NEW outcome \in Outcomes, NEW cause \in Causes \ {"arguments"},
           NEW present \in BOOLEAN, Observe(outcome, cause, present),
           files' \in {files, [files EXCEPT ![slot] = attempt]},
           present => files'[slot] = attempt,
           outcome = Expected(Schedule[slot]) => phase = "report",
           clock' \in Nat, deadline > 0, clock' <= deadline + 1 + MaxOverhead,
           UNCHANGED <<deadline, pinned, index, checkout, payload>>
    PROVE  ExperimentInv'
<1>t. TypeOK /\ Progress /\ Recorded /\ Pinning
  BY DEF ExperimentInv
<1>1. /\ slot \in Slots /\ slot \in Nat /\ slot > 0
      /\ Len(observations) = slot - 1 /\ index = NoIndex
      /\ \A s \in Slots : files[s] \in {0, attempt}
      /\ Len(Schedule) \in Nat /\ slot <= Len(Schedule)
      /\ attempt \in Nat
  BY <1>t, InSlot, ScheduleProperties DEF Slots, TypeOK
<1>2. /\ observations' \in Seq(Observations)
      /\ Len(observations') = slot
      /\ \A i \in 1..(slot - 1) : observations'[i] = observations[i]
      /\ observations'[slot] =
            [slot |-> slot, member |-> Schedule[slot], outcome |-> outcome,
             cause |-> cause, raw_report |-> present]
  BY <1>t, <1>1, ObserveAppends
<1>3. /\ slot' = slot + 1
      /\ phase' = IF slot = Len(Schedule) THEN "index" ELSE "slot"
      /\ processTimeoutMs' = NoTime
      /\ attempt' = attempt /\ timeoutMs' = timeoutMs
  BY DEF Observe
<1>4. /\ files' \in [Slots -> Nat]
      /\ \A s \in Slots : files'[s] \in {0, attempt}
      /\ \A s \in Slots : files[s] = attempt => files'[s] = attempt
  BY <1>t, <1>1 DEF TypeOK
<1>5. TypeOK'
  BY <1>t, <1>1, <1>2, <1>3, <1>4 DEF TypeOK, Phases, NoTime
<1>6. Progress'
  BY <1>t, <1>1, <1>2, <1>3, <1>4 DEF Progress
<1>7. Recorded'
  <2> SUFFICES ASSUME NEW i \in 1..slot
               PROVE  /\ observations'[i].slot = i
                      /\ observations'[i].member = Schedule[i]
                      /\ observations'[i].cause # "arguments"
                      /\ observations'[i].raw_report => files'[i] = attempt'
    BY <1>2 DEF Recorded
  <2>1. CASE i = slot
    BY <2>1, <1>2, <1>3
  <2>2. CASE i # slot
    <3>1. /\ i \in 1..Len(observations) /\ i \in Slots
          /\ observations'[i] = observations[i]
      BY <2>2, <1>1, <1>2 DEF Slots
    <3>2. /\ observations[i].slot = i /\ observations[i].member = Schedule[i]
          /\ observations[i].cause # "arguments"
          /\ observations[i].raw_report => files[i] = attempt
      BY <1>t, <3>1 DEF Recorded
    <3> QED
      BY <1>3, <1>4, <3>1, <3>2
  <2> QED
    BY <2>1, <2>2
<1>8. Timing'
  BY <1>3 DEF Timing
<1>9. Pinning'
  <2>1. Good(observations'[slot]) =>
           /\ slot \in pinned \/ checkout = "dirty"
           /\ Schedule[slot] # Native => payload[Schedule[slot]]
           /\ \A j \in 1..(slot - 1) : Good(observations[j]) => j \in pinned
    BY <1>t, <1>2 DEF Pinning, Good, Measuring
  <2>2. ASSUME NEW i \in 1..slot, Good(observations'[i])
        PROVE  /\ i \in pinned \/ checkout = "dirty"
               /\ observations'[i].member # Native => payload[observations'[i].member]
               /\ \A j \in 1..(i - 1) : Good(observations'[j]) => j \in pinned
    <3>1. CASE i = slot
      BY <1>2, <2>1, <2>2, <3>1
    <3>2. CASE i # slot
      BY <1>t, <1>1, <1>2, <2>2, <3>2 DEF Pinning
    <3> QED
      BY <3>1, <3>2
  <2>3. ~Measuring' /\ phase' # "report"
    BY <1>3 DEF Measuring
  <2> QED
    BY <1>2, <2>2, <2>3 DEF Pinning
<1> QED
  BY <1>1, <1>5, <1>6, <1>7, <1>8, <1>9, NoIndexClaims DEF ExperimentInv

(* A step inside a slot, which observes nothing. *)
LEMMA InsideInv ==
    ASSUME ExperimentInv, phase \notin {"idle", "index"},
           phase' \in {"preflight", "discovery", "execution", "report"},
           UNCHANGED <<attempt, timeoutMs, slot, observations, files, index, payload>>,
           clock' \in Nat, deadline' \in Int, processTimeoutMs' \in Int,
           checkout' \in {"clean", "dirty"},
           checkout = "dirty" => checkout' = "dirty",
           pinned \subseteq pinned',
           Timing',
           phase' # "preflight" =>
              /\ \A j \in 1..(slot - 1) : Good(observations[j]) => j \in pinned'
              /\ Schedule[slot] # Native => payload[Schedule[slot]],
           phase' = "report" => slot \in pinned' \/ checkout' = "dirty"
    PROVE  ExperimentInv'
<1>t. TypeOK /\ Progress /\ Recorded /\ Pinning
  BY DEF ExperimentInv
<1>1. TypeOK'
  BY <1>t DEF TypeOK, Phases
<1>2. Progress'
  BY <1>t DEF Progress
<1>3. Recorded'
  BY <1>t DEF Recorded
<1>4. Pinning'
  <2>1. \A i \in 1..Len(observations) : Good(observations[i]) =>
          /\ i \in pinned' \/ checkout' = "dirty"
          /\ observations[i].member # Native => payload[observations[i].member]
          /\ \A j \in 1..(i - 1) : Good(observations[j]) => j \in pinned'
    BY <1>t DEF Pinning
  <2> QED
    BY <2>1 DEF Pinning, Measuring
<1>5. index' = NoIndex
  BY <1>t, InSlot
<1> QED
  BY <1>1, <1>2, <1>3, <1>4, <1>5, NoIndexClaims DEF ExperimentInv

(* The driver is gone: what it knew is forgotten, and only what the index   *)
(* says remains to be shown.                                                *)
LEMMA ExitInv ==
    ASSUME TypeOK, Exit, UNCHANGED <<files, checkout>>,
           IndexIsEvidence', ValidOnPinnedSources'
    PROVE  ExperimentInv'
<1>1. /\ phase' = "idle" /\ observations' = <<>> /\ Len(observations') = 0
      /\ slot' = 1 /\ clock' = 0 /\ deadline' = NoTime
  BY DEF Exit
<1>2. TypeOK'
  BY <1>1 DEF TypeOK, Exit, Phases, NoTime
<1>3. Progress' /\ Recorded' /\ Timing' /\ Pinning'
  BY <1>1 DEF Progress, Recorded, Timing, Pinning, Measuring, NoTime
<1> QED
  BY <1>2, <1>3 DEF ExperimentInv

LEMMA StartInv ==
    ASSUME ExperimentInv, NEW o \in Invocations, NEW specs \in SpecFiles, Start(o, specs)
    PROVE  ExperimentInv'
<1>t. TypeOK /\ Progress /\ Timing
  BY DEF ExperimentInv
<1>1. /\ phase = "idle" /\ attempt' = attempt + 1
      /\ UNCHANGED <<slot, clock, deadline, processTimeoutMs, probes, observations,
                     pinned, files, index, checkout, payload>>
  BY DEF Start, world
<1>2. /\ observations = <<>> /\ Len(observations) = 0 /\ slot = 1
      /\ clock = 0 /\ deadline = NoTime
  BY <1>t, <1>1 DEF Progress
<1>3. Recorded' /\ Pinning'
  BY <1>1, <1>2 DEF Recorded, Pinning, Start, Measuring
<1>4. IndexIsEvidence' /\ ValidOnPinnedSources'
  BY <1>1 DEF ExperimentInv, IndexIsEvidence, ValidOnPinnedSources
<1>5. CASE MayStart(o, specs)
  <2>1. /\ phase' = "slot" /\ timeoutMs' = o.timeoutMs /\ timeoutMs' \in Int
        /\ timeoutMs' > 0 /\ index = NoIndex /\ \A s \in Slots : files[s] = 0
    BY <1>5, ExperimentAssumption DEF Start, MayStart, ParsesArgs, DirectoryEmpty
  <2>2. TypeOK'
    BY <1>t, <1>1, <2>1 DEF TypeOK, Phases
  <2>3. Progress' /\ Timing'
    BY <1>1, <1>2, <2>1, ScheduleProperties DEF Progress, Timing
  <2> QED
    BY <1>3, <1>4, <2>2, <2>3 DEF ExperimentInv
<1>6. CASE ~MayStart(o, specs)
  <2>1. phase' = phase /\ timeoutMs' = timeoutMs
    BY <1>6 DEF Start
  <2>2. TypeOK' /\ Progress' /\ Timing'
    BY <1>t, <1>1, <1>2, <2>1 DEF TypeOK, Progress, Timing
  <2> QED
    BY <1>3, <1>4, <2>2 DEF ExperimentInv
<1> QED
  BY <1>5, <1>6

(* Half of what is left, rounded down, is enough time for one millisecond   *)
(* and not too much but for one.                                            *)
LEMMA TimeoutFits ==
    ASSUME NEW remaining \in Nat \ {0}, timeoutMs \in Int, timeoutMs > 0
    PROVE  /\ ProcessTimeout(remaining) \in Int
           /\ ProcessTimeout(remaining) > 0
           /\ 2 * ProcessTimeout(remaining) <= remaining + 1
<1> DEFINE q == remaining \div 2
<1>1. q \in Nat /\ 2 * q <= remaining
  OBVIOUS
<1>2. ProcessTimeout(remaining) =
         LET half == IF q < 1 THEN 1 ELSE q
         IN  IF timeoutMs < half THEN timeoutMs ELSE half
  BY DEF ProcessTimeout
<1> HIDE DEF q
<1> QED
  BY <1>1, <1>2

LEMMA BeginSlotInv ==
    ASSUME ExperimentInv, BeginSlot
    PROVE  ExperimentInv'
<1>t. TypeOK /\ Progress /\ Timing
  BY DEF ExperimentInv
<1>1. /\ phase = "slot" /\ phase' = "preflight"
      /\ UNCHANGED <<attempt, timeoutMs, slot, clock, observations, pinned,
                     files, index, checkout, payload>>
  BY DEF BeginSlot, world
<1>2. timeoutMs > 0 /\ timeoutMs \in Int /\ clock \in Nat /\ deadline \in Int
      /\ checkout \in {"clean", "dirty"}
  BY <1>t, <1>1 DEF TypeOK, Progress
<1>3. deadline' \in Int /\ deadline' - clock \in Nat \ {0}
  BY <1>2, ExperimentAssumption DEF BeginSlot
<1>4. /\ processTimeoutMs' \in Int /\ processTimeoutMs' > 0
      /\ 2 * processTimeoutMs' <= (deadline' - clock) + 1
  BY <1>2, <1>3, TimeoutFits DEF BeginSlot
<1>5. deadline' > 0 /\ clock' + 2 * processTimeoutMs' <= deadline' + 1
  <2>1. PICK e \in Int, t \in Int : deadline' = e /\ processTimeoutMs' = t
    BY <1>3, <1>4
  <2>2. e - clock > 0 /\ 2 * t <= (e - clock) + 1
    BY <1>3, <1>4, <2>1
  <2>3. e > 0 /\ clock + 2 * t <= e + 1
    BY <1>2, <2>2
  <2>4. clock' = clock
    BY <1>1
  <2> QED
    BY <2>1, <2>3, <2>4
<1>6. Timing'
  BY <1>1, <1>4, <1>5 DEF Timing
<1> QED
  BY <1>1, <1>2, <1>3, <1>4, <1>6, InsideInv

(* Outcomes that are not the expected one of any member. *)
LEMMA NotExpected ==
    ASSUME NEW m
    PROVE  Expected(m) # "not_run" /\ Expected(m) # "experiment_failed"
BY DEF Expected

LEMMA OutOfTimeInv ==
    ASSUME ExperimentInv, OutOfTime
    PROVE  ExperimentInv'
<1>1. /\ phase = "slot" /\ deadline # NoTime
      /\ Observe("not_run", "budget", files[slot] # 0)
      /\ UNCHANGED <<clock, deadline, pinned, files, index, checkout, payload>>
  BY DEF OutOfTime, world
<1>2. /\ clock \in Nat /\ deadline > 0 /\ clock <= deadline + 1 + MaxOverhead
      /\ slot \in Slots /\ files[slot] \in {0, attempt}
  BY <1>1, InSlot DEF ExperimentInv, TypeOK, Timing
<1>3. PICK present \in BOOLEAN : present = (files[slot] # 0)
  OBVIOUS
<1>4. Observe("not_run", "budget", present)
  BY <1>1, <1>3 DEF Observe
<1>5. present => files'[slot] = attempt
  BY <1>1, <1>2, <1>3
<1> QED
  BY <1>1, <1>2, <1>4, <1>5, NotExpected, ObserveInv DEF Outcomes, Causes

LEMMA PreflightInv ==
    ASSUME ExperimentInv, Preflight
    PROVE  ExperimentInv'
<1>t. TypeOK /\ Progress /\ Timing /\ Pinning
  BY DEF ExperimentInv
<1>1. /\ phase = "preflight"
      /\ UNCHANGED <<deadline, pinned, files, index, checkout, payload>>
  BY DEF Preflight, world
<1>2. PICK d \in 0..MaxOverhead : clock' = clock + d
  BY DEF Preflight
<1>3. /\ clock \in Nat /\ deadline \in Int /\ processTimeoutMs \in Int
      /\ deadline > 0 /\ processTimeoutMs > 0
      /\ clock + 2 * processTimeoutMs <= deadline + 1
      /\ MaxOverhead \in Nat
  BY <1>t, <1>1, ExperimentAssumption DEF TypeOK, Timing
<1>4. /\ clock' \in Nat
      /\ clock' + 2 * processTimeoutMs <= deadline + 1 + MaxOverhead
      /\ clock' <= deadline + 1 + MaxOverhead
  BY <1>2, <1>3
<1>5. MemberParses(processTimeoutMs)
  BY <1>3 DEF MemberParses
<1>6. CASE ~Verified
  <2>1. Observe("experiment_failed", "preflight", files[slot] # 0)
    BY <1>5, <1>6 DEF Preflight, MemberThrows
  <2>2. slot \in Slots /\ files[slot] \in {0, attempt}
    BY <1>t, <1>1, InSlot
  <2>3. PICK present \in BOOLEAN : present = (files[slot] # 0)
    OBVIOUS
  <2>4. Observe("experiment_failed", "preflight", present)
    BY <2>1, <2>3 DEF Observe
  <2>5. present => files'[slot] = attempt
    BY <1>1, <2>2, <2>3
  <2> QED
    BY <1>1, <1>3, <1>4, <2>4, <2>5, NotExpected, ObserveInv DEF Outcomes, Causes
<1>7. CASE Verified
  <2>1. /\ phase' = "discovery"
        /\ UNCHANGED <<attempt, timeoutMs, slot, processTimeoutMs, observations>>
    BY <1>5, <1>7 DEF Preflight
  <2>2. /\ checkout = "clean"
        /\ Schedule[slot] # Native => payload[Schedule[slot]]
    BY <1>7 DEF Verified, CheckoutVerified, PayloadVerified
  <2>3. \A j \in 1..(slot - 1) : Good(observations[j]) => j \in pinned
    BY <1>t, <1>1, <2>2, InSlot DEF Pinning
  <2>4. Timing'
    BY <1>1, <1>3, <1>4, <2>1 DEF Timing
  <2> QED
    BY <1>1, <1>3, <1>4, <2>1, <2>2, <2>3, <2>4, InsideInv
<1> QED
  BY <1>6, <1>7

LEMMA DiscoveryInv ==
    ASSUME ExperimentInv, Discovery
    PROVE  ExperimentInv'
<1>t. TypeOK /\ Timing /\ Pinning
  BY DEF ExperimentInv
<1>1. /\ phase = "discovery" /\ phase' = "execution"
      /\ UNCHANGED <<attempt, timeoutMs, slot, deadline, processTimeoutMs,
                     observations, pinned, files, index, payload>>
      /\ checkout' \in {checkout, "dirty"}
  BY DEF Discovery
<1>2. PICK d \in 0..processTimeoutMs : clock' = clock + d
  BY DEF Discovery
<1>3. /\ clock \in Nat /\ deadline \in Int /\ processTimeoutMs \in Int
      /\ deadline > 0 /\ processTimeoutMs > 0
      /\ clock + 2 * processTimeoutMs <= deadline + 1 + MaxOverhead
      /\ checkout \in {"clean", "dirty"} /\ MaxOverhead \in Nat
  BY <1>t, <1>1, ExperimentAssumption DEF TypeOK, Timing
<1>4. clock' \in Nat /\ clock' + processTimeoutMs <= deadline + 1 + MaxOverhead
  BY <1>2, <1>3
<1>5. Timing'
  BY <1>1, <1>3, <1>4 DEF Timing
<1>6. /\ \A j \in 1..(slot - 1) : Good(observations[j]) => j \in pinned
      /\ Schedule[slot] # Native => payload[Schedule[slot]]
  BY <1>t, <1>1 DEF Pinning, Measuring
<1> QED
  BY <1>1, <1>3, <1>4, <1>5, <1>6, InsideInv

LEMMA ExecutionInv ==
    ASSUME ExperimentInv, Execution
    PROVE  ExperimentInv'
<1>t. TypeOK /\ Timing /\ Pinning
  BY DEF ExperimentInv
<1>1. /\ phase = "execution" /\ phase' = "report"
      /\ UNCHANGED <<attempt, timeoutMs, slot, deadline, processTimeoutMs,
                     observations, files, index, payload>>
      /\ checkout' \in {checkout, "dirty"}
      /\ pinned' = IF checkout = "clean" THEN pinned \union {slot} ELSE pinned
  BY DEF Execution
<1>2. PICK d \in 0..processTimeoutMs : clock' = clock + d
  BY DEF Execution
<1>3. /\ clock \in Nat /\ deadline \in Int /\ processTimeoutMs \in Int
      /\ deadline > 0 /\ processTimeoutMs > 0
      /\ clock + processTimeoutMs <= deadline + 1 + MaxOverhead
      /\ checkout \in {"clean", "dirty"} /\ MaxOverhead \in Nat
  BY <1>t, <1>1, ExperimentAssumption DEF TypeOK, Timing
<1>4. clock' \in Nat /\ clock' <= deadline + 1 + MaxOverhead
  BY <1>2, <1>3
<1>5. Timing'
  BY <1>1, <1>3, <1>4 DEF Timing
<1>6. /\ \A j \in 1..(slot - 1) : Good(observations[j]) => j \in pinned
      /\ Schedule[slot] # Native => payload[Schedule[slot]]
  BY <1>t, <1>1 DEF Pinning, Measuring
<1>7. pinned \subseteq pinned' /\ (slot \in pinned' \/ checkout' = "dirty")
  BY <1>1, <1>3
<1> QED
  BY <1>1, <1>3, <1>4, <1>5, <1>6, <1>7, InsideInv

LEMMA ReportInv ==
    ASSUME ExperimentInv, Report \/ ReportFails
    PROVE  ExperimentInv'
<1>1. /\ phase = "report"
      /\ UNCHANGED <<clock, deadline, pinned, index, checkout, payload>>
      /\ files' \in {files, [files EXCEPT ![slot] = attempt]}
  BY DEF Report, ReportFails
<1>2. /\ clock \in Nat /\ deadline > 0 /\ clock <= deadline + 1 + MaxOverhead
      /\ slot \in Slots /\ files[slot] \in {0, attempt} /\ files \in [Slots -> Nat]
  BY <1>1, InSlot DEF ExperimentInv, TypeOK, Timing
<1>3. files'[slot] \in {0, attempt}
  BY <1>1, <1>2
<1>4. CASE Report
  <2>1. /\ Observe(Outcome(Schedule[slot], probes), "none", TRUE)
        /\ files'[slot] = attempt
    BY <1>2, <1>4 DEF Report
  <2>2. PICK outcome \in Outcomes : outcome = Outcome(Schedule[slot], probes)
    <3>1. Assessment(probes) \in {"admitted", "not_admitted"}
      BY DEF Assessment
    <3> QED
      BY <3>1 DEF Outcome, NativeOutcome, ExternalOutcome, Outcomes
  <2>3. Observe(outcome, "none", TRUE)
    BY <2>1, <2>2 DEF Observe
  <2> QED
    BY <1>1, <1>2, <2>1, <2>3, ObserveInv DEF Causes
<1>5. CASE ReportFails
  <2>1. PICK present \in BOOLEAN : present = (files'[slot] # 0)
    OBVIOUS
  <2>2. Observe("experiment_failed", "report", present)
    BY <1>5, <2>1 DEF ReportFails, Observe
  <2>3. present => files'[slot] = attempt
    BY <1>3, <2>1
  <2> QED
    BY <1>1, <1>2, <2>2, <2>3, NotExpected, ObserveInv DEF Outcomes, Causes
<1> QED
  BY <1>4, <1>5

(* The index is written after the last slot.  It is valid only if every     *)
(* slot had the expected outcome, and then the last one vouches for all     *)
(* before it.                                                               *)
LEMMA WriteIndexInv ==
    ASSUME ExperimentInv, WriteIndex
    PROVE  ExperimentInv'
<1>t. TypeOK /\ Progress /\ Recorded /\ Pinning
  BY DEF ExperimentInv
<1>1. /\ phase = "index" /\ Exit
      /\ index' = [attempt |-> attempt, valid |-> Valid(observations),
                   observations |-> observations, pinned |-> pinned]
      /\ UNCHANGED <<files, checkout, payload>>
  BY DEF WriteIndex
<1>2. /\ Len(observations) = Len(Schedule)
      /\ Len(Schedule) \in Nat /\ Len(Schedule) > 1
      /\ Slots = 1..Len(Schedule)
  BY <1>t, <1>1, ScheduleProperties DEF Progress, Slots
<1>3. IndexIsEvidence'
  <2> SUFFICES ASSUME NEW s \in Slots
               PROVE  LET o == observations[s] IN
                      /\ o.slot = s /\ o.member = Schedule[s]
                      /\ o.raw_report => files[s] = attempt
                      /\ Valid(observations) =>
                            o.outcome = Expected(o.member) /\ o.raw_report
    BY <1>1, <1>2 DEF IndexIsEvidence
  <2> QED
    BY <1>t, <1>2 DEF Recorded, Valid
<1>4. ValidOnPinnedSources'
  <2> SUFFICES ASSUME Valid(observations)
               PROVE  /\ Slots \ {Len(Schedule)} \subseteq pinned
                      /\ \A m \in External : payload[m]
    BY <1>1 DEF ValidOnPinnedSources
  <2>1. \A s \in Slots : Good(observations[s]) /\ observations[s].member = Schedule[s]
    BY <1>t, <1>2 DEF Valid, Good, Recorded
  <2>2. \A j \in 1..(Len(Schedule) - 1) : j \in pinned
    BY <1>t, <1>2, <2>1 DEF Pinning
  <2>3. ASSUME NEW m \in External
        PROVE  payload[m]
    <3>1. m # Native /\ \E s \in Slots : Schedule[s] = m
      BY ScheduleProperties
    <3> QED
      BY <1>t, <1>2, <2>1, <3>1 DEF Pinning
  <2> QED
    BY <1>2, <2>2, <2>3
<1> QED
  BY <1>t, <1>1, <1>3, <1>4, ExitInv

LEMMA OutsideInv ==
    ASSUME ExperimentInv, Killed \/ CleanUp
    PROVE  ExperimentInv'
<1>t. TypeOK /\ Progress /\ Recorded /\ Timing /\ IndexIsEvidence /\ ValidOnPinnedSources
  BY DEF ExperimentInv
<1>1. CASE Killed
  <2>1. Exit /\ UNCHANGED <<files, index, checkout, payload>>
    BY <1>1 DEF Killed, world
  <2>2. IndexIsEvidence' /\ ValidOnPinnedSources'
    BY <1>t, <2>1 DEF IndexIsEvidence, ValidOnPinnedSources
  <2> QED
    BY <1>t, <2>1, <2>2, ExitInv
<1>2. CASE CleanUp
  <2>1. /\ phase = "idle" /\ checkout' \in {checkout, "clean"}
        /\ UNCHANGED <<phase, attempt, timeoutMs, slot, clock, deadline,
                       processTimeoutMs, observations, pinned, payload>>
        /\ \/ files' = [s \in Slots |-> 0] /\ index' = NoIndex
           \/ UNCHANGED <<files, index>>
    BY <1>2 DEF CleanUp, memory
  <2>2. IndexIsEvidence' /\ ValidOnPinnedSources'
    BY <1>t, <2>1, NoIndexClaims DEF IndexIsEvidence, ValidOnPinnedSources
  <2>3. observations = <<>> /\ Len(observations) = 0
    BY <1>t, <2>1 DEF Progress
  <2>4. TypeOK'
    BY <1>t, <2>1 DEF TypeOK
  <2>5. Progress' /\ Timing'
    BY <1>t, <2>1 DEF Progress, Timing
  <2>6. Recorded' /\ Pinning'
    BY <2>1, <2>3 DEF Recorded, Pinning, Measuring
  <2> QED
    BY <2>2, <2>4, <2>5, <2>6 DEF ExperimentInv
<1> QED
  BY <1>1, <1>2

-----------------------------------------------------------------------------
(* The inductive invariant holds over any number of attempts, each of which *)
(* may be killed anywhere.                                                  *)
THEOREM ExperimentInvariant == Spec => []ExperimentInv
<1>1. Init => ExperimentInv
  <2> SUFFICES ASSUME Init PROVE ExperimentInv
    OBVIOUS
  <2>1. TypeOK
    BY EmptySeq DEF Init, TypeOK, Phases, NoTime
  <2>2. Progress /\ Recorded /\ Timing /\ Pinning
    BY DEF Init, Progress, Recorded, Timing, Pinning, Measuring
  <2>3. IndexIsEvidence /\ ValidOnPinnedSources
    BY DEF Init, NoIndex, IndexIsEvidence, ValidOnPinnedSources
  <2> QED
    BY <2>1, <2>2, <2>3 DEF ExperimentInv
<1>2. ExperimentInv /\ [Next]_vars => ExperimentInv'
  <2> SUFFICES ASSUME ExperimentInv, [Next]_vars
               PROVE  ExperimentInv'
    OBVIOUS
  <2>1. CASE UNCHANGED vars
    BY <2>1 DEF vars, memory, world, ExperimentInv, TypeOK, Progress, Recorded,
       Timing, Pinning, Measuring, IndexIsEvidence, ValidOnPinnedSources
  <2>2. CASE Next
    BY <2>2, StartInv, BeginSlotInv, OutOfTimeInv, PreflightInv, DiscoveryInv,
       ExecutionInv, ReportInv, WriteIndexInv, OutsideInv DEF Next, Driver
  <2> QED
    BY <2>1, <2>2
<1> QED
  BY <1>1, <1>2, PTL DEF Spec

(* Whatever failed, and whatever earlier attempts left, an index speaks of  *)
(* its own attempt.                                                         *)
THEOREM IndexIsOwnEvidence == Spec => []IndexIsEvidence
BY ExperimentInvariant, PTL DEF ExperimentInv

(* A valid experiment measured the pinned sources. *)
THEOREM ValidMeansPinned == Spec => []ValidOnPinnedSources
BY ExperimentInvariant, PTL DEF ExperimentInv

(* The budget is kept, whatever is left of it when a slot begins. *)
THEOREM BudgetIsKept == Spec => []BudgetKept
<1>1. ExperimentInv => BudgetKept
  BY ExperimentAssumption, SMTT(30) DEF ExperimentInv, TypeOK, Phases, Timing, Recorded, BudgetKept
<1> QED
  BY <1>1, ExperimentInvariant, PTL
=============================================================================
