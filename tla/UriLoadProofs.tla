---------------------------- MODULE UriLoadProofs ----------------------------
(***************************************************************************)
(* UriLoad for any modes, cases, repeats, numbers of workers and command   *)
(* lines, and whatever the runner returns.                                 *)
(***************************************************************************)
EXTENDS UriLoad, FiniteSetTheorems, SequenceTheorems, TLAPS

IsList(s) == s \in Seq(Range(s))

(* The places of a list that hold an invocation of a condition. *)
Of(s, condition) == {i \in DOMAIN s : s[i].condition = condition}

(* One invocation more. *)
LEMMA AppendList ==
    ASSUME NEW s, IsList(s), NEW e
    PROVE  /\ IsList(Append(s, e))
           /\ Len(s) \in Nat /\ DOMAIN s = 1..Len(s)
           /\ Len(Append(s, e)) = Len(s) + 1
           /\ DOMAIN Append(s, e) = 1..(Len(s) + 1)
           /\ \A i \in 1..Len(s) : Append(s, e)[i] = s[i]
           /\ Append(s, e)[Len(s) + 1] = e
<1> DEFINE S == Range(s) \union {e}
           t == Append(s, e)
<1>1. Len(s) \in Nat /\ DOMAIN s = 1..Len(s)
  BY LenProperties DEF IsList
<1>2. s \in Seq(S)
  <2>1. \A i \in 1..Len(s) : s[i] \in S
    BY <1>1 DEF Range
  <2>2. s = [i \in 1..Len(s) |-> s[i]]
    BY <1>1 DEF IsList
  <2> HIDE DEF S
  <2> QED
    BY <1>1, <2>1, <2>2, IsASeq
<1>3. e \in S
  OBVIOUS
<1> HIDE DEF S
<1>4. /\ t \in Seq(S) /\ Len(t) = Len(s) + 1
      /\ \A i \in 1..Len(s) : t[i] = s[i]
      /\ t[Len(s) + 1] = e
  BY <1>2, <1>3, AppendProperties
<1>5. DOMAIN t = 1..(Len(s) + 1)
  BY <1>4, LenProperties
<1> HIDE DEF t
<1>6. IsList(t)
  <2>1. \A i \in 1..Len(t) : t[i] \in Range(t)
    BY <1>4, <1>5 DEF Range
  <2>2. t = [i \in 1..Len(t) |-> t[i]] /\ Len(t) \in Nat
    BY <1>4, <1>5, LenProperties
  <2> QED
    BY <2>1, <2>2, IsASeq DEF IsList
<1> QED
  BY <1>1, <1>4, <1>5, <1>6 DEF t

(* It counts for its own condition. *)
LEMMA AppendCount ==
    ASSUME NEW s, IsList(s), NEW e, NEW c
    PROVE  /\ IsFiniteSet(Of(s, c)) /\ Cardinality(Of(s, c)) \in Nat
           /\ e.condition = c
                => Cardinality(Of(Append(s, e), c)) = Cardinality(Of(s, c)) + 1
           /\ e.condition # c
                => Cardinality(Of(Append(s, e), c)) = Cardinality(Of(s, c))
<1> DEFINE t == Append(s, e)
           n == Len(s) + 1
<1>1. /\ Len(s) \in Nat /\ DOMAIN s = 1..Len(s) /\ DOMAIN t = 1..n
      /\ \A i \in 1..Len(s) : t[i] = s[i]
      /\ t[n] = e
  BY AppendList
<1>2. IsFiniteSet(Of(s, c)) /\ Cardinality(Of(s, c)) \in Nat
  <2>1. IsFiniteSet(1..Len(s))
    BY <1>1, FS_Interval
  <2> QED
    BY <1>1, <2>1, FS_Subset, FS_CardinalityType DEF Of
<1> HIDE DEF t
<1>3. n \notin Of(s, c)
  BY <1>1 DEF Of
<1>4. CASE e.condition = c
  <2>1. Of(t, c) = Of(s, c) \union {n}
    BY <1>1, <1>4 DEF Of
  <2> QED
    BY <1>2, <1>3, <1>4, <2>1, FS_AddElement, ZenonT(30) DEF t
<1>5. CASE e.condition # c
  <2>1. Of(t, c) = Of(s, c)
    BY <1>1, <1>5 DEF Of
  <2> QED
    BY <1>2, <1>5, <2>1 DEF t
<1> QED
  BY <1>2, <1>4, <1>5

-----------------------------------------------------------------------------
(* The outer timeout *)

(* A worker has no more than the tasks there are. *)
LEMMA RoundsBound ==
    ASSUME NEW n \in Nat, NEW w \in Nat \ {0}
    PROVE  (n + w - 1) \div w \in 0..n
<1> DEFINE q == (n + w - 1) \div w
           r == (n + w - 1) % w
<1>1. q \in Int /\ r \in 0..(w - 1) /\ n + w - 1 = w * q + r
  OBVIOUS
<1> HIDE DEF q, r
<1>2. q >= 0
  <2> SUFFICES ASSUME q < 0 PROVE FALSE
    BY <1>1
  <2>1. w * q <= w * (-1)
    BY <1>1
  <2> QED BY <1>1, <2>1
<1>3. q <= n
  <2> SUFFICES ASSUME q >= n + 1 PROVE FALSE
    BY <1>1
  <2>1. w * q >= w * (n + 1)
    BY <1>1
  <2>2. w * (n + 1) >= n + w
    <3>1. w * (n + 1) = w * n + w
      OBVIOUS
    <3>2. w * n >= n
      OBVIOUS
    <3> QED BY <3>1, <3>2
  <2> QED BY <1>1, <2>1, <2>2
<1> QED BY <1>1, <1>2, <1>3 DEF q

(* A runner in order ends within the outer timeout, whatever it is asked.   *)
LEMMA OuterTimeoutSuffices ==
    ASSUME NEW d, Len(d.tasks) \in Nat, options.timeout \in Nat \ {0}
    PROVE  ~(LongestRun(d) > OuterTimeout(d.tasks))
<1> DEFINE n == Len(d.tasks)
           w == Workers(d.condition)
           q == (n + w - 1) \div w
           T == options.timeout
<1>1. w \in Nat \ {0}
  BY UriLoadAssumption DEF Workers
<1>2. n \in Nat /\ T \in Nat \ {0} /\ VerifyLimit \in 0..60
  BY UriLoadAssumption
<1>3. q \in 0..n
  <2> HIDE DEF n, w
  <2> QED BY <1>1, <1>2, RoundsBound
<1>4. LongestRun(d) = VerifyLimit + T * q
  BY DEF LongestRun
<1>5. OuterTimeout(d.tasks) >= T * (n + 2) + 60
  <2> HIDE DEF T, n
  <2>1. T * (n + 2) + 60 \in Int
    BY <1>2
  <2> QED BY <1>2, <2>1 DEF OuterTimeout, T, n
<1> HIDE DEF n, w, q, T
<1>6. T * q <= T * (n + 2)
  BY <1>2, <1>3
<1>7. T * q \in Int /\ T * (n + 2) \in Int
  BY <1>2, <1>3
<1>8. OuterTimeout(d.tasks) \in Int
  BY <1>2, <1>7 DEF OuterTimeout, n, T
<1> QED
  BY <1>2, <1>4, <1>5, <1>6, <1>7, <1>8, SMTT(30)

LEMMA TaskCount ==
    /\ Len(MODES) \in Nat /\ DOMAIN MODES = 1..Len(MODES)
    /\ Repeats * Len(URI_CASES) \in Nat
    /\ Len(uriTasks) = Repeats * Len(URI_CASES)
    /\ DOMAIN uriTasks = 1..(Repeats * Len(URI_CASES))
    /\ Len(<<control>>) = 1
<1> DEFINE n == Repeats * Len(URI_CASES)
<1>1. /\ Len(MODES) \in Nat /\ DOMAIN MODES = 1..Len(MODES) /\ Len(URI_CASES) \in Nat
      /\ Repeats \in Nat
  BY UriLoadAssumption, LenProperties
<1>2. n \in Nat
  BY <1>1
<1> HIDE DEF n
<1>3. DOMAIN uriTasks = 1..n
  BY DEF uriTasks, n
<1>4. Len(uriTasks) = n
  <2>1. \A i \in 1..n : uriTasks[i] \in Range(uriTasks)
    BY <1>3 DEF Range
  <2>2. uriTasks = [i \in 1..n |-> uriTasks[i]]
    BY DEF uriTasks, n
  <2>3. uriTasks \in Seq(Range(uriTasks))
    BY <1>2, <2>1, <2>2, IsASeq
  <2> QED
    BY <1>2, <1>3, <2>3, LenProperties
<1> QED
  BY <1>1, <1>2, <1>3, <1>4 DEF n

-----------------------------------------------------------------------------
(* The invariant *)

Samples(condition) == Cardinality(Of(runs, condition))

(* Where the loops are: the runs so far, by condition.  Between two blocks  *)
(* of a mode the isolated runs are one block ahead.                         *)
Balance ==
    LET it == options.iterations IN
    /\ BlocksDone \in 0..(2 * Len(MODES))
    /\ BlocksDone * it <= Len(runs) /\ Len(runs) <= (BlocksDone + 1) * it
    /\ BlocksDone = 2 * Len(MODES) => Len(runs) = BlocksDone * it
    /\ \A m \in 0..Len(MODES) :
          /\ BlocksDone = 2 * m =>
                Samples("load") = m * it /\ Samples("isolated") = Len(runs) - m * it
          /\ BlocksDone = 2 * m + 1 =>
                Samples("isolated") = (m + 1) * it /\ Samples("load") = Len(runs) - (m + 1) * it

(* The controls so far are those of the blocks that are done. *)
ControlsInPlace ==
    \A m \in 1..Len(MODES), c \in 1..2 :
        2 * (m - 1) + c <= Len(controls) =>
            /\ controls[2 * (m - 1) + c].mode = MODES[m]
            /\ controls[2 * (m - 1) + c].condition = Conditions[c]

(* What the program has said by the end of each phase. *)
Verdict ==
    /\ phase = "start" => runs = <<>> /\ controls = <<>>
    /\ phase # "exited" => exitCode = NotRunning /\ ~output.fresh
    /\ output.fresh =>
          /\ BlocksDone = 2 * Len(MODES)
          /\ output.result = Assessment
          /\ exitCode = IF EvidenceValid THEN 0 ELSE 1
    /\ exitCode = 0 /\ ~output.fresh => runs = <<>> /\ controls = <<>>

UriInv ==
    /\ options \in Options
    /\ phase \in {"start", "measure", "exited"}
    /\ IsList(runs) /\ IsList(controls)
    /\ phase = "measure" \/ runs # <<>> \/ controls # <<>> \/ output.fresh => Accepts(options)
    /\ Accepts(options) => Balance
    /\ ControlsInPlace
    /\ OuterTimeoutOnlyWhenStuck
    /\ Verdict

LEMMA EmptyList ==
    IsList(<<>>) /\ Len(<<>>) = 0 /\ \A c : Cardinality(Of(<<>>, c)) = 0
<1>1. Len(<<>>) = 0 /\ DOMAIN <<>> = {} /\ Range(<<>>) = {}
  BY DEF Range
<1>2. \A c : Of(<<>>, c) = {}
  BY <1>1 DEF Of
<1> QED
  BY <1>1, <1>2, FS_EmptySet DEF IsList

LEMMA InitUriInv == Init => UriInv
<1> SUFFICES ASSUME Init PROVE UriInv
  OBVIOUS
<1>1. runs = <<>> /\ controls = <<>> /\ options \in Options /\ phase = "start"
      /\ exitCode = NotRunning /\ ~output.fresh
  BY DEF Init, NoOutput
<1>2. Len(MODES) \in Nat /\ DOMAIN runs = {} /\ DOMAIN controls = {}
  BY <1>1, TaskCount
<1>3. ASSUME Accepts(options) PROVE Balance
  <2>1. BlocksDone = 0 /\ Len(runs) = 0 /\ \A c : Samples(c) = 0
    BY <1>1, EmptyList DEF BlocksDone, Samples
  <2>2. options.iterations \in Nat
    BY <1>1, <1>3, UriLoadAssumption DEF Accepts, ParsesArgs
  <2>3. 0 * options.iterations = 0 /\ (0 + 1) * options.iterations = options.iterations
    BY <2>2
  <2>4. \A m \in 0..Len(MODES) : (0 = 2 * m => m = 0) /\ 0 # 2 * m + 1
    BY <1>2
  <2> QED
    BY <1>2, <2>1, <2>2, <2>3, <2>4 DEF Balance
<1>4. ControlsInPlace
  BY <1>1, <1>2, EmptyList DEF ControlsInPlace
<1>5. OuterTimeoutOnlyWhenStuck
  BY <1>2 DEF OuterTimeoutOnlyWhenStuck, Range
<1> QED
  BY <1>1, <1>3, <1>4, <1>5, EmptyList DEF UriInv, Verdict, NotRunning

(* One invocation keeps the balance. *)
LEMMA BalanceStep ==
    ASSUME UriInv, Measuring, UNCHANGED options,
           NEW e, e.mode = NextDescriptor.mode, e.condition = NextDescriptor.condition,
           \/ IterationsLeft /\ runs' = Append(runs, e) /\ UNCHANGED controls
           \/ ~IterationsLeft /\ controls' = Append(controls, e) /\ UNCHANGED runs
    PROVE  Balance' /\ ControlsInPlace' /\ IsList(runs)' /\ IsList(controls)'
<1> DEFINE it == options.iterations
           b == BlocksDone
           n == Len(runs)
           M == Len(MODES)
<1>1. /\ it \in Nat \ {0} /\ M \in Nat /\ IsList(runs) /\ IsList(controls) /\ Balance
      /\ ControlsInPlace /\ b < 2 * M
  BY TaskCount, UriLoadAssumption DEF UriInv, Measuring, Accepts, ParsesArgs
<1>2. n \in Nat /\ b \in 0..(2 * M) /\ b * it <= n /\ n <= (b + 1) * it
  BY <1>1, AppendList DEF Balance
<1>3. PICK m \in 0..M : b = 2 * m \/ b = 2 * m + 1
  <2>1. b \div 2 \in 0..M /\ (b = 2 * (b \div 2) \/ b = 2 * (b \div 2) + 1)
    BY <1>1, <1>2
  <2> QED BY <2>1
<1>4. /\ b = 2 * m => b \div 2 = m /\ b % 2 = 0 /\ m + 1 \in 1..M
      /\ b = 2 * m + 1 => b \div 2 = m /\ b % 2 = 1 /\ m + 1 \in 1..M
  <2>1. M \in Nat /\ b < 2 * M /\ b \in Int /\ m \in 0..M
    BY <1>1, <1>2
  <2> HIDE DEF b, M
  <2>2. b = 2 * m => b \div 2 = m /\ b % 2 = 0 /\ m + 1 \in 1..M
    BY <2>1
  <2>3. b = 2 * m + 1 => b \div 2 = m /\ b % 2 = 1 /\ m + 1 \in 1..M
    BY <2>1
  <2> QED BY <2>2, <2>3
<1>5. /\ e.mode = MODES[m + 1]
      /\ b = 2 * m => e.condition = "isolated"
      /\ b = 2 * m + 1 => e.condition = "load"
  BY <1>3, <1>4 DEF NextDescriptor, Conditions
<1>6. /\ b = 2 * m => Samples("load") = m * it /\ Samples("isolated") = n - m * it
      /\ b = 2 * m + 1 =>
           Samples("isolated") = (m + 1) * it /\ Samples("load") = n - (m + 1) * it
  BY <1>1, <1>3 DEF Balance
<1>7. CASE IterationsLeft /\ runs' = Append(runs, e) /\ UNCHANGED controls
  <2>1. IsList(runs') /\ Len(runs') = n + 1
    BY <1>1, <1>7, AppendList
  <2>2. BlocksDone' = b /\ options' = options
    BY <1>7 DEF BlocksDone
  <2>3. n < (b + 1) * it
    BY <1>7 DEF IterationsLeft
  <2>4. /\ b = 2 * m => /\ Samples("load")' = Samples("load")
                        /\ Samples("isolated")' = Samples("isolated") + 1
        /\ b = 2 * m + 1 => /\ Samples("load")' = Samples("load") + 1
                            /\ Samples("isolated")' = Samples("isolated")
    BY <1>1, <1>5, <1>7, AppendCount DEF Samples
  <2>5. \A k \in 0..M : (b = 2 * k => b = 2 * m /\ k = m)
                        /\ (b = 2 * k + 1 => b = 2 * m + 1 /\ k = m)
    BY <1>3
  <2>6. m * it \in Int /\ (m + 1) * it \in Int /\ b * it \in Int /\ (b + 1) * it \in Int
    BY <1>1, <1>2, SMTT(30)
  <2>7. b * it <= n + 1 /\ n + 1 <= (b + 1) * it
    BY <1>2, <2>3, <2>6, SMTT(30)
  <2>8. \A k \in 0..M :
          /\ b = 2 * k => /\ Samples("load")' = k * it
                          /\ Samples("isolated")' = (n + 1) - k * it
          /\ b = 2 * k + 1 => /\ Samples("isolated")' = (k + 1) * it
                              /\ Samples("load")' = (n + 1) - (k + 1) * it
    <3> HIDE DEF b, n, it
    <3>1. /\ b = 2 * m => /\ Samples("load")' = m * it
                          /\ Samples("isolated")' = (n + 1) - m * it
          /\ b = 2 * m + 1 => /\ Samples("isolated")' = (m + 1) * it
                              /\ Samples("load")' = (n + 1) - (m + 1) * it
      BY <1>2, <1>6, <2>4, <2>6
    <3> QED BY <2>5, <3>1
  <2>9. Balance'
    BY <1>1, <1>2, <2>1, <2>2, <2>7, <2>8 DEF Balance
  <2> QED
    BY <1>1, <1>7, <2>1, <2>9 DEF ControlsInPlace
<1>8. CASE ~IterationsLeft /\ controls' = Append(controls, e) /\ UNCHANGED runs
  <2>1. /\ IsList(controls') /\ BlocksDone' = b + 1 /\ Len(controls') = Len(controls) + 1
        /\ Len(controls) \in Nat
        /\ \A i \in 1..Len(controls) : controls'[i] = controls[i]
        /\ controls'[Len(controls) + 1] = e
    BY <1>1, <1>8, AppendList DEF BlocksDone
  <2>2. options' = options /\ \A c : Samples(c)' = Samples(c)
    BY <1>8 DEF Samples
  <2>3. (b + 1) * it \in Int /\ (b + 2) * it \in Int /\ (b + 1) * it <= (b + 2) * it
    BY <1>1, <1>2, SMTT(30)
  <2>4. n = (b + 1) * it
    BY <1>2, <1>8, <2>3 DEF IterationsLeft
  <2>5. /\ b = 2 * m => n = (m + 1) * it + m * it
        /\ b = 2 * m + 1 => n = (m + 1) * it + (m + 1) * it
        /\ m * it \in Int /\ (m + 1) * it \in Int
    <3>1. /\ (2 * m + 1) * it = (m + 1) * it + m * it
          /\ (2 * m + 1 + 1) * it = (m + 1) * it + (m + 1) * it
      BY <1>1
    <3>2. b = 2 * m => n = (2 * m + 1) * it
      BY <2>4
    <3>3. b = 2 * m + 1 => n = (2 * m + 1 + 1) * it
      BY <2>4
    <3>4. m * it \in Int /\ (m + 1) * it \in Int
      BY <1>1
    <3> QED BY <3>1, <3>2, <3>3, <3>4
  <2>6. \A k \in 0..M : (b + 1 = 2 * k => b = 2 * m + 1 /\ k = m + 1)
                        /\ (b + 1 = 2 * k + 1 => b = 2 * m /\ k = m)
    BY <1>3
  <2>7. \A k \in 0..M :
          /\ b + 1 = 2 * k => /\ Samples("load")' = k * it
                              /\ Samples("isolated")' = n - k * it
          /\ b + 1 = 2 * k + 1 => /\ Samples("isolated")' = (k + 1) * it
                                  /\ Samples("load")' = n - (k + 1) * it
    <3> HIDE DEF b, n, it
    <3>1. /\ b = 2 * m + 1 => /\ Samples("load")' = (m + 1) * it
                              /\ Samples("isolated")' = n - (m + 1) * it
          /\ b = 2 * m => /\ Samples("isolated")' = (m + 1) * it
                          /\ Samples("load")' = n - (m + 1) * it
      BY <1>2, <1>6, <2>2, <2>5
    <3> QED BY <2>6, <3>1
  <2>8. Balance'
    <3>1. /\ b + 1 \in 0..(2 * M) /\ (b + 1) * it <= n /\ n <= (b + 1 + 1) * it
          /\ b + 1 = 2 * M => n = (b + 1) * it
      <4>1. b + 1 + 1 = b + 2
        BY <1>2
      <4> QED BY <1>1, <1>2, <2>3, <2>4, <4>1
    <3>2. Len(runs') = n
      BY <1>8
    <3> HIDE DEF b, n, it, M
    <3> QED BY <2>1, <2>2, <2>7, <3>1, <3>2 DEF Balance, it, M
  <2>9. ControlsInPlace'
    <3> SUFFICES ASSUME NEW k \in 1..Len(MODES), NEW c \in 1..2,
                        2 * (k - 1) + c <= Len(controls')
                 PROVE  /\ controls'[2 * (k - 1) + c].mode = MODES[k]
                        /\ controls'[2 * (k - 1) + c].condition = Conditions[c]
      BY DEF ControlsInPlace
    <3>1. CASE 2 * (k - 1) + c <= Len(controls)
      <4>1. 2 * (k - 1) + c \in 1..Len(controls)
        BY <2>1, <3>1
      <4>2. ControlsInPlace
        BY <1>1
      <4>3. /\ controls[2 * (k - 1) + c].mode = MODES[k]
            /\ controls[2 * (k - 1) + c].condition = Conditions[c]
        BY <3>1, <4>2 DEF ControlsInPlace
      <4>4. controls'[2 * (k - 1) + c] = controls[2 * (k - 1) + c]
        BY <2>1, <4>1
      <4> QED BY <4>3, <4>4
    <3>2. CASE 2 * (k - 1) + c = Len(controls) + 1
      <4>1. /\ k = m + 1
            /\ b = 2 * m => c = 1
            /\ b = 2 * m + 1 => c = 2
        BY <1>3, <3>2 DEF BlocksDone
      <4>2. controls'[2 * (k - 1) + c] = e
        BY <2>1, <3>2
      <4>3. e.mode = MODES[k] /\ e.condition = Conditions[c]
        BY <1>3, <1>5, <4>1 DEF Conditions
      <4> QED BY <4>2, <4>3
    <3> QED
      BY <2>1, <3>1, <3>2
  <2> QED
    BY <1>1, <1>8, <2>1, <2>8, <2>9
<1> QED
  BY <1>7, <1>8

(* An invocation adds one record, and is killed only if it is stuck. *)
LEMMA InvocationStep ==
    ASSUME UriInv, InvokeRunner \/ InvokeStuckRunner
    PROVE  \E e : /\ e.mode = NextDescriptor.mode
                  /\ e.condition = NextDescriptor.condition
                  /\ e.outer_timeout => e.stuck
                  /\ \/ IterationsLeft /\ runs' = Append(runs, e) /\ UNCHANGED controls
                     \/ ~IterationsLeft /\ controls' = Append(controls, e) /\ UNCHANGED runs
<1> DEFINE d == NextDescriptor
<1>1. ASSUME NEW end, NEW outer, NEW isStuck, outer => isStuck, Record(d, end, outer, isStuck)
      PROVE  \E e : /\ e.mode = d.mode
                    /\ e.condition = d.condition
                    /\ e.outer_timeout => e.stuck
                    /\ \/ IterationsLeft /\ runs' = Append(runs, e) /\ UNCHANGED controls
                       \/ ~IterationsLeft /\ controls' = Append(controls, e) /\ UNCHANGED runs
  <2> DEFINE e == [mode |-> d.mode, condition |-> d.condition, exit |-> end.exit,
                   outer_timeout |-> outer, artifact |-> end.artifact,
                   results |-> end.results, stuck |-> isStuck]
  <2>1. \/ IterationsLeft /\ runs' = Append(runs, e) /\ UNCHANGED controls
        \/ ~IterationsLeft /\ controls' = Append(controls, e) /\ UNCHANGED runs
    BY <1>1 DEF Record
  <2>2. e.mode = d.mode /\ e.condition = d.condition /\ (e.outer_timeout => e.stuck)
    BY <1>1
  <2> HIDE DEF e, d
  <2> QED BY <2>1, <2>2
<1>2. CASE InvokeStuckRunner
  <2>1. \E end : Record(d, end, TRUE, TRUE)
    BY <1>2 DEF InvokeStuckRunner
  <2> HIDE DEF d
  <2> QED BY <1>1, <2>1 DEF d
<1>3. CASE InvokeRunner
  <2>1. Len(d.tasks) \in Nat
    <3>1. d.tasks = uriTasks \/ d.tasks = <<control>>
      BY DEF NextDescriptor
    <3> QED BY <3>1, TaskCount
  <2>2. options.timeout \in Nat \ {0}
    BY <1>3, UriLoadAssumption
       DEF UriInv, InvokeRunner, Measuring, Accepts, ParsesArgs
  <2>3. ~(LongestRun(d) > OuterTimeout(d.tasks))
    <3> HIDE DEF d
    <3> QED BY <2>1, <2>2, OuterTimeoutSuffices
  <2>4. \E end : Record(d, end, FALSE, FALSE)
    BY <1>3, <2>3 DEF InvokeRunner
  <2> HIDE DEF d
  <2> QED BY <1>1, <2>4 DEF d
<1> QED BY <1>2, <1>3

(* The assessment depends on the evidence only. *)
LEMMA SameAssessment ==
    ASSUME UNCHANGED <<options, runs, controls>>
    PROVE  Assessment' = Assessment /\ (EvidenceValid' <=> EvidenceValid)
<1>1. EvidenceValid' <=> EvidenceValid
  BY DEF EvidenceValid, UriRunValid, ControlRunValid, InvocationError, uriTasks
<1>2. \A c, s : CountStatus(c, s)' = CountStatus(c, s)
  BY DEF CountStatus, Sample
<1> QED
  BY <1>1, <1>2 DEF Assessment

(* The evidence is the same, and so is where the loops are. *)
LEMMA SameEvidence ==
    ASSUME UriInv, UNCHANGED <<options, runs, controls>>
    PROVE  /\ (options \in Options)' /\ IsList(runs)' /\ IsList(controls)'
           /\ (Accepts(options) => Balance)' /\ ControlsInPlace'
           /\ OuterTimeoutOnlyWhenStuck'
BY DEF UriInv, Balance, Samples, BlocksDone, Of, ControlsInPlace,
       OuterTimeoutOnlyWhenStuck

LEMMA NextUriInv == UriInv /\ [Next]_vars => UriInv'
<1> SUFFICES ASSUME UriInv, [Next]_vars PROVE UriInv'
  OBVIOUS
<1>1. CASE InvokeRunner \/ InvokeStuckRunner
  <2>1. /\ Measuring /\ phase = "measure" /\ Accepts(options)
        /\ UNCHANGED <<phase, options, exitCode, output>>
        /\ exitCode = NotRunning /\ ~output.fresh
    BY <1>1 DEF InvokeRunner, InvokeStuckRunner, Measuring, UriInv, Verdict
  <2>2. PICK e : /\ e.mode = NextDescriptor.mode
                 /\ e.condition = NextDescriptor.condition
                 /\ e.outer_timeout => e.stuck
                 /\ \/ IterationsLeft /\ runs' = Append(runs, e) /\ UNCHANGED controls
                    \/ ~IterationsLeft /\ controls' = Append(controls, e) /\ UNCHANGED runs
    BY <1>1, InvocationStep
  <2>3. Balance' /\ ControlsInPlace' /\ IsList(runs)' /\ IsList(controls)'
    BY <2>1, <2>2, BalanceStep
  <2>4. OuterTimeoutOnlyWhenStuck'
    <3>1. /\ \A i \in DOMAIN runs : runs[i].outer_timeout => runs[i].stuck
          /\ \A i \in DOMAIN controls : controls[i].outer_timeout => controls[i].stuck
          /\ IsList(runs) /\ IsList(controls)
      BY DEF UriInv, OuterTimeoutOnlyWhenStuck, Range
    <3>2. ASSUME NEW s, IsList(s), \A i \in DOMAIN s : s[i].outer_timeout => s[i].stuck
          PROVE  LET t == Append(s, e) IN
                 \A i \in DOMAIN t : t[i].outer_timeout => t[i].stuck
      <4> DEFINE t == Append(s, e)
      <4>1. /\ Len(s) \in Nat /\ DOMAIN s = 1..Len(s) /\ DOMAIN t = 1..(Len(s) + 1)
            /\ \A i \in 1..Len(s) : t[i] = s[i]
            /\ t[Len(s) + 1] = e
        BY <3>2, AppendList
      <4> HIDE DEF t
      <4>2. \A i \in DOMAIN t : t[i].outer_timeout => t[i].stuck
        BY <2>2, <3>2, <4>1
      <4> QED BY <4>2 DEF t
    <3>3. /\ \A i \in DOMAIN runs' : runs'[i].outer_timeout => runs'[i].stuck
          /\ \A i \in DOMAIN controls' : controls'[i].outer_timeout => controls'[i].stuck
      BY <2>2, <3>1, <3>2
    <3> QED BY <3>3 DEF OuterTimeoutOnlyWhenStuck, Range
  <2>5. Verdict'
    BY <2>1 DEF Verdict, NotRunning
  <2> QED
    BY <2>1, <2>3, <2>4, <2>5 DEF UriInv
<1>2. CASE Start
  <2>1. /\ UNCHANGED <<options, runs, controls, output>>
        /\ runs = <<>> /\ controls = <<>> /\ exitCode = NotRunning /\ ~output.fresh
    BY <1>2 DEF Start, UriInv, Verdict
  <2>2. \/ phase' = "exited" /\ exitCode' \in {0, 2}
        \/ phase' = "measure" /\ exitCode' = exitCode /\ Accepts(options)
    BY <1>2 DEF Start, Exit
  <2>3. Verdict'
    BY <2>1, <2>2 DEF Verdict
  <2>4. (phase = "measure" \/ runs # <<>> \/ controls # <<>> \/ output.fresh
            => Accepts(options))'
    BY <2>1, <2>2
  <2> QED
    BY <2>1, <2>2, <2>3, <2>4, SameEvidence DEF UriInv
<1>3. CASE WriteArtifact
  <2>1. /\ UNCHANGED <<options, runs, controls>>
        /\ phase = "measure" /\ phase' = "exited" /\ Accepts(options)
        /\ output'.fresh /\ output'.result = Assessment
        /\ exitCode' = IF EvidenceValid THEN 0 ELSE 1
        /\ BlocksDone = 2 * Len(MODES)
    BY <1>3 DEF WriteArtifact, Exit, UriInv
  <2>2. Verdict'
    BY <2>1, SameAssessment DEF Verdict, BlocksDone
  <2> QED
    BY <2>1, <2>2, SameEvidence DEF UriInv
<1>4. CASE Throw
  <2>1. /\ UNCHANGED <<options, runs, controls, output>>
        /\ phase = "measure" /\ phase' = "exited" /\ Accepts(options) /\ exitCode' = 1
        /\ ~output.fresh
    BY <1>4 DEF Throw, Exit, UriInv, Verdict
  <2>2. Verdict'
    BY <2>1 DEF Verdict
  <2> QED
    BY <2>1, <2>2, SameEvidence DEF UriInv
<1>5. CASE UNCHANGED vars
  <2>1. UNCHANGED <<phase, options, runs, controls, exitCode, output>>
    BY <1>5 DEF vars
  <2>2. Verdict'
    BY <2>1, SameAssessment DEF UriInv, Verdict, BlocksDone
  <2> QED
    BY <2>1, <2>2, SameEvidence DEF UriInv
<1> QED
  BY <1>1, <1>2, <1>3, <1>4, <1>5 DEF Next

THEOREM ReproductionInvariant == Spec => []UriInv
<1> QED
  BY InitUriInv, NextUriInv, PTL DEF Spec

(* Only a runner that is stuck is killed: the outer timeout leaves a runner *)
(* in order the time for any number of tests and workers.                   *)
THEOREM OnlyStuckRunnersAreKilled == Spec => []OuterTimeoutOnlyWhenStuck
<1>1. UriInv => OuterTimeoutOnlyWhenStuck
  BY DEF UriInv
<1> QED
  BY <1>1, ReproductionInvariant, PTL

-----------------------------------------------------------------------------
(* The conclusion *)

(* Valid evidence has one result for each task of each run.                 *)
LEMMA SampleSize ==
    ASSUME UriInv, EvidenceValid, NEW c
    PROVE  /\ IsFiniteSet(Sample(c))
           /\ Total(c) = Samples(c) * (Repeats * Len(URI_CASES))
<1> DEFINE K == Repeats * Len(URI_CASES)
           I == Of(runs, c)
           P == {x \in Sample(c) : runs[x[1]].results[x[2]].status = "pass"}
           T == {x \in Sample(c) : runs[x[1]].results[x[2]].status = "timeout"}
<1>1. K \in Nat /\ DOMAIN uriTasks = 1..K
  BY TaskCount
<1> HIDE DEF K
<1>2. \A i \in DOMAIN runs :
         /\ DOMAIN runs[i].results = 1..K
         /\ \A j \in 1..K : runs[i].results[j].status \in {"pass", "timeout"}
  BY <1>1 DEF EvidenceValid, Range, UriRunValid
<1>3. IsFiniteSet(I)
  BY AppendCount DEF UriInv
<1>4. Sample(c) = I \X (1..K)
  <2>1. Sample(c) = UNION {{i} \X DOMAIN runs[i].results : i \in I}
    BY DEF Sample, Of
  <2>2. \A i \in I : DOMAIN runs[i].results = 1..K
    BY <1>2 DEF Of
  <2>3. Sample(c) = UNION {{i} \X (1..K) : i \in I}
    BY <2>1, <2>2
  <2> HIDE DEF I
  <2>4. UNION {{i} \X (1..K) : i \in I} = I \X (1..K)
    OBVIOUS
  <2> QED BY <2>3, <2>4
<1>5. /\ IsFiniteSet(Sample(c))
      /\ Cardinality(Sample(c)) = Samples(c) * K
  <2>1. IsFiniteSet(1..K) /\ Cardinality(1..K) = K
    BY <1>1, FS_Interval
  <2> QED
    BY <1>3, <1>4, <2>1, FS_Product DEF Samples
<1>6. P \union T = Sample(c) /\ P \intersect T = {}
  <2>1. \A x \in Sample(c) : runs[x[1]].results[x[2]].status \in {"pass", "timeout"}
    BY <1>2, <1>4 DEF Of
  <2> QED BY <2>1
<1>7. IsFiniteSet(P) /\ IsFiniteSet(T) /\ Cardinality(P) \in Nat /\ Cardinality(T) \in Nat
  BY <1>5, FS_Subset, FS_CardinalityType
<1> HIDE DEF P, T
<1>8. Cardinality(Sample(c)) = Cardinality(P) + Cardinality(T)
  <2>1. Cardinality(P \intersect T) = 0
    BY <1>6, FS_EmptySet
  <2>2. Cardinality(P \union T) = Cardinality(P) + Cardinality(T) - Cardinality(P \intersect T)
    BY <1>7, FS_Union
  <2> QED
    BY <1>6, <1>7, <2>1, <2>2
<1> QED
  BY <1>5, <1>8 DEF Total, CountStatus, P, T, K

(* Whatever the number of modes, iterations, cases and repeats, and however *)
(* the runner fails: a conclusion rests on equal and complete samples.      *)
THEOREM ConclusionsRestOnEvidence == Spec => []ConclusionOnEvidence
<1>1. UriInv => ConclusionOnEvidence
  <2> SUFFICES ASSUME UriInv,
                      (exitCode = 0 /\ runs # <<>>)
                         \/ (output.fresh /\ output.result # "invalid")
               PROVE  /\ output.fresh /\ output.result # "invalid" /\ exitCode = 0
                      /\ \A c \in Range(Conditions) :
                            Total(c) = Len(MODES) * options.iterations * Repeats * Len(URI_CASES)
                      /\ \A m \in Range(MODES), c \in Range(Conditions) :
                            \E r \in Range(controls) :
                               /\ r.mode = m /\ r.condition = c
                               /\ r.results # <<>> /\ r.results[1].status = "timeout"
                      /\ output.result = "supported"
                            <=> CountStatus("load", "timeout") > CountStatus("isolated", "timeout")
    BY DEF ConclusionOnEvidence
  <2> DEFINE M == Len(MODES)
             it == options.iterations
             K == Repeats * Len(URI_CASES)
  <2>1. output.fresh
    BY DEF UriInv, Verdict
  <2>2. /\ BlocksDone = 2 * M /\ output.result = Assessment /\ Accepts(options) /\ Balance
        /\ exitCode = IF EvidenceValid THEN 0 ELSE 1
    BY <2>1 DEF UriInv, Verdict
  <2>3. EvidenceValid
    BY <2>2 DEF Assessment
  <2>4. M \in Nat /\ it \in Nat /\ K \in Nat /\ Repeats \in Nat /\ Len(URI_CASES) \in Nat
    BY <2>2, TaskCount, UriLoadAssumption, LenProperties DEF UriInv, Accepts, ParsesArgs
  <2>5. /\ CountStatus("load", "timeout") \in Nat
        /\ CountStatus("isolated", "timeout") \in Nat
    <3>1. \A c : IsFiniteSet(Sample(c))
      BY <2>3, SampleSize
    <3> QED
      BY <3>1, FS_Subset, FS_CardinalityType DEF CountStatus
  <2>6. /\ Assessment # "invalid"
        /\ Assessment = "supported"
              <=> CountStatus("load", "timeout") > CountStatus("isolated", "timeout")
    BY <2>3, <2>5 DEF Assessment
  <2>7. Samples("load") = M * it /\ Samples("isolated") = M * it
    <3>1. Samples("load") = M * it /\ Samples("isolated") = Len(runs) - M * it
      BY <2>2, <2>4 DEF Balance
    <3>2. Len(runs) = 2 * M * it
      BY <2>2 DEF Balance
    <3>3. 2 * M * it = M * it + M * it /\ M * it \in Int
      BY <2>4
    <3> QED BY <3>1, <3>2, <3>3
  <2>8. M * it * Repeats * Len(URI_CASES) = (M * it) * K
    <3>1. \A a, b, c \in Int : a * b * c = a * (b * c)
      OBVIOUS
    <3>2. M * it \in Int
      BY <2>4
    <3> HIDE DEF M, it
    <3> QED BY <2>4, <3>1, <3>2
  <2>9. ASSUME NEW c \in Range(Conditions)
        PROVE  Total(c) = M * it * Repeats * Len(URI_CASES)
    <3>1. c \in {"isolated", "load"}
      BY DEF Conditions, Range
    <3> QED
      BY <2>3, <2>7, <2>8, <3>1, SampleSize
  <2>10. ASSUME NEW m \in Range(MODES), NEW c \in Range(Conditions)
         PROVE  \E r \in Range(controls) :
                   /\ r.mode = m /\ r.condition = c
                   /\ r.results # <<>> /\ r.results[1].status = "timeout"
    <3>1. PICK i \in 1..M : m = MODES[i]
      BY TaskCount DEF Range
    <3>2. PICK j \in 1..2 : c = Conditions[j]
      BY DEF Range, Conditions
    <3> DEFINE k == 2 * (i - 1) + j
    <3>3. k \in 1..Len(controls) /\ k <= Len(controls) /\ DOMAIN controls = 1..Len(controls)
      BY <2>2, <2>4, AppendList DEF BlocksDone, UriInv
    <3>4. controls[k].mode = m /\ controls[k].condition = c
      BY <3>1, <3>2, <3>3 DEF UriInv, ControlsInPlace
    <3>5. controls[k] \in Range(controls)
      BY <3>3 DEF Range
    <3>6. ControlRunValid(controls[k])
      BY <2>3, <3>5 DEF EvidenceValid
    <3>7. controls[k].results # <<>> /\ controls[k].results[1].status = "timeout"
      BY <3>6, EmptyList DEF ControlRunValid
    <3> QED BY <3>4, <3>5, <3>7
  <2> QED
    BY <2>1, <2>2, <2>3, <2>6, <2>9, <2>10
<1> QED
  BY <1>1, ReproductionInvariant, PTL
=============================================================================
