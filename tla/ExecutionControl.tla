-------------------------- MODULE ExecutionControl --------------------------
(***************************************************************************)
(* The guardrails of bounded and hosted operations                         *)
(* (interpreter/runtime/execution_control.mbt, execution_policy.mbt, the   *)
(* activation bookkeeping of executor_activation.mbt).                     *)
(*                                                                         *)
(* Each operation installs a control of its own (steps left, activation    *)
(* depth, a shared interruption handle) in a binding of the interpreter,   *)
(* beside a cache of that binding, and restores both when it ends in any   *)
(* way.  Steps are charged through the cache, activations through the      *)
(* binding, and an activation is released to whatever control is installed *)
(* when it ends: nothing in the code says that this is the control that    *)
(* granted it.  `stack' holds what would have to be unwound: the           *)
(* operations and the activations in progress, innermost first; `raised'   *)
(* is the error on its way out.                                            *)
(*                                                                         *)
(* A host function called by a script may start an operation on the same   *)
(* engine (HostedSession forbids it for sessions, nothing does for a bare  *)
(* engine), so operations nest.                                            *)
(***************************************************************************)
EXTENDS Naturals, Sequences, FiniteSets

CONSTANTS
  Handles,       \* interruption handles the host made
  MaxSteps,      \* bound: step budgets are 0..MaxSteps
  MaxDepth,      \* bound: stack depth limits are 0..MaxDepth
  MaxOperations, \* bound: operations started
  MaxFrames      \* bound: operations and activations in progress

ASSUME ControlAssumption == {MaxSteps, MaxDepth, MaxOperations, MaxFrames} \subseteq Nat

VARIABLES
  control,    \* seq of the ExecutionControl records created
  binding,    \* the [[ExecutionControl]] binding: a control, 0 if there is none
  cache,      \* execution_control_carrier_cache: a control or 0, or Unresolved
  hosted,     \* interp.hosted_execution_control: a control or 0
  requested,  \* the handles on which interruption was requested
  stack,      \* operations and activations in progress, innermost first
  raised,     \* the error being raised, NoError if none
  completed   \* history: controls whose hosted operation returned a value

vars == <<control, binding, cache, hosted, requested, stack, raised, completed>>

Unresolved == MaxOperations + 1

NoError == "none"
Failures == {"interrupted", "stack-depth-limit", "execution-limit"}
Causes == Failures \cup {"host failure"}
Errors == Failures \cup {"guest", "terminal"}

Controls == 1..Len(control)

Running == raised = NoError
Unwinding == stack # <<>> /\ ~Running

Top == Head(stack)

Requested(k) == control[k].handle \in requested

NewControl(steps, depth, handle, strict) ==
  [remaining |-> steps, limit |-> depth, depth |-> 0, handle |-> handle,
   strict |-> strict, cause |-> NoError]

\* What an operation saves when it starts, and restores when it ends.
Operation(kind, k) ==
  [kind |-> kind, control |-> k, binding |-> binding, cache |-> cache, hosted |-> hosted]

\* An activation: the phase of its observation, the control that charged it
\* (history; 0 when nothing did), and whether its end releases.
Activation(phase, k, releases) ==
  [kind |-> "activation", phase |-> phase, control |-> k, releases |-> releases]

Init ==
  /\ control = <<>> /\ binding = 0 /\ cache = Unresolved /\ hosted = 0
  /\ requested = {} /\ stack = <<>> /\ raised = NoError /\ completed = {}

-----------------------------------------------------------------------------
(* Observations.                                                            *)

\* Mutant of StepFailure: an exhausted budget is not noticed.
StepFailureUnchecked(k) == IF Requested(k) THEN "interrupted" ELSE NoError

\* The order of the checks in reduce_execution_control.
StepFailure(k) ==
  IF Requested(k) THEN "interrupted"
  ELSE IF control[k].remaining = 0 THEN "execution-limit" ELSE NoError

ActivationFailure(k) ==
  IF Requested(k) THEN "interrupted"
  ELSE IF control[k].depth >= control[k].limit THEN "stack-depth-limit"
  ELSE IF control[k].remaining = 0 THEN "execution-limit" ELSE NoError

NativeFailure(k) == IF Requested(k) THEN "interrupted" ELSE "execution-limit"

\* latch_terminal: the first cause stays.
Latched(c, cause) == IF c.cause = NoError THEN [c EXCEPT !.cause = cause] ELSE c

\* Mutant of Observe: a control that ended is asked again.
ObserveEnded(k, failure, charged) ==
  IF failure = NoError
  THEN control' = [control EXCEPT ![k] = charged] /\ raised' = raised
  ELSE IF control[k].strict
  THEN /\ control' = [control EXCEPT ![k] = Latched(@, failure)]
       /\ raised' = "terminal"
  ELSE raised' = failure /\ control' = control

\* observe_hosted: a control that ended stays ended; a failure ends a strict
\* control and is raised as its terminal error; otherwise `charged' is the
\* control's next state.
Observe(k, failure, charged) ==
  IF control[k].cause # NoError
  THEN raised' = "terminal" /\ control' = control
  ELSE IF failure = NoError
  THEN control' = [control EXCEPT ![k] = charged] /\ raised' = raised
  ELSE IF control[k].strict
  THEN /\ control' = [control EXCEPT ![k] = Latched(@, failure)]
       /\ raised' = "terminal"
  ELSE raised' = failure /\ control' = control

Charged(k) == [control[k] EXCEPT !.remaining = @ - 1]
Entered(k) == [control[k] EXCEPT !.remaining = @ - 1, !.depth = @ + 1]

\* release_execution_activation: the control that is installed now; a release
\* at depth zero is refused, and the refusal is dropped.
Released(k) ==
  IF k = 0 \/ control[k].depth = 0 THEN control
  ELSE [control EXCEPT ![k].depth = @ - 1]

Carrier == IF cache = Unresolved THEN binding ELSE cache

\* observe_execution_step, before a statement, an expression or a queue entry.
Step ==
  /\ Running /\ stack # <<>>
  /\ cache' = Carrier
  /\ IF Carrier = 0 THEN UNCHANGED <<control, raised>>
     ELSE Observe(Carrier, StepFailure(Carrier), Charged(Carrier))
  /\ UNCHANGED <<binding, hosted, requested, stack, completed>>

\* reject_unobserved_native_progress, before a builtin that cannot be charged.
NativeProgress ==
  /\ Running /\ stack # <<>>
  /\ IF binding = 0 THEN UNCHANGED <<control, raised>>
     ELSE Observe(binding, NativeFailure(binding), control[binding])
  /\ UNCHANGED <<binding, cache, hosted, requested, stack, completed>>

-----------------------------------------------------------------------------
(* Activations.                                                             *)

Granted(k) == k # 0 /\ control[k].cause = NoError /\ ActivationFailure(k) = NoError

Push(frame) == stack' = <<frame>> \o stack

\* A function body is about to be entered.  start_executor_activation observes
\* always, a direct call or a generator's resumption (observes = FALSE) only
\* in a hosted operation; a refused entry acquires nothing.
EnterActivation(phase, observes) ==
  /\ Running /\ stack # <<>> /\ Len(stack) < MaxFrames
  /\ IF observes /\ binding # 0
     THEN /\ Observe(binding, ActivationFailure(binding), Entered(binding))
          /\ IF Granted(binding) THEN Push(Activation(phase, binding, TRUE))
             ELSE stack' = stack
     ELSE /\ Push(Activation(phase, 0, observes))
          /\ UNCHANGED <<control, raised>>
  /\ UNCHANGED <<binding, cache, hosted, requested, completed>>

StartActivation == EnterActivation("attempted", TRUE)

CallDirectly == EnterActivation("accepted", hosted # 0)

\* The arguments and the frame are prepared (which may run guest code).
AcceptActivation ==
  /\ Running /\ stack # <<>> /\ Top.kind = "activation" /\ Top.phase = "attempted"
  /\ stack' = <<[Top EXCEPT !.phase = "accepted"]>> \o Tail(stack)
  /\ UNCHANGED <<control, binding, cache, hosted, requested, raised, completed>>

LeaveActivation ==
  /\ stack' = Tail(stack)
  /\ control' = IF Top.releases THEN Released(binding) ELSE control
  /\ UNCHANGED <<binding, cache, hosted, requested, completed>>

Return ==
  /\ Running /\ stack # <<>> /\ Top.kind = "activation" /\ Top.phase = "accepted"
  /\ LeaveActivation
  /\ raised' = raised

\* Mutant of UnwindActivation: a failed preparation does not release.
UnwindActivationLeaks ==
  /\ Unwinding /\ Top.kind = "activation"
  /\ stack' = Tail(stack)
  /\ control' = IF Top.releases /\ Top.phase = "accepted" THEN Released(binding) ELSE control
  /\ raised' = raised
  /\ UNCHANGED <<binding, cache, hosted, requested, completed>>

\* An error leaves an activation, or makes its preparation fail.
UnwindActivation ==
  /\ Unwinding /\ Top.kind = "activation"
  /\ LeaveActivation
  /\ raised' = raised

Throw ==
  /\ Running /\ stack # <<>>
  /\ raised' = "guest"
  /\ UNCHANGED <<control, binding, cache, hosted, requested, stack, completed>>

\* Guest code catches guest errors and the depth RangeError; the Promise
\* constructor and async_step catch whatever their callee raises.
Caught ==
  /\ Unwinding
  /\ raised' = NoError
  /\ UNCHANGED <<control, binding, cache, hosted, requested, stack, completed>>

-----------------------------------------------------------------------------
(* Operations.                                                              *)

\* An operation without a policy: whatever control is installed stays.
BeginPlain ==
  /\ Running /\ Len(stack) < MaxFrames
  /\ Push(Operation("plain", 0))
  /\ UNCHANGED <<control, binding, cache, hosted, requested, raised, completed>>

\* with_execution_policy and run_bounded.
BeginBounded(steps, depth, handle) ==
  LET k == Len(control) + 1 IN
  /\ Running /\ k <= MaxOperations /\ Len(stack) < MaxFrames
  /\ control' = Append(control, NewControl(steps, depth, handle, FALSE))
  /\ Push(Operation("bounded", k))
  /\ binding' = k /\ cache' = k
  /\ UNCHANGED <<hosted, requested, raised, completed>>

\* with_hosted_execution_policy when no hosted operation is active: a strict
\* control, checked before the action starts.
BeginHosted(steps, depth, handle) ==
  LET k == Len(control) + 1
      c == NewControl(steps, depth, handle, TRUE)
  IN
  /\ Running /\ hosted = 0 /\ k <= MaxOperations /\ Len(stack) < MaxFrames
  /\ Push(Operation("hosted", k))
  /\ binding' = k /\ cache' = k /\ hosted' = k
  /\ IF handle \in requested
     THEN control' = Append(control, Latched(c, "interrupted")) /\ raised' = "terminal"
     ELSE control' = Append(control, c) /\ raised' = raised
  /\ UNCHANGED <<requested, completed>>

\* check_hosted_execution: nothing is charged.
HostedEnded == control[hosted].cause # NoError \/ Requested(hosted)

RaiseTerminal(cause) ==
  /\ control' = [control EXCEPT ![hosted] = Latched(@, cause)]
  /\ raised' = "terminal"

\* with_hosted_execution_policy inside a hosted operation shares its control.
JoinHosted ==
  /\ Running /\ hosted # 0 /\ Len(stack) < MaxFrames
  /\ IF HostedEnded THEN RaiseTerminal("interrupted") /\ stack' = stack
     ELSE /\ Push(Operation("joined", hosted))
          /\ UNCHANGED <<control, raised>>
  /\ UNCHANGED <<binding, cache, hosted, requested, completed>>

\* Mutant of Restore: the cache keeps the control that ended.
RestoreKeepsCache ==
  /\ stack' = Tail(stack)
  /\ IF Top.kind \in {"plain", "joined"} THEN UNCHANGED <<binding, hosted>>
     ELSE binding' = Top.binding /\ hosted' = Top.hosted
  /\ UNCHANGED <<cache, requested>>

\* An operation that installed nothing restores nothing.
Restore ==
  /\ stack' = Tail(stack)
  /\ IF Top.kind \in {"plain", "joined"} THEN UNCHANGED <<binding, cache, hosted>>
     ELSE binding' = Top.binding /\ cache' = Top.cache /\ hosted' = Top.hosted
  /\ requested' = requested

\* Mutant of EndOperation: a hosted operation trusts that its error arrived.
EndOperationUnchecked ==
  /\ Running /\ stack # <<>> /\ Top.kind # "activation"
  /\ Restore
  /\ completed' = completed \cup (IF Top.kind = "hosted" THEN {Top.control} ELSE {})
  /\ UNCHANGED <<control, raised>>

\* The action of an operation returned.  Hosted operations check once more:
\* an ended control is reported even if the error itself was caught.
EndOperation ==
  /\ Running /\ stack # <<>> /\ Top.kind # "activation"
  /\ IF Top.kind \in {"hosted", "joined"} /\ HostedEnded
     THEN /\ RaiseTerminal("interrupted")
          /\ UNCHANGED <<binding, cache, hosted, requested, stack, completed>>
     ELSE /\ Restore
          /\ completed' = completed \cup
               (IF Top.kind = "hosted" THEN {Top.control} ELSE {})
          /\ UNCHANGED <<control, raised>>

\* The action raised: the operation restores and reports the error.
UnwindOperation ==
  /\ Unwinding /\ Top.kind # "activation"
  /\ Restore
  /\ raised' = IF Tail(stack) = <<>> THEN NoError ELSE raised
  /\ UNCHANGED <<control, completed>>

\* A host callback failed: terminate_hosted_execution.
HostFails ==
  /\ Running /\ hosted # 0
  /\ RaiseTerminal("host failure")
  /\ UNCHANGED <<binding, cache, hosted, requested, stack, completed>>

\* The host, or a host function called by a script, requests interruption.
RequestInterruption(handle) ==
  /\ Running
  /\ requested' = requested \cup {handle}
  /\ UNCHANGED <<control, binding, cache, hosted, stack, raised, completed>>

GuestNext ==
  \/ Step
  \/ NativeProgress
  \/ StartActivation
  \/ CallDirectly
  \/ AcceptActivation
  \/ Return
  \/ UnwindActivation
  \/ Throw
  \/ Caught

HostNext ==
  \/ \E steps \in 0..MaxSteps, depth \in 0..MaxDepth, handle \in Handles :
       BeginBounded(steps, depth, handle) \/ BeginHosted(steps, depth, handle)
  \/ BeginPlain
  \/ JoinHosted
  \/ EndOperation
  \/ UnwindOperation
  \/ HostFails
  \/ \E handle \in Handles : RequestInterruption(handle)

Next == GuestNext \/ HostNext

Spec == Init /\ [][Next]_vars

-----------------------------------------------------------------------------
(* Properties.                                                              *)

ControlTypeOK ==
  /\ \A k \in Controls :
       control[k] \in [remaining : 0..MaxSteps, limit : 0..MaxDepth, depth : 0..MaxFrames,
                       handle : Handles, strict : BOOLEAN, cause : Causes \cup {NoError}]
  /\ binding \in 0..Len(control) /\ hosted \in 0..Len(control)
  /\ cache \in 0..Len(control) \cup {Unresolved}
  /\ requested \subseteq Handles
  /\ raised \in Errors \cup {NoError}
  /\ Len(stack) <= MaxFrames
  /\ completed \subseteq Controls

Innermost(P(_)) ==
  LET found == {i \in DOMAIN stack : P(stack[i])} IN
  IF found = {} THEN 0
  ELSE stack[CHOOSE i \in found : \A j \in found : i <= j].control

Installs(f) == f.kind \in {"bounded", "hosted"}
InstallsHosted(f) == f.kind = "hosted"

\* The installed control is that of the innermost operation in progress, the
\* cache never disagrees with it, and the hosted control is that of the
\* hosted operation in progress: an operation that ends, in any way and at any
\* nesting, gives the outer one its own control back.
CarrierInnermost ==
  /\ binding = Innermost(Installs)
  /\ cache \in {binding, Unresolved}
  /\ cache = Unresolved => binding = 0
  /\ hosted = Innermost(InstallsHosted)

\* The depth of every control is the number of activations in progress that it
\* granted, and never exceeds its limit: no release is lost, doubled, or paid
\* to the control of another operation.
DepthIsOwned ==
  \A k \in Controls :
    /\ control[k].depth =
         Cardinality({i \in DOMAIN stack :
           stack[i].kind = "activation" /\ stack[i].releases /\ stack[i].control = k})
    /\ control[k].depth <= control[k].limit

\* A hosted operation whose control ended does not return a value, whoever
\* caught the error on its way: the last check reports it.
TerminalReported ==
  \A k \in completed : control[k].cause = NoError

\* Once a control has ended or its interruption is requested, no step and no
\* activation is granted on it any more, and the first cause stays.
StoppedStaysStopped ==
  [][\A k \in Controls :
       /\ control[k].cause # NoError => control'[k].cause = control[k].cause
       /\ control[k].cause # NoError \/ Requested(k) =>
            /\ control'[k].remaining = control[k].remaining
            /\ control'[k].depth <= control[k].depth]_vars

=============================================================================
