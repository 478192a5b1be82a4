# A verification project for the JavaScript engine

TLA+ models of the parts of this repository in which order, re-entrancy and
failure matter. Of the engine: the microtask queue, the timer loop, the promise
state machine, hosted Execution Sessions, and the execution controls that bound
an operation. Of what is built around it: the web playground, and the three
programs whose verdicts are trusted (the Test262 regression gate, the JetStream
reference experiment, the URI load reproduction). TLC checks small instances,
TLAPS proves the central invariants for every instance.

Paths below are relative to the repository's source tree (`interpreter/runtime/...`
is `src/interpreter/runtime/...`).

## 1. Inventory

The engine itself is single threaded. What interleaves is guest code with the loop that
called it: every callback, getter, thenable and host binding may call back into
the engine while the caller is half way through its own state change, and every
such call may end by throwing. Guest code never appears as a program in the
models. It is an environment that may perform any operation it could hold a
reference to, any number of times, in any order, and then return or throw.

| Component | State it keeps | Operations | Hard behaviour | What makes it correct |
|---|---|---|---|---|
| Microtask queue and checkpoint policy (`microtask_policy.mbt`, `promise_core.mbt`) | the queue array; `next_index` and phase of one checkpoint | enqueue, select, complete, fail, reject an observation, drain | a job throws, or the step budget ends, in the middle of a drain that appended more jobs | each job is started once, in order; none is lost; while checkpoints complete every job runs |
| Timer queue, timer policy, event loop (`timer_policy.mbt`, `promise_core.mbt`, timer builtins) | heap of timers, id and insertion counters, map of cancelled ids, phase, iteration count | schedule, cancel, fire, discard, re-register an interval, stop at the safety limit | lazy cancellation from anywhere, also of ids not yet handed out; a failing callback or checkpoint; intervals that re-register for ever | cancellation is exact; a timer is registered once; jobs drain between timers; a run ends |
| Execution Session (`hosting.mbt`) | lifecycle state, callback map, next token id, recorded failure, load stack | evaluate, call_json, resume_scheduled_turn, close; host bindings | bindings re-enter this or another Session; tokens presented twice or elsewhere; guest code swallows a host failure | no re-entry; one run per token; host failures fault; nothing leaks into the next turn |
| Promise state machine and jobs (`promise_core.mbt`, `promise_executor.mbt`, `builtins_promise.mbt`) | PromiseData, alreadyResolved cells, reactions, jobs | construct, resolve, reject, then, settle, reaction and thenable jobs | getters and thenables that call the same resolving functions; runtime failures that unwind an operation | exactly one thing can decide a promise; each reaction is in one place; reactions run in registration order |
| Execution control and policies (`execution_control.mbt`, `execution_policy.mbt`) | steps left, depth, interruption handle, latched cause; binding, cache, hosted control | observe a step or an activation, release, install and restore, join, latch | operations nest; activations are released to whatever is installed; guest code swallows the terminal error | binding, cache and hosted control follow the innermost operation; depth is owned; an ended control is always reported |
| Executor activation stack (`executor_activation.mbt`) | frames, saved realm and parameter scope | acquire, accept, reject, release | preparation fails after the depth was acquired | releases match acquisitions |
| Engine diagnostics facade | none of its own | evaluate or call without jobs, bounded and hosted variants, checkpoints | any order of them | (through the queues and controls) |
| Promise statics, `finally`, subclassing | remaining-count cells, result arrays | all, allSettled, any, race, withResolvers | a thenable calls an element function twice | settles once, after the last element |
| Hosted execution probe (`hosted_execution_probe.mbt`, experimental) | an Execution Session, a policy, callback frames, the retained failure | call, nested calls from a callback, terminate | frames used after they ended; failures latched at several depths | as execution control; the first cause is reported |
| Async functions (`async.mbt`) | continuation, phase | start, await, resume, finish | a continuation re-entered by reactions; an error that is a limit, not a rejection | one resumption per await; limits are not rejections |
| Generators, async generators (`generator.mbt`) | state, replay, request queue | next, return, throw | re-entrant resumption, finally while returning | one resumption at a time; Completed is final |
| Module graph (`module_graph.mbt`) | records, indices, bindings | resolve exports, link, evaluate | cycles, star exports, failing modules | resolution ends; each module is evaluated once, after its dependencies |
| Activation dispatcher | cached admission decisions | admit, invoke | a fast path beside the general one | same results |
| Evaluator, bytecode candidate | environments; code and operand stack | evaluate; lower, verify, run | language semantics | same results as ECMAScript |
| Object model, realms, standard library | objects, properties, proxies | property operations, builtins | language semantics | ECMAScript |
| Lexer, parser, static semantics, regexp syntax | none | pure functions on text | grammar | ECMAScript |
| Web playground: page, engine workers, panels (`playground/web/src`) | active run, timeouts, workers, document and its mark, status line | run, stop, clear, edit; worker messages and errors; timeout | events of terminated workers arrive late or never; a worker hangs, fails to load or breaks; the document changes during a run | a run's resources end with it; late events change nothing; a mark belongs to the shown text; every run ends |
| JetStream reference experiment (`jetstream3_reference_experiment.js`, `jetstream3_reference_probe_core.js`, `jetstream3_admission.js`) | schedule position, deadline, observations; the evidence directory, checkout and payloads on disk | start, one member per slot, probe processes, report, index | the driver is killed and started again; members throw at any point; processes write to the checkout; time runs out between two slots | the index is evidence of its own attempt; what it calls valid was measured on the pinned sources; the budget is kept |
| Test262 regression gate (`.github/workflows/test262.yml`, `test262_failing_diff.js`, `test262_regression_check.sh`, `tooling/test262_runner`) | shard files, merged files, the baseline of the latest successful run | shard, merge, compare, promote | shards fail, are cancelled, lose or truncate their files, or discover different sets of tests | the baseline is complete; nothing that passed or was executed is lost from one baseline to the next |
| URI load reproduction (`test262_uri_load_repro.js`) | the records of the runner's invocations | invoke, validate, conclude, write | the runner is stuck, killed, or returns fewer results than tasks; a stale output file | a conclusion rests on equal samples and a working control; the outer timeout only hits a stuck runner |
| Compatibility table runner (`compat_table_runner.js`) | none between tests | run one test after another | | |
| Playground editor: completion, hover, example sync | none | pure functions, a build script | | |
| Stateful Engine facade, CLI, other tools, benchmarks | an interpreter | wrappers | none of their own | |

How they interact. Guest code enqueues microtasks (`queueMicrotask`, promise
jobs) and schedules timers. The host asks for a microtask checkpoint or for a
timer run. A timer run calls a callback, then runs a whole microtask checkpoint,
then looks the timer up again. A Hosted Turn is one call of guest code followed by one
microtask checkpoint; a Session has no timer queue of its own, its `setTimeout`
hands the host a token. Every loop asks the installed execution control for
permission before each entry, and a refusal raises an error in the middle of the
loop. Promise settlement is what turns reactions into microtasks.

The playground gives each run an engine in a worker of its own, which it sends one
request and terminates at the end of the run. The repository's tools run the
engine as a process: the Test262 runner once per test (the gate compares what its
shards wrote, the load reproduction runs the runner itself), the JetStream probes
once to list the workloads and once to run one.

## 2. Modules

| Module | Models | Uses |
|---|---|---|
| `JobQueue` | abstract: what is promised about jobs (a FIFO; taken once; never dropped) | |
| `MicrotaskQueue` | the queue array, the cursor and the checkpoint policy | refines `JobQueue` |
| `EventLoop` | scripts, microtask checkpoints, timer runs over the same queue | EXTENDS `MicrotaskQueue` |
| `EventLoopProofs` | the theorems of `MicrotaskQueue` and of `EventLoop` | |
| `ScheduledTurns` | abstract: one-shot tokens | |
| `HostedSession` | Sessions, Hosted Turns, host bindings, native re-entrancy | refines `ScheduledTurns` |
| `HostedSessionProofs` | its theorems | |
| `Promise` | promises, resolving pairs, reactions, promise jobs, guest stack | |
| `PromiseProofs` | its theorems | |
| `ExecutionControl` | controls, binding and cache, activations, nested operations | |
| `ExecutionControlProofs` | its theorems | |
| `ResultPage` | abstract: what the page promises its user | |
| `Playground` | page, workers and the browser between them | refines `ResultPage` |
| `PlaygroundProofs` | its theorems | |
| `ReferenceExperiment` | driver, probes, their processes, what lies on disk | |
| `ReferenceExperimentProofs` | its theorems | |
| `Test262Gate` | one workflow run after the other, and the baseline | |
| `Test262GateProofs` | its theorems | |
| `UriLoad` | one execution of the reproduction, and the runner it invokes | |
| `UriLoadProofs` | its theorems | |
| `MC...` | small instances for TLC | |

Operators named `...Keeps...`, `...Without...`, `...Unchecked` and the like,
introduced by "Mutation of" or "Mutant of", are not part of a specification. Each
is the form its successor would have with a plausible bug, and each is known to
violate a property; they document what the properties are sensitive to.

### Correspondence of state and actions

`MicrotaskQueue`. `microtask_queue`, `next_index` and `phase` are the fields of
the same names; a job is its number in enqueue order, so order and loss are
visible in the value. `enqueued` and `started` are histories. `BeginDrain` makes
the policy object of one checkpoint; `SelectNext`, `CompleteSelected`,
`FailSelected`, `RejectDispatchObservation`, `CompleteDrain` are the policy's
transitions as `run_microtasks_observed` drives them. The policy keeps the array
unchanged during a drain and moves a cursor; what is not started is `Pending`,
and that is what the refinement maps to.

`EventLoop`. `timer_queue` is the heap, as a set: only its top is ever taken, and
`TimersDistinct` shows the top is unique. `turn` says which host operation is on the
stack. `StartTimer`/`DiscardTimer` are `select_observed_timer`, `TimerReturns` is
the return of the callback together with the start of its checkpoint,
`EndTimerTurn` is the end of that checkpoint with `checkpoint_succeeded`,
`AbandonTurn` what a failing checkpoint leaves behind. `ScheduleTimer` is
`schedule_timer` with its clamp and its purge of a stale cancellation,
`CancelTimer` the lazy cancellation of any id at all. `revoked` and `fired` are
histories. Due times are Int32 with wrap-around.

`HostedSession`. One record of functions per Session: `state`, `callbacks`
(the map's keys), `next_id`, `failure`, `load_stack` (its length), `jobs` (the
number of queued microtasks). `step`, `host` and `loading` say where the turn is;
`depth` and `level` are the native stack on which turns of different Sessions
nest through host bindings. `Enter` is `require_available` with the transition to
Running; `EndAction`, `JobThrows` and `EndTurn` are `complete_running_turn` and
`finish_turn` on the three ways a turn ends. `Refuse` is every early return that
changes nothing. A Session's job order is not repeated here: it is
`MicrotaskQueue`'s.

`Promise`. `promise`, `cell` and `reaction` are the PromiseData records, the
shared alreadyResolved cells and the calls of `then`, each a growing list;
`queue` is the pending jobs and `stack` the guest code in progress: a script, an
executor or thenable's `then` ("callee"), a read of `then` ("get"), a handler.
`CallResolve` is the resolve function: the cell is committed, then `then` is read,
which pushes a frame, and `GetReturnsCallable`, `GetReturnsOther` and `GetThrows`
are the three continuations. `Fault` unwinds frames by a failure that is no
rejection reason. Every job is an activation that may be refused by budget, depth
or interruption (`executor_activation.mbt:3989-3992`), and so is each call it makes (`:2425`):
`RefuseReaction` is a reaction's job refused at its own entry or, without a handler, at its
call of the derived pair, `RefuseThenableJob` a thenable's job refused before code has its fresh
pair. Both consume the job. A refused handler, or resolving function after
a handler, is `Fault(1)` on the handler's frame (a handler refused for its depth may throw the
RangeError instead: `HandlerThrows`). `abandoned` is a history of the pairs that such
failures left with nothing to call them.

`ExecutionControl`. `control` is the list of ExecutionControl records, `binding`
the interpreter's slot, `cache` the carrier cache beside it, `hosted` the hosted
control. `stack` is what has to be unwound: operations, with what they saved, and
activations, with the control that charged them (history) and whether their end
releases. `Observe` is `observe_hosted` with the latch; `LeaveActivation`
releases to the control installed at that moment, as the code does.

`Playground`. `text` and `marker` are the editor's document and its diagnostic
decoration; `page` is the status line and the run whose text the panels hold;
`active`, `nextWorkerId` and the request ids in `timers` are `main.ts`'s. Request
ids are random UUIDs in the code and serial numbers here. Each handler of `main.ts` is
one action with everything it calls in `view.ts`: `Run`/`RefuseSource`,
`StopActive`, `Clear`, `TimerFires`, `MessageEvent`, `ErrorEvent`; `WriteSource` is
any edit. `worker` is the thread of each worker, `posted` the request it was
sent, `events` what it posted that the page has not handled: after `terminate` these
may be dropped or still arrive. `WorkerReply` is the `onmessage` of
`engine-worker.ts` with the validation of what the bridge returned.

`ReferenceExperiment`. `phase` says where `main` of the driver is, or of the member
it calls; `slot`, `clock`, `deadline`, `observations` are its locals; `files` says
which attempt wrote the report under each slot's name, `index` is
`run-index.json`. `checkout` and `payload` are what verification looks at. `Start` is
everything up to the loop, `BeginSlot`/`OutOfTime` its head, `Preflight`,
`Discovery`, `Execution`, `Report`, `ReportFails` one member, `WriteIndex` the rest.
`Killed` loses the memory (`Exit`) and keeps the disk; `CleanUp` is what a person
may do between attempts. A process may leave the checkout dirty whenever it runs.

`Test262Gate`. `jobs` is what each shard job uploaded and concluded, `merged` the
per-mode files of the run, `baseline` the artifact of the latest successful run.
`ShardJob` has a checkout of its own, complete or cut short; `ShardTasks` is the
runner's contiguous slicing; `MergeShards`, `Report` and `Compare` are the workflow's
steps, `FailingDiff` the exit status of the comparison. Both spellings of a
test's path have one key.

`UriLoad`. `options` stands for the command line and what lies where it points;
`runs` and `controls` are what `invokeRunner` returned so far. A control ends each of the
loops over iterations, so the number of controls says in which mode and condition the
program is (`BlocksDone`), and the number of runs whether the loop goes on
(`IterationsLeft`). `InvokeRunner` is a runner in order, which outlives the outer timeout
only if `LongestRun` may, `InvokeStuckRunner` one that is not; the field `stuck` of a
record is a history, which the program does not know. `EvidenceValid` and `Assessment`
judge the records, `WriteArtifact` writes the file and `Throw` is any exception, which
leaves an earlier file in place.

## 3. Runs

| Run | Question | Bounds |
|---|---|---|
| `microtasks` | Are jobs started once, in order, none lost, under every mixture of completing, failing and rejected checkpoints? Does each job start as long as none fails? Does the queue implement `JobQueue`? | 5 jobs |
| `event_loop` | Exact cancellation, distinct timers, drained checkpoints between timers, FIFO among equal delays, registration of intervals only after a successful checkpoint and if not cancelled | 2 jobs, 2 timers, 2 timer runs, safety limit 3, delays -1, 0, 1 |
| `event_loop_ends` | Does a timer run end although intervals re-register for ever? | 2 jobs, 2 timers, 1 timer run, safety limit 4 |
| `virtual_time` | Is a timer's delay an absolute fire-at time, as a comment says? It is not (finding) | 1 job, 2 timers |
| `interval_wrap` | Do intervals keep their relative order? Not across the Int32 boundary (finding) | Int32 replaced by -4..3, delays 2 and 3 |
| `sessions` | Re-entry, clean turns, host failures, one-shot tokens, lost callbacks, finality of faults; do Sessions implement `ScheduledTurns`? | 2 Sessions, 2 tokens each, 1 job, 1 load, symmetric Sessions |
| `promises` | One custodian per promise, each reaction in one place, derived promises, outcomes of jobs, registration order, settled for ever | 3 promises, 4 pairs, 2 reactions, call depth 2 |
| `execution_control` | Binding and cache follow the operations, depths are owned, ended controls are reported and stay ended | 2 operations, budgets 0..2, depth limits 0..1, 4 frames, 1 handle |
| `playground` | Resources end with their run, marks belong to the shown text, late events change nothing (`ResultPage`), every run ends | 3 runs, 3 texts of length 0, 2 and 3 with a limit of 2, 7 bridge results |
| `reference_experiment` | Is the index evidence of its own attempt, measured on the pinned sources, within the budget? | 2 members (4 slots), budget 5, process timeout 2, overhead 1, 2 attempts |
| `test262_gate` | Is every baseline complete, and does no test get lost from one to the next? | 2 modes with 2 and 1 tests, 2 shards, 3 statuses, 2 spellings of paths, any number of workflow runs |
| `uri_load` | Does a conclusion rest on equal samples, and does the outer timeout only hit a stuck runner? | 1 mode, 1 iteration, 2 cases, timeout 60 s, 1 and 4 workers, 6 command lines |

The strengthenings that only a proof needs, and most type invariants of the modules
that are proved, are not among the runs' properties: section 5 proves them.

Why the bounds are enough. Two timers and two timer runs let one timer cancel or
outlive the other, a failing run leave jobs and timers to the next, and an
interval meet a waiting timer; three iterations let the limit stop a run with
timers left. Two Sessions are needed for tokens of another Session and for
re-entry through a second Session, and the native stack cannot be higher than the
number of Sessions: the theorems below cover every other number. Two tokens give
one that is live while another is spent, and `MaxTurnId = 3` makes the id space run out.
Four pairs for three promises leave room for the fresh pair of a thenable job beside
the promise's own and a derived promise's, and depth 2 for a getter, executor or
handler that runs inside another piece of guest code. Two operations are one nested in another; a budget of 0, 1
or 2 meets the boundary before, at and after the first charge; the depth limit 0
refuses the first activation. Three runs of the playground let two workers be over while a
third is active, so that events of either can be taken for its own. A budget of 5 with
processes of at most 2 can end before each slot, and leaves 1 ms in some
behaviours, which halves to 0; two attempts are needed to leave reports of
a dead one. In the gate one test lies in each shard of the strict mode, and the
non-strict mode has an empty shard; a checkout that is cut short puts the same test in
another shard, which is how one is lost or comes twice. In the reproduction two cases and one worker
are the smallest instance in which a run takes longer than one timeout.

Every bound is a CONSTANT in a guard: `MaxJobs`, `MaxTimers`, `MaxTimerRuns`,
`MaxLoads`, `MaxPromises`, `MaxCells`, `MaxThens`, `MaxDepth` (of `Promise`),
`MaxOperations`, `MaxFrames`, `MaxRuns`, `MaxOverhead` and `MaxAttempts` limit exploration only.
`SafetyLimit`, `MaxTurnId`, `IntMax`, `MaxSteps`, the depth limits of `ExecutionControl`,
`MaxSourceLength` and `Budget` stand for limits the code has. `Repeats` is how often `uriTasks`
of the reproduction names each case: twice in the code, once in the run, any number in the
theorems. `VerifyLimit` bounds the runner's first trial of the engine, 30 s at `runtime.mbt:68`;
all that is assumed is that it is at most the minute the outer timeout adds.

Deadlock. The check stays on in every run but `uri_load`, whose program ends. There is always a host step or an end of
guest code to take, so a state in which nothing can happen would be a defect of
the model or of the code.

Fairness. `FairSpec` of `EventLoop` assumes weak fairness of `EngineStep` only:
the loop takes its next step and a callback returns or throws. It assumes nothing
of the host, which need not start anything, and no fairness of guest code, which
may go on scheduling for ever; the bounds keep each callback finite, as the step budget
does. `FairMSpec` of `MicrotaskQueue` models a host that runs a checkpoint again after
one that completed, which is how the jobs that `eval` and `call_json` leave are to be
run (`docs/EMBEDDING.md:308`), a drain that takes its next step, whatever it is, and
callbacks that end. It assumes nothing of the host once a checkpoint has failed, by a
job that threw or by a rejected observation: the engine is then to be discarded
(`docs/EMBEDDING.md:271`, `:284` and, for bounded checkpoints, integrity `discard` at `:159`).
Nor does it assume that the execution policy ever admits a step. `EveryJobStarts`
accordingly lets a job wait for ever only where a checkpoint has failed. What a host
observes that goes on all the same, as the document's diagnostic retries do, is in the
safety properties of the same run and in the conditional theorem `NextJobStarts`.
`FairSpec` of `Playground` assumes only that a timeout which is not cleared
fires, as browsers do. Nothing is assumed of workers, which may evaluate for ever, nor
of events, which may never be delivered.

## 4. Findings

Both are ordering properties the code's own comments state and the code does not
keep. They do not affect the other properties.

* `virtual_time`: `interpreter.mbt:59` calls `TimerTask.delay` an absolute fire-at
  time, but `schedule_timer` (`builtins_promise.mbt:1315`) stores the requested
  delay, also when called from a timer callback. A timer scheduled with delay 0 by
  the callback of a timer due at 1 is due before the moment it was scheduled.
* `interval_wrap`: the next due time of an interval is an Int32 sum
  (`timer_policy.mbt:181`) that wraps; after the wrap the interval is ahead of
  every waiting timer, against `promise_core.mbt:215-216`. The theorem
  `IntervalsMoveForwardBelowOverflow` shows that nothing else moves an interval back.

## 5. Theorems

Most are `Spec => []Inv`, `Spec => [][A]_vars` or refinements, for every value of
the constants; four are about progress (`WaitingJobStartsOrFails`, `NextJobStarts`, `OperationsProgress`,
`RunsEnd`). The assumptions on the constants are only those their modules
state: `MaxJobsAssumption` (a natural number), `TimerAssumption` (naturals, and
delays that fit Int32), `SessionAssumption` (naturals, a positive id limit;
nothing about the set of Sessions), `PromiseAssumption` (plain values, thenables and
promises are told apart; bounds are naturals, and guest code can be called at all),
`ControlAssumption` (naturals; nothing about the set of handles), `PlaygroundAssumption` (texts have a length; the
bridge's results are well formed), `ExperimentAssumption` (at least two members, all
different, and a positive budget), `UriLoadAssumption` (lists of modes and cases, positive
counts, `VerifyLimit` at most 60, options that are integers; nothing about what a command
line finds or a runner returns) and `GateAssumption` (a suite names at least one
test, and none twice; shard outcomes are statuses the runner knows; nothing about what a
shard job discovers or writes).

`EventLoopProofs`, the queue. The promised order and conservation are not inductive by
themselves: nothing relates the cursor to the history. `JobInv` adds `Positions`,
which says where each job sits in the array, and with it each transition is a
calculation about positions. From it follow `AtMostOnceInOrder`, `NothingLost` and
the refinement `QueueImplementsPromise`, in which selecting is the only step that
takes a job and cutting or clearing the array is a stutter. Every action leaves
the invariant also for steps of the queue alone (`MNext`), which is what lets the
event loop re-use it.

`EventLoopProofs`, the loop. `LoopRunsQueue` shows that each step of the loop is a step of the
queue or leaves the queue alone, so that `Spec => MSpec` and all of the above
holds under timers. The timer half is `TimerInv`: `Nesting` (which of the two
policies is active, and when) is needed to know that a checkpoint inside a timer
run belongs to the selected timer; `Allocated` to know that a new id or insertion
order is fresh; `CancelledIffRevoked` because the map of cancelled ids is looked
up long after it was written, and is purged and cleared in between. From it follow
`LoopDrained`, `LoopTimersDistinct` and the action properties `LoopCancellationExact`,
`LoopTimerFifo` (a timer joins the queue with an insertion order no timer has, by
`Allocated`) and `LoopRequeues`. The last needs both halves: the timer whose turn ends was
fired in this run (`FiringIsFired`), and a checkpoint that drained has started every job
(`UnstartedRetained` of the queue, through `LoopRunsQueue`). That nobody cancelled it is
`CancelledIffRevoked` again.

`EventLoopProofs`, progress. ENABLED is out of reach, so the fairness a theorem assumes is
written with the condition under which the action can be taken: `HostDrainsAgain`,
`DrainGoesOn` and `CallbacksEnd` are the conjuncts of `FairMSpec`, `EngineRuns` is that of
`FairSpec`. (TLC found each condition equivalent to ENABLED of its action in every state of
instances of both modules.) `WaitingJobStartsOrFails`: for every `n`, once `n` jobs have started and
another waits, another starts or a checkpoint fails. `NextJobStarts` is a conditional statement about more
than the contract: if the host goes on after failures too (`HostDrains`) and the policy
admits a step again and again (`PolicyAdmits`), another job starts, so that a job which
fails cannot block the queue. `OperationsAreFinite` gives each host operation a measure,
`Work`: two for each job to come, three for each iteration of the timer loop that
`SafetyLimit` leaves, and what is left of the current phase. Every step of the engine
lowers it and none of guest code raises it; a timer that was cancelled costs an iteration as
well as one that fires, which is why intervals cannot keep the loop alive. The jobs to come
are those the bound `MaxJobs` leaves; in the code it is the step budget, if any, that limits
them. `OperationsProgress` is the step that follows from it under fairness: the operation ends
or `Work` becomes less.

`HostedSessionProofs`. `SessionInv` strengthens the four safety properties with
`LoadStackExact` (the recorded stack is as deep as the calls), `Idle` (a Session
with no turn has nothing in progress) and `TokensFresh` (a callback still in the
map was never entered). The native stack is handled by `OneTurnAtATime`, which
describes it exactly: running Sessions occupy its positions one to one, and all
but the innermost wait in a host binding. `FaultsAreFinal` and the refinement
`SessionsImplementTokens` use the invariant; so does `CallbacksAreNotLost`, which goes
through the actions that shrink a callback map and shows for each why it may.
`NativeStackBounded` counts the places of the native stack: each has a Session of its own.

`PromiseProofs`. A handler of the code is a sequence of moves (a job is taken, a pair is
used up, a promise settles, a frame is pushed), and between two moves whoever runs has
a promise or a reaction in hand that no list accounts for. `InHand` therefore states the
invariant of the lists as arguments, with the promise `h` and the reaction `d` in hand;
each move has a lemma that takes something in hand or puts it back, each handler is a
composition of moves, and `PromiseInv` is `InHand` with nothing in hand. None of
the properties is inductive alone. `OneCustodian` needs that a read of `then` has used its
pair (`StackOK`), and that an abandoned pair is used up or that of a reaction whose job is over,
its handler unwound or the job refused (`AbandonedOK`). `DerivedFollows` needs that the pair of a derived promise belongs
to one reaction and is kept from guest code (`ReactionsOK`), and that a handler's frame lies at
the bottom of the stack, so that two are never in progress. `RegistrationOrder` needs that the waiting reactions of a promise are
increasing, and that none waits where one is queued or has started, which is
`PromisesOK`, `QueueOK` and `StartedOK`. Positions in lists are compared through `None` and
`One` (no position, or one, holds a member of a set), with a lemma for each way a list changes.
`OutcomeIsForever` turns the action property `SettledForever` into what a program relies on: an
outcome, once there, is there at every later time.

`ExecutionControlProofs`. The code restores a binding and releases an activation without
asking whose turn it is. That this is right is `Discipline`: each frame saved, or
was charged to, the control of the nearest frame below it that installs one, so what
an unwinding puts back is what `CarrierOn` asks of the rest of the stack, and what a
release decrements is the control that granted it. An operation's control is newer than
every control installed below it, so a completed control is installed by none in progress
(`CompletedLeft`). `DepthExact` counts activations as a set of positions; pushing adds
one and popping removes one. `StoppedIsFinal` and `TerminalIsReported` follow from the
invariant step by step. `BudgetsAreSpent` follows every control through every action (`Metered`): it
keeps the limits it was created with, loses at most one step at a time, and is charged an
activation only together with a step.

`PlaygroundProofs`. `PageInv` is the type invariant, the two safety properties and
`ActiveIsLatest`. Neither property is inductive without the last: `RunOwnsResources` alone
does not say that the worker and the request id of a new run are fresh, and
`MarkerOnFailedText` compares a reply with the text the page remembers, which has to be
the text that was posted. `PageIsImplemented` is the refinement of `ResultPage`:
messages, errors and timeouts of runs that are over are stutters. `RunsEnd` proves the liveness
property `EveryRunEnds` for any number of runs from the fairness of `TimerFires` alone, with "the
timeout is set" in place of ENABLED (equivalent in every state of `playground`): by
`RunOwnsResources` the active run has its timeout set, and when that fires the run is over.

`ReferenceExperimentProofs`. `ExperimentInv` adds four parts to the two properties of the
index: `Progress` (what a running driver has in memory and in its directory),
`Recorded` (what an observation says of its report is so), `Timing` (what is left of the
budget at each point of a slot) and `Pinning`. The last carries the argument that a valid
experiment measured the pinned sources: a slot with the expected outcome ran on
them or has left the checkout dirty, dirty is for good, and each later slot that is
measured has found the checkout clean; so only the last slot can have run on other
sources. `Timing` shows that giving each process at least 1 ms (half of a
last millisecond would be 0) overruns the budget by at most that millisecond.

`Test262GateProofs`. `BaselineComplete` is inductive by itself, because the baseline moves
only to what was compared, and the comparison accepts only a candidate with the keys of
the baseline (`DiffAccepts`, `BaselineMoves`). No invariant about the shards is needed: the
theorem holds whatever they discover, lose or write, so none of the count checks before
the comparison matters for it. `NothingIsLost` follows from what the comparison accepts, status by
status (`DiffRatchets`). The gate compares two runs only; `NothingIsEverLost` carries that along the
chain of baselines.

`UriLoadProofs`. Neither property is inductive. `UriInv` says where the loops of `main` are:
`Balance` counts the runs of each condition at every point of the loops (`(m + 1) * iterations`
isolated ones half way through mode `m + 1`), `ControlsInPlace` which mode and condition each control
belongs to, `Verdict` what the exit status and the file say when the program is over. Samples are
sets of (run, place in its results), so that the conclusion about them is about
cardinalities: a valid run has one result for each task, so a condition has (runs of it) times
(tasks) of them, and passes and timeouts divide them.
`OnlyStuckRunnersAreKilled` is the calculation that `n` tasks on any number of workers take
at most `n` rounds (`RoundsBound`), which with the minute for the trial of the engine is below
the outer timeout.

Only model-checked: the liveness properties `EveryJobStarts` and `TimerCheckpointEnds`. The step of
each is a theorem for every `n` (`WaitingJobStartsOrFails`, `OperationsProgress`); to join the steps is an
induction over `n` of a temporal formula, which the installed provers cannot do. Also only
model-checked is that fairness as TLA+ defines it, with ENABLED, is the one those theorems
assume. RECURSIVE operators are out of reach too; no module here declares one. Every other
property of a passing run is a theorem.

## 6. Abstractions and what is not modelled

* Values carry only what a property tells apart: jobs are numbers, promise
  values are one plain value, one object and the promises themselves. Formatting,
  parsing, console lines, JSON conversion and diagnostics are left out.
* The read of `then`, executors, handlers and host bindings run arbitrary guest
  or host code between their call and their return.
* `Promise` has the intrinsic constructor only. Left out: species and subclassed
  constructors, `is_handled` (nothing that changes state reads it), `await`'s
  reactions.
* `Caught` of `ExecutionControl` lets any error be caught anywhere: a superset of
  what guest code (guest errors and the depth RangeError), the Promise constructor
  and async functions (everything) can catch. `TerminalReported` holds all the same.
* The hosted and the plain control of one engine are in one model; the realms that
  carry them are not, so "carrier" is the one binding of the interpreter.
* `HostedSession` has `setTimeout` and `clearTimeout` of Sessions, not `setInterval`
  (Sessions do not offer it) and not `call_json`'s conversions. A Session installs no execution policy. The
  module is named after the Hosted Turn; it models `ExecutionSession`, not the
  probe's record of the same name.
* Saved realms, parameter scopes and stack-frame contents of activations are left
  out of `ExecutionControl`.
* `Playground`: a worker's message and the page's state are atomic per handler, as
  they are in a browser. The `terminated` kind of worker message, which the page
  accepts and no worker sends, is left out. Panels hold texts in the code; the
  model has the run they came from.
* `ReferenceExperiment`: a process that outlives its timeout is killed, as the shells do
  not handle the signal; `spawnSync` would wait for one that did. The checkout is
  verified before each member and may change right after, so what the last slot measured
  is not verified by a later one: `ValidOnPinnedSources` leaves that slot out.
* `Test262Gate`: runs on `main` are one at a time (the workflow's concurrency group).
  Pull requests are left out: they compare with the baseline too. That none of their runs becomes
  the baseline is an assumption about GitHub, namely that it lists them under their own
  branch; the script only asks for the latest successful run whose branch is called `main`
  (`test262_regression_check.sh:8`) and does not look at the event that started it. Re-runs of
  successful runs and a change of the pinned Test262 revision are left out as well; after the
  latter the set of keys differs and the gate fails until the baseline is replaced.
* `UriLoad`: the artifact of the runner has the shape the runner writes. A `null` in the place of a
  control's result would pass `validateControlRun` (`test262_uri_load_repro.js:450`), and in the place of
  another it would stop the program in `countStatus` (line 298); the runner never writes one.
* Not modelled: the compatibility table runner (a sequential pass in which no state outlives
  a test); completion, hover and example sync of the playground (pure functions and a build
  script); promise statics, async functions, generators, module graph,
  hosted execution probe (planned below); the evaluator, the bytecode candidate, the
  dispatcher, objects, library, parser (sequential semantics whose state TLC cannot
  enumerate, or pure functions over text); the facade, CLI, other tools and benchmarks.

## 7. Plan

Done, in this order: `MicrotaskQueue` with `JobQueue`, `EventLoop`, `HostedSession`
with `ScheduledTurns`, `Promise`, `ExecutionControl`, `Playground` with `ResultPage`,
`ReferenceExperiment`, `Test262Gate`, `UriLoad`; proofs for
all of them.

Next:

1. `AsyncFunction` over `Promise`: continuations, awaits and their reactions.
   First question: `async.mbt:340`, and likewise the Promise constructor
   (`builtins_promise.mbt:1185`), turn every error into a rejection, execution limits included,
   while `docs/EMBEDDING.md:160-163` treats those as failures of the operation.
2. `Generator` and the async generator's request queue.
3. `PromiseCombinators`: the remaining-count cells of `all`, `allSettled` and `any`,
   against their definition.
4. `ModuleGraph`: export resolution over cyclic graphs, against a reference
   definition, and evaluation order with failing modules.
5. The composition of `ExecutionControl` with the queue, for the bounded
   checkpoint as a whole; the hosted execution probe.
