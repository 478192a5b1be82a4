----------------------------- MODULE EventLoop ------------------------------
(***************************************************************************)
(* The engine's event loop: host operations that run JavaScript, microtask *)
(* checkpoints, and timer checkpoints that fire every timer of the virtual *)
(* clock with a microtask checkpoint after each callback.                  *)
(*                                                                         *)
(*   Interpreter::run_microtasks_observed   promise_core.mbt               *)
(*   Interpreter::run_timers_observed       promise_core.mbt               *)
(*   TimerQueuePolicyCore                   timer_policy.mbt               *)
(*   setTimeout/setInterval/clear*          stdlib/builtins_promise.mbt    *)
(*                                                                         *)
(* The engine is single threaded; what interleaves is callbacks with the   *)
(* loop that called them, and host operations with what earlier operations *)
(* left queued.  JavaScript is the environment: while a script or callback *)
(* runs it may queue jobs, schedule and cancel timers in any order, and it *)
(* ends by returning or by throwing.                                       *)
(***************************************************************************)
EXTENDS MicrotaskQueue, Integers

CONSTANTS
    MaxTimers,     \* bound on the number of setTimeout/setInterval calls
    MaxTimerRuns,  \* bound on the number of timer checkpoints
    SafetyLimit,   \* TIMER_SAFETY_LIMIT
    IntMax,        \* the largest Int32
    Delays         \* delay arguments, after the saturating conversion to Int32

ASSUME TimerAssumption ==
    /\ MaxTimers \in Nat
    /\ MaxTimerRuns \in Nat
    /\ SafetyLimit \in Nat
    /\ IntMax \in Nat
    /\ Delays \subseteq (-IntMax - 1)..IntMax

VARIABLES
    turn,                     \* which host operation is on the stack
    timer_queue,              \* HostEnv.timer_queue, as a set of TimerTasks
    timer_id_counter,         \* HostEnv.timer_id_counter
    timer_insertion_counter,  \* HostEnv.timer_insertion_counter
    cancelled_timer_ids,      \* keys of HostEnv.cancelled_timer_ids
    tphase,                   \* TimerQueuePolicyCore.phase
    iterations,               \* TimerQueuePolicyCore.iterations
    selected,                 \* the timer in Selected(t)/CallbackSucceeded(t)
    timer_runs,               \* bound: timer checkpoints begun
    revoked,                  \* history: ids cancelled while their timer was live
    fired                     \* history: ids whose callback ran in this timer run

tvars == <<timer_queue, timer_id_counter, timer_insertion_counter,
           cancelled_timer_ids, tphase, iterations, selected, timer_runs,
           revoked, fired>>

vars == <<mvars, turn, tvars>>

Turns == {"idle", "script", "microtasks", "timers"}

TimerPhases == {"Ready", "Selected", "CallbackSucceeded", "Failed", "Completed"}

Int32 == (-IntMax - 1)..IntMax

TimerTask == [id : Nat, delay : Int32, period : 0..IntMax,
              is_interval : BOOLEAN, insertion_order : Nat]

NoTimer == [id |-> 0, delay |-> 0, period |-> 0,
            is_interval |-> FALSE, insertion_order |-> 0]

(* Int32 addition of two values of the same sign, with wrap-around. *)
Wrap(n) == IF n > IntMax THEN n - IntMax - 1 - IntMax - 1 ELSE n

(* TimerTask::compare: the soonest, then the first inserted, is on top. *)
Before(t, u) ==
    \/ t.delay < u.delay
    \/ t.delay = u.delay /\ t.insertion_order < u.insertion_order

IsTop(t) == t \in timer_queue /\ \A u \in timer_queue : ~Before(u, t)

(* A timer has been popped and its turn is not over. *)
Firing == tphase \in {"Selected", "CallbackSucceeded"}

(* A timer that is queued or firing. *)
Live(id) ==
    \/ \E t \in timer_queue : t.id = id
    \/ Firing /\ selected.id = id

(* Guest code is on the stack. *)
JsRunning == turn = "script" \/ phase = "Selected" \/ tphase = "Selected"

-----------------------------------------------------------------------------
Init ==
    /\ MInit
    /\ turn = "idle"
    /\ timer_queue = {}
    /\ timer_id_counter = 1
    /\ timer_insertion_counter = 0
    /\ cancelled_timer_ids = {}
    /\ tphase = "Completed"
    /\ iterations = 0
    /\ selected = NoTimer
    /\ timer_runs = 0
    /\ revoked = {}
    /\ fired = {}

-----------------------------------------------------------------------------
(* Host operations that evaluate guest code without running any job. *)

BeginScript ==
    /\ turn = "idle"
    /\ turn' = "script"
    /\ UNCHANGED <<mvars, tvars>>

(* Return or throw: either way the queues are left as they are. *)
EndScript ==
    /\ turn = "script"
    /\ turn' = "idle"
    /\ UNCHANGED <<mvars, tvars>>

-----------------------------------------------------------------------------
(* What guest code may do. *)

QueueMicrotask ==
    /\ JsRunning
    /\ Enqueue
    /\ UNCHANGED <<turn, tvars>>

(* Mutation of ScheduleTimer: a stale cancellation of the new id is not     *)
(* purged.                                                                  *)
ScheduleTimerWithoutPurge(d, interval) ==
    /\ JsRunning
    /\ timer_id_counter <= MaxTimers
    /\ timer_id_counter' = timer_id_counter + 1
    /\ timer_insertion_counter' = timer_insertion_counter + 1
    /\ timer_queue' = timer_queue \union
         {[id |-> timer_id_counter, delay |-> IF d < 0 THEN 0 ELSE d,
           period |-> IF interval /\ d > 0 THEN d ELSE 0,
           is_interval |-> interval, insertion_order |-> timer_insertion_counter]}
    /\ UNCHANGED <<mvars, turn, cancelled_timer_ids, tphase, iterations, selected,
                   timer_runs, revoked, fired>>

(* setTimeout (period 0) and setInterval (period = delay): negative delays *)
(* are clamped, a stale cancellation of the new id is purged.              *)
ScheduleTimer(d, interval) ==
    LET delay == IF d < 0 THEN 0 ELSE d
        timer == [id |-> timer_id_counter, delay |-> delay,
                  period |-> IF interval THEN delay ELSE 0,
                  is_interval |-> interval,
                  insertion_order |-> timer_insertion_counter]
    IN  /\ JsRunning
        /\ timer_id_counter <= MaxTimers
        /\ timer_id_counter' = timer_id_counter + 1
        /\ cancelled_timer_ids' = cancelled_timer_ids \ {timer_id_counter}
        /\ timer_insertion_counter' = timer_insertion_counter + 1
        /\ timer_queue' = timer_queue \union {timer}
        /\ UNCHANGED <<mvars, turn, tphase, iterations, selected, timer_runs,
                       revoked, fired>>

(* clearTimeout and clearInterval: lazy, and for any id whatever. *)
CancelTimer(id) ==
    /\ JsRunning
    /\ cancelled_timer_ids' = cancelled_timer_ids \union {id}
    /\ revoked' = IF Live(id) THEN revoked \union {id} ELSE revoked
    /\ UNCHANGED <<mvars, turn, timer_queue, timer_id_counter,
                   timer_insertion_counter, tphase, iterations, selected,
                   timer_runs, fired>>

-----------------------------------------------------------------------------
(* One microtask checkpoint, requested by the host or by the timer loop.   *)
(* When it fails inside a timer checkpoint the timer run fails with it.    *)

BeginMicrotaskCheckpoint ==
    /\ turn = "idle"
    /\ turn' = "microtasks"
    /\ BeginDrain
    /\ UNCHANGED tvars

StartMicrotask ==
    /\ SelectNext
    /\ UNCHANGED <<turn, tvars>>

MicrotaskReturns ==
    /\ CompleteSelected
    /\ UNCHANGED <<turn, tvars>>

(* Mutation of NextInterval: the interval keeps its insertion order. *)
NextIntervalKeepsOrder(t) == [t EXCEPT !.delay = Wrap(t.delay + t.period)]

(* What checkpoint_succeeded registers for an interval that survived. *)
NextInterval(t) ==
    [t EXCEPT !.delay = Wrap(t.delay + t.period),
              !.insertion_order = timer_insertion_counter]

Requeues(t) == t.is_interval /\ t.id \notin cancelled_timer_ids

(* Mutation of AbandonTurn: a failing checkpoint registers the interval.   *)
AbandonTurnKeepsInterval ==
    /\ turn' = "idle"
    /\ tphase' = IF turn = "timers" THEN "Failed" ELSE tphase
    /\ selected' = NoTimer
    /\ timer_queue' = IF turn = "timers" /\ Requeues(selected)
                      THEN timer_queue \union {NextInterval(selected)}
                      ELSE timer_queue
    /\ timer_insertion_counter' = timer_insertion_counter + 1
    /\ UNCHANGED <<timer_id_counter, cancelled_timer_ids, iterations, timer_runs,
                   revoked, fired>>

(* The failed policy is dropped, with the timer it had popped. *)
AbandonTurn ==
    /\ turn' = "idle"
    /\ tphase' = IF turn = "timers" THEN "Failed" ELSE tphase
    /\ selected' = NoTimer
    /\ UNCHANGED <<timer_queue, timer_id_counter, timer_insertion_counter,
                   cancelled_timer_ids, iterations, timer_runs, revoked, fired>>

MicrotaskThrows ==
    /\ FailSelected
    /\ AbandonTurn

MicrotaskObservationRejected ==
    /\ RejectDispatchObservation
    /\ AbandonTurn

EndMicrotaskCheckpoint ==
    /\ turn = "microtasks"
    /\ CompleteDrain
    /\ turn' = "idle"
    /\ UNCHANGED tvars

-----------------------------------------------------------------------------
(* The timer loop. *)

BeginTimerCheckpoint ==
    /\ turn = "idle"
    /\ timer_runs < MaxTimerRuns
    /\ turn' = "timers"
    /\ tphase' = "Ready"
    /\ iterations' = 0
    /\ fired' = {}
    /\ timer_runs' = timer_runs + 1
    /\ UNCHANGED <<mvars, timer_queue, timer_id_counter,
                   timer_insertion_counter, cancelled_timer_ids, selected,
                   revoked>>

(* readiness() = TimerQueueObservationRequired *)
TimerRequired ==
    /\ tphase = "Ready"
    /\ timer_queue # {}
    /\ iterations < SafetyLimit

(* observe_execution_step raised: no timer is popped, the policy is dropped. *)
TimerObservationRejected ==
    /\ TimerRequired
    /\ turn' = "idle"
    /\ tphase' = "Failed"
    /\ UNCHANGED <<mvars, timer_queue, timer_id_counter,
                   timer_insertion_counter, cancelled_timer_ids, iterations,
                   selected, timer_runs, revoked, fired>>

(* A cancelled timer is dropped, at the price of one iteration. *)
DiscardTimer ==
    /\ TimerRequired
    /\ \E t \in timer_queue :
        /\ IsTop(t)
        /\ t.id \in cancelled_timer_ids
        /\ timer_queue' = timer_queue \ {t}
    /\ iterations' = iterations + 1
    /\ UNCHANGED <<mvars, turn, timer_id_counter, timer_insertion_counter,
                   cancelled_timer_ids, tphase, selected, timer_runs, revoked,
                   fired>>

StartTimer ==
    /\ TimerRequired
    /\ \E t \in timer_queue :
        /\ IsTop(t)
        /\ t.id \notin cancelled_timer_ids
        /\ timer_queue' = timer_queue \ {t}
        /\ selected' = t
        /\ fired' = fired \union {t.id}
    /\ tphase' = "Selected"
    /\ iterations' = iterations + 1
    /\ UNCHANGED <<mvars, turn, timer_id_counter, timer_insertion_counter,
                   cancelled_timer_ids, timer_runs, revoked>>

(* The timer callback threw: the timer, an interval too, is consumed. *)
TimerThrows ==
    /\ tphase = "Selected"
    /\ tphase' = "Failed"
    /\ selected' = NoTimer
    /\ turn' = "idle"
    /\ UNCHANGED <<mvars, timer_queue, timer_id_counter,
                   timer_insertion_counter, cancelled_timer_ids, iterations,
                   timer_runs, revoked, fired>>

(* Mutation of TimerReturns: the next timer follows without a checkpoint. *)
TimerReturnsWithoutCheckpoint ==
    /\ tphase = "Selected"
    /\ tphase' = "Ready"
    /\ UNCHANGED <<mvars, turn, timer_queue, timer_id_counter,
                   timer_insertion_counter, cancelled_timer_ids, iterations,
                   selected, timer_runs, revoked, fired>>

(* The callback returned: its microtask checkpoint begins. *)
TimerReturns ==
    /\ tphase = "Selected"
    /\ tphase' = "CallbackSucceeded"
    /\ BeginDrain
    /\ UNCHANGED <<turn, timer_queue, timer_id_counter,
                   timer_insertion_counter, cancelled_timer_ids, iterations,
                   selected, timer_runs, revoked, fired>>

(* Mutation of EndTimerTurn: the insertion counter is read, not advanced. *)
EndTimerTurnReusesOrder ==
    /\ turn = "timers"
    /\ CompleteDrain
    /\ tphase' = "Ready"
    /\ timer_queue' = IF Requeues(selected)
                      THEN timer_queue \union {NextInterval(selected)}
                      ELSE timer_queue
    /\ selected' = NoTimer
    /\ UNCHANGED <<turn, timer_insertion_counter, timer_id_counter,
                   cancelled_timer_ids, iterations, timer_runs, revoked, fired>>

(* The checkpoint drained: only now is cancellation looked up again, so an *)
(* interval cancelled by its own callback or by a job of its checkpoint is *)
(* not registered again.                                                   *)
EndTimerTurn ==
    /\ turn = "timers"
    /\ CompleteDrain
    /\ tphase' = "Ready"
    /\ IF Requeues(selected)
       THEN /\ timer_queue' = timer_queue \union {NextInterval(selected)}
            /\ timer_insertion_counter' = timer_insertion_counter + 1
       ELSE UNCHANGED <<timer_queue, timer_insertion_counter>>
    /\ selected' = NoTimer
    /\ UNCHANGED <<turn, timer_id_counter, cancelled_timer_ids, iterations,
                   timer_runs, revoked, fired>>

(* Mutation of EndTimerCheckpoint: the safety limit is not a reason to stop.*)
EndTimerCheckpointOnlyEmpty ==
    /\ tphase = "Ready"
    /\ timer_queue = {}
    /\ tphase' = "Completed"
    /\ turn' = "idle"
    /\ cancelled_timer_ids' = {}
    /\ UNCHANGED <<mvars, timer_queue, timer_id_counter,
                   timer_insertion_counter, iterations, selected, timer_runs,
                   revoked, fired>>

(* Empty queue or safety limit.  Cancellations are forgotten only when no  *)
(* timer is left that one of them could concern.                           *)
EndTimerCheckpoint ==
    /\ tphase = "Ready"
    /\ timer_queue = {} \/ iterations >= SafetyLimit
    /\ tphase' = "Completed"
    /\ turn' = "idle"
    /\ cancelled_timer_ids' = IF timer_queue = {} THEN {} ELSE cancelled_timer_ids
    /\ UNCHANGED <<mvars, timer_queue, timer_id_counter,
                   timer_insertion_counter, iterations, selected, timer_runs,
                   revoked, fired>>

-----------------------------------------------------------------------------
GuestStep ==
    \/ QueueMicrotask
    \/ \E d \in Delays, interval \in BOOLEAN : ScheduleTimer(d, interval)
    \/ \E id \in 1..MaxTimers : CancelTimer(id)

HostStep == BeginScript \/ BeginMicrotaskCheckpoint \/ BeginTimerCheckpoint

(* The loop's own steps and the end of whatever callback it is waiting for. *)
EngineStep ==
    \/ EndScript
    \/ StartMicrotask
    \/ MicrotaskReturns
    \/ MicrotaskThrows
    \/ MicrotaskObservationRejected
    \/ EndMicrotaskCheckpoint
    \/ TimerObservationRejected
    \/ DiscardTimer
    \/ StartTimer
    \/ TimerThrows
    \/ TimerReturns
    \/ EndTimerTurn
    \/ EndTimerCheckpoint

Next == GuestStep \/ HostStep \/ EngineStep

Spec == Init /\ [][Next]_vars

(* The engine keeps running and every callback eventually returns or       *)
(* throws; nothing is assumed of the host.                                 *)
FairSpec == Spec /\ WF_vars(EngineStep)

-----------------------------------------------------------------------------
TypeOK ==
    /\ MTypeOK
    /\ turn \in Turns
    /\ timer_queue \subseteq TimerTask
    /\ timer_id_counter \in 1..(MaxTimers + 1)
    /\ timer_insertion_counter \in Nat
    /\ cancelled_timer_ids \subseteq 1..MaxTimers
    /\ tphase \in TimerPhases
    /\ iterations \in 0..SafetyLimit
    /\ selected \in TimerTask
    /\ timer_runs \in 0..MaxTimerRuns
    /\ revoked \subseteq 1..MaxTimers
    /\ fired \subseteq Nat

(* The two policies and the host operation agree on who is running: a      *)
(* microtask policy is active exactly inside a checkpoint.                 *)
Nesting ==
    /\ turn = "timers" <=> tphase = "Ready" \/ Firing
    /\ Active <=> turn = "microtasks" \/ tphase = "CallbackSucceeded"

(* No two queued timers share an id or an insertion order, and the timer   *)
(* being fired is not in the queue: an interval is never registered twice, *)
(* even when its callback reschedules, cancels or fails.                   *)
TimersDistinct ==
    /\ \A t, u \in timer_queue :
          t.id = u.id \/ t.insertion_order = u.insertion_order => t = u
    /\ Firing => \A t \in timer_queue : t.id # selected.id

(* Within one timer checkpoint a timer callback starts only when every job *)
(* queued by the timer callbacks before it has run (promise_core.mbt:      *)
(* "After each timer callback, microtasks are drained before the next      *)
(* timer fires").                                                          *)
DrainedBetweenTimers ==
    turn = "timers" /\ tphase = "Ready" /\ fired # {} => Pending = << >>

(* Ids and insertion orders in use were handed out by the counters. *)
Allocated ==
    /\ \A t \in timer_queue :
          /\ t.id \in 1..(timer_id_counter - 1)
          /\ t.insertion_order < timer_insertion_counter
    /\ Firing => selected.id \in 1..(timer_id_counter - 1)
    /\ revoked \subseteq 1..(timer_id_counter - 1)

(* For a timer that can still fire, the map of cancelled ids says exactly  *)
(* whether it was cancelled since it was scheduled.                        *)
CancelledIffRevoked ==
    \A id \in 1..(timer_id_counter - 1) :
        Live(id) => (id \in cancelled_timer_ids <=> id \in revoked)

(* The inductive invariant of the timer half. *)
TimerInv ==
    /\ Nesting
    /\ Allocated
    /\ CancelledIffRevoked
    /\ TimersDistinct
    /\ DrainedBetweenTimers

(* Lazy cancellation is exact.  A timer cancelled while it was live never  *)
(* fires again, whatever runs, fails or drains in between; and a timer     *)
(* leaves the queue without firing only if it was cancelled while live, so *)
(* clearTimeout(n) before n was handed out has no effect on timer n.       *)
CancellationExact ==
    [][ /\ tphase # "Selected" /\ tphase' = "Selected" => selected'.id \notin revoked
        /\ \A t \in timer_queue \ timer_queue' :
              tphase' = "Selected" \/ t.id \in revoked ]_vars

(* A timer joins the queue behind every timer already due at the same time *)
(* or earlier: equal delays fire first come first served, and an interval  *)
(* that comes round again yields to the timers already waiting.            *)
TimerFifo ==
    [][ \A t \in timer_queue' \ timer_queue : \A u \in timer_queue :
           u.delay <= t.delay => Before(u, t) ]_vars

(* An interval is registered again only after its callback returned and    *)
(* every job queued until then has run (a failing callback or a failing    *)
(* checkpoint consumes the interval: EMBEDDING.md, checkpoint failures),   *)
(* and only if nobody cancelled it, its own callback and the jobs of its   *)
(* checkpoint included.                                                    *)
RequeueAfterCheckpoint ==
    [][ \A t \in timer_queue' \ timer_queue :
           t.id < timer_id_counter =>
              t.id \in fired \ revoked /\ Len(started') = enqueued' ]_vars

(* A timer checkpoint ends, intervals that re-register for ever included   *)
(* (TIMER_SAFETY_LIMIT), as long as callbacks return.                      *)
TimerCheckpointEnds == turn = "timers" ~> turn = "idle"

(* What the comment on TimerTask.delay says ("Absolute fire-at time in     *)
(* virtual ms", interpreter.mbt): a timer scheduled while a timer callback *)
(* runs is due at or after the virtual time of that callback.  The code    *)
(* stores the requested delay itself, so a timer scheduled from a callback *)
(* can be due before the moment it was scheduled.                          *)
FireAtIsAbsolute ==
    [][ \A t \in timer_queue' \ timer_queue :
           tphase = "Selected" => t.delay >= selected.delay ]_vars

(* What run_timers promises ("they fire in the correct relative order",    *)
(* promise_core.mbt): an interval comes round at or after the time it just *)
(* fired.  The due time is an Int32 that wraps, so an interval that passes *)
(* the largest Int32 becomes due before everything else.                   *)
IntervalMovesForward ==
    [][ \A t \in timer_queue' \ timer_queue :
           tphase = "CallbackSucceeded" /\ t.id = selected.id
              => t.delay >= selected.delay ]_vars
=============================================================================
