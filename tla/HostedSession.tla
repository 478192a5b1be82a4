---------------------------- MODULE HostedSession ---------------------------
(***************************************************************************)
(* Execution Sessions and their Hosted Turns (hosting.mbt).                *)
(*                                                                         *)
(* A Session runs one Hosted Turn at a time: guest code (evaluate,         *)
(* call_json or a scheduled callback), then the Promise-job checkpoint.    *)
(* Guest code may call into the host (console sink, script resource        *)
(* resolver, timer scheduler); the host may answer, may raise, and may     *)
(* first call back into any Session, the running ones included.  The host  *)
(* also keeps every ScheduledTurn it was ever given and may present it to  *)
(* any Session any number of times.                                        *)
(*                                                                         *)
(* One native stack: level[s] is the position of s's turn on it.           *)
(***************************************************************************)
EXTENDS Integers

CONSTANTS
    Sessions,
    MaxTurnId,    \* MAX_SCHEDULED_TURN_ID
    MaxJobs,      \* bound on the length of a Session's microtask queue
    MaxLoads      \* bound on nested load() calls

ASSUME SessionAssumption ==
    /\ MaxTurnId \in Nat \ {0}
    /\ MaxJobs \in Nat
    /\ MaxLoads \in Nat

VARIABLES
    state,        \* ExecutionSession.state
    callbacks,    \* keys of SessionHostBinding.scheduled_callbacks
    next_id,      \* SessionHostBinding.next_scheduled_turn_id
    failure,      \* SessionHostBinding.failure is Some
    load_stack,   \* length of SessionHostBinding.load_stack
    jobs,         \* length of the Session's microtask queue
    step,         \* what the Session's turn is executing
    host,         \* the host binding the turn is waiting for
    loading,      \* load() activations on the turn's call stack
    depth,        \* turns on the native stack
    level,        \* where each Session's turn is on it, 0 for none
    runs,         \* history: entries of each scheduled callback
    raised        \* history: a host binding of the Session raised

bvars == <<callbacks, next_id, failure, load_stack>>

vars == <<state, bvars, jobs, step, host, loading, depth, level, runs, raised>>

States == {"Available", "Running", "Closed", "Faulted"}

Ids == 1..MaxTurnId

Tokens == Sessions \X Ids

(* The ids of the tokens given to the application, whatever became of them. *)
Issued(s) == 1..(next_id[s] - 1)

(* Guest code of s is executing. *)
Guest(s) ==
    /\ level[s] = depth
    /\ step[s] \in {"action", "job"}
    /\ host[s] = "none"

(* The application is executing: outside every turn, or inside a binding.  *)
HostRunning == \A s \in Sessions : level[s] = depth /\ depth > 0 => host[s] # "none"

-----------------------------------------------------------------------------
Init ==
    /\ state = [s \in Sessions |-> "Available"]
    /\ callbacks = [s \in Sessions |-> {}]
    /\ next_id = [s \in Sessions |-> 1]
    /\ failure = [s \in Sessions |-> FALSE]
    /\ load_stack = [s \in Sessions |-> 0]
    /\ jobs = [s \in Sessions |-> 0]
    /\ step = [s \in Sessions |-> "none"]
    /\ host = [s \in Sessions |-> "none"]
    /\ loading = [s \in Sessions |-> 0]
    /\ depth = 0
    /\ level = [s \in Sessions |-> 0]
    /\ runs = [t \in Tokens |-> 0]
    /\ raised = [s \in Sessions |-> FALSE]

-----------------------------------------------------------------------------
(* Beginning a turn. *)

(* Mutations of Enter: a running Session is entered again; a faulted one is *)
(* taken back into service.                                                 *)
EnterRunning(s) ==
    /\ HostRunning
    /\ state[s] \in {"Available", "Running"}
    /\ state' = [state EXCEPT ![s] = "Running"]
    /\ step' = [step EXCEPT ![s] = "action"]
    /\ depth' = depth + 1
    /\ level' = [level EXCEPT ![s] = depth + 1]

EnterFaulted(s) ==
    /\ HostRunning
    /\ state[s] \in {"Available", "Faulted"}
    /\ state' = [state EXCEPT ![s] = "Running"]
    /\ step' = [step EXCEPT ![s] = "action"]
    /\ depth' = depth + 1
    /\ level' = [level EXCEPT ![s] = depth + 1]

(* require_available, then the turn goes on the native stack. *)
Enter(s) ==
    /\ HostRunning
    /\ state[s] = "Available"
    /\ state' = [state EXCEPT ![s] = "Running"]
    /\ step' = [step EXCEPT ![s] = "action"]
    /\ depth' = depth + 1
    /\ level' = [level EXCEPT ![s] = depth + 1]

(* evaluate and call_json. *)
BeginTurn(s) ==
    /\ Enter(s)
    /\ UNCHANGED <<bvars, jobs, host, loading, runs, raised>>

(* Mutations of ResumeScheduledTurn: the callback stays registered; the     *)
(* identity of the binding is not checked.                                  *)
ResumeKeepsCallback(s, owner, id) ==
    /\ Enter(s)
    /\ owner = s
    /\ id \in Issued(owner) \intersect callbacks[s]
    /\ runs' = [runs EXCEPT ![<<owner, id>>] = runs[<<owner, id>>] + 1]
    /\ UNCHANGED <<bvars, jobs, host, loading, raised>>

ResumeForeign(s, owner, id) ==
    /\ Enter(s)
    /\ id \in Issued(owner) \intersect callbacks[s]
    /\ callbacks' = [callbacks EXCEPT ![s] = callbacks[s] \ {id}]
    /\ runs' = [runs EXCEPT ![<<owner, id>>] = runs[<<owner, id>>] + 1]
    /\ UNCHANGED <<next_id, failure, load_stack, jobs, host, loading, raised>>

(* resume_scheduled_turn of s with the token of callback id of owner: the  *)
(* binding must be the same object, the callback is removed and called.    *)
ResumeScheduledTurn(s, owner, id) ==
    /\ Enter(s)
    /\ owner = s
    /\ id \in Issued(owner) \intersect callbacks[s]
    /\ callbacks' = [callbacks EXCEPT ![s] = callbacks[s] \ {id}]
    /\ runs' = [runs EXCEPT ![<<owner, id>>] = runs[<<owner, id>>] + 1]
    /\ UNCHANGED <<next_id, failure, load_stack, jobs, host, loading, raised>>

(* SessionBusy, SessionClosed, SessionFaulted; ScheduledTurnUnavailable    *)
(* passes through Running back to Available without running guest code.    *)
Refuse(s) ==
    /\ HostRunning
    /\ \/ state[s] # "Available"
       \/ \E owner \in Sessions : \E id \in Issued(owner) :
              owner # s \/ id \notin callbacks[s]
    /\ UNCHANGED vars

Close(s) ==
    /\ HostRunning
    /\ state[s] \in {"Available", "Faulted"}
    /\ callbacks' = [callbacks EXCEPT ![s] = {}]
    /\ state' = [state EXCEPT ![s] = "Closed"]
    /\ UNCHANGED <<next_id, failure, load_stack, jobs, step, host, loading,
                   depth, level, runs, raised>>

-----------------------------------------------------------------------------
(* What guest code may do. *)

QueueJob(s) ==
    /\ Guest(s)
    /\ jobs[s] < MaxJobs
    /\ jobs' = [jobs EXCEPT ![s] = jobs[s] + 1]
    /\ UNCHANGED <<state, bvars, step, host, loading, depth, level, runs, raised>>

(* clearTimeout, with any id whatever. *)
ClearTimeout(s, id) ==
    /\ Guest(s)
    /\ callbacks' = [callbacks EXCEPT ![s] = callbacks[s] \ {id}]
    /\ UNCHANGED <<state, next_id, failure, load_stack, jobs, step, host, loading,
                   depth, level, runs, raised>>

(* setTimeout up to the call of the scheduler: the callback is registered   *)
(* first, so that the scheduler may already present the token.              *)
BeginSchedule(s) ==
    /\ Guest(s)
    /\ next_id[s] >= 1 /\ next_id[s] < MaxTurnId
    /\ next_id' = [next_id EXCEPT ![s] = next_id[s] + 1]
    /\ callbacks' = [callbacks EXCEPT ![s] = callbacks[s] \union {next_id[s]}]
    /\ host' = [host EXCEPT ![s] = "scheduler"]
    /\ UNCHANGED <<state, failure, load_stack, jobs, step, loading, depth, level,
                   runs, raised>>

(* ScheduledTurnIdSpaceExhausted: the scheduler is not called. *)
ScheduleExhausted(s) ==
    /\ Guest(s)
    /\ next_id[s] >= MaxTurnId
    /\ failure' = [failure EXCEPT ![s] = TRUE]
    /\ raised' = [raised EXCEPT ![s] = TRUE]
    /\ UNCHANGED <<state, callbacks, next_id, load_stack, jobs, step, host,
                   loading, depth, level, runs>>

(* console.* with a sink, load() up to the call of the resolver. *)
CallHost(s) ==
    /\ Guest(s)
    /\ host' = [host EXCEPT ![s] = "sink"]
    /\ UNCHANGED <<state, bvars, jobs, step, loading, depth, level, runs, raised>>

BeginResolve(s) ==
    /\ Guest(s)
    /\ host' = [host EXCEPT ![s] = "resolver"]
    /\ UNCHANGED <<state, bvars, jobs, step, loading, depth, level, runs, raised>>

(* The loaded script returned or raised: its identity is popped. *)
EndLoad(s) ==
    /\ Guest(s)
    /\ loading[s] > 0
    /\ loading' = [loading EXCEPT ![s] = loading[s] - 1]
    /\ load_stack' = [load_stack EXCEPT ![s] = load_stack[s] - 1]
    /\ UNCHANGED <<state, callbacks, next_id, failure, jobs, step, host, depth,
                   level, runs, raised>>

-----------------------------------------------------------------------------
(* How a host binding ends. *)

InHost(s) == level[s] = depth /\ depth > 0 /\ host[s] # "none"

(* The scheduler or the sink returned; the resolver returned None, which   *)
(* is an ordinary exception of the guest.                                  *)
HostReturns(s) ==
    /\ InHost(s)
    /\ host' = [host EXCEPT ![s] = "none"]
    /\ UNCHANGED <<state, bvars, jobs, step, loading, depth, level, runs, raised>>

(* The resolver returned a script: its identity is pushed, it is evaluated. *)
ResolverReturnsScript(s) ==
    /\ InHost(s)
    /\ host[s] = "resolver"
    /\ loading[s] < MaxLoads
    /\ host' = [host EXCEPT ![s] = "none"]
    /\ loading' = [loading EXCEPT ![s] = loading[s] + 1]
    /\ load_stack' = [load_stack EXCEPT ![s] = load_stack[s] + 1]
    /\ UNCHANGED <<state, callbacks, next_id, failure, jobs, step, depth, level,
                   runs, raised>>

(* A binding raised: the failure is recorded whatever the guest does with  *)
(* the exception, and a refused timer leaves no callback behind.           *)
HostRaises(s) ==
    /\ InHost(s)
    /\ host' = [host EXCEPT ![s] = "none"]
    /\ failure' = [failure EXCEPT ![s] = TRUE]
    /\ raised' = [raised EXCEPT ![s] = TRUE]
    /\ callbacks' = IF host[s] = "scheduler"
                    THEN [callbacks EXCEPT ![s] = callbacks[s] \ {next_id[s] - 1}]
                    ELSE callbacks
    /\ UNCHANGED <<state, next_id, load_stack, jobs, step, loading, depth, level,
                   runs>>

-----------------------------------------------------------------------------
(* Ending a turn: complete_running_turn and finish_turn. *)

Leave(s) ==
    /\ depth' = depth - 1
    /\ level' = [level EXCEPT ![s] = 0]
    /\ step' = [step EXCEPT ![s] = "none"]

(* Faulted, with the failure taken and every outstanding token withdrawn.  *)
Fault(s) ==
    /\ state' = [state EXCEPT ![s] = "Faulted"]
    /\ failure' = [failure EXCEPT ![s] = FALSE]
    /\ callbacks' = [callbacks EXCEPT ![s] = {}]
    /\ Leave(s)

(* Mutation of EndAction: a reusable failure goes back to the application   *)
(* without the checkpoint.                                                  *)
EndActionWithoutCheckpoint(s, integrity) ==
    /\ Guest(s)
    /\ step[s] = "action"
    /\ loading[s] = 0
    /\ IF failure[s] \/ integrity = "Discard"
       THEN Fault(s)
       ELSE /\ state' = [state EXCEPT ![s] = "Available"]
            /\ Leave(s)
            /\ UNCHANGED <<failure, callbacks>>
    /\ UNCHANGED <<next_id, load_stack, jobs, host, loading, runs, raised>>

(* The action returned, or ended with an error of the given integrity.     *)
(* A recorded host failure wins over the result and skips the checkpoint.  *)
EndAction(s, integrity) ==
    /\ Guest(s)
    /\ step[s] = "action"
    /\ loading[s] = 0
    /\ IF failure[s] \/ integrity = "Discard"
       THEN Fault(s)
       ELSE /\ step' = [step EXCEPT ![s] = "checkpoint"]
            /\ UNCHANGED <<state, failure, callbacks, depth, level>>
    /\ UNCHANGED <<next_id, load_stack, jobs, host, loading, runs, raised>>

StartJob(s) ==
    /\ level[s] = depth
    /\ step[s] = "checkpoint"
    /\ jobs[s] > 0
    /\ jobs' = [jobs EXCEPT ![s] = jobs[s] - 1]
    /\ step' = [step EXCEPT ![s] = "job"]
    /\ UNCHANGED <<state, bvars, host, loading, depth, level, runs, raised>>

JobReturns(s) ==
    /\ Guest(s)
    /\ step[s] = "job"
    /\ loading[s] = 0
    /\ step' = [step EXCEPT ![s] = "checkpoint"]
    /\ UNCHANGED <<state, bvars, jobs, host, loading, depth, level, runs, raised>>

(* A failing checkpoint is Discard, whatever the error. *)
JobThrows(s) ==
    /\ Guest(s)
    /\ step[s] = "job"
    /\ loading[s] = 0
    /\ Fault(s)
    /\ UNCHANGED <<next_id, load_stack, jobs, host, loading, runs, raised>>

(* Mutation of EndTurn: the failure is looked up before the checkpoint only. *)
EndTurnIgnoresFailure(s) ==
    /\ level[s] = depth
    /\ step[s] = "checkpoint"
    /\ jobs[s] = 0
    /\ state' = [state EXCEPT ![s] = "Available"]
    /\ Leave(s)
    /\ UNCHANGED <<bvars, jobs, host, loading, runs, raised>>

(* The checkpoint drained: a host failure recorded by a job still faults.  *)
EndTurn(s) ==
    /\ level[s] = depth
    /\ step[s] = "checkpoint"
    /\ jobs[s] = 0
    /\ IF failure[s]
       THEN Fault(s)
       ELSE /\ state' = [state EXCEPT ![s] = "Available"]
            /\ Leave(s)
            /\ UNCHANGED <<failure, callbacks>>
    /\ UNCHANGED <<next_id, load_stack, jobs, host, loading, runs, raised>>

-----------------------------------------------------------------------------
HostNext(s) ==
    \/ BeginTurn(s)
    \/ \E owner \in Sessions, id \in Ids : ResumeScheduledTurn(s, owner, id)
    \/ Refuse(s)
    \/ Close(s)
    \/ HostReturns(s)
    \/ ResolverReturnsScript(s)
    \/ HostRaises(s)

GuestNext(s) ==
    \/ QueueJob(s)
    \/ \E id \in Ids : ClearTimeout(s, id)
    \/ BeginSchedule(s)
    \/ ScheduleExhausted(s)
    \/ CallHost(s)
    \/ BeginResolve(s)
    \/ EndLoad(s)

TurnNext(s) ==
    \/ \E integrity \in {"Reusable", "Discard"} : EndAction(s, integrity)
    \/ StartJob(s)
    \/ JobReturns(s)
    \/ JobThrows(s)
    \/ EndTurn(s)

Next == \E s \in Sessions : HostNext(s) \/ GuestNext(s) \/ TurnNext(s)

Spec == Init /\ [][Next]_vars

-----------------------------------------------------------------------------
TypeOK ==
    /\ state \in [Sessions -> States]
    /\ callbacks \in [Sessions -> SUBSET Ids]
    /\ next_id \in [Sessions -> Ids]
    /\ failure \in [Sessions -> BOOLEAN]
    /\ load_stack \in [Sessions -> 0..MaxLoads]
    /\ jobs \in [Sessions -> 0..MaxJobs]
    /\ step \in [Sessions -> {"none", "action", "checkpoint", "job"}]
    /\ host \in [Sessions -> {"none", "scheduler", "sink", "resolver"}]
    /\ loading \in [Sessions -> 0..MaxLoads]
    /\ depth \in Nat
    /\ level \in [Sessions -> Nat]
    /\ runs \in [Tokens -> Nat]
    /\ raised \in [Sessions -> BOOLEAN]

(* A Session is never re-entered: the running Sessions are exactly those on *)
(* the native stack, one at each place, and all but the innermost wait in a *)
(* host binding.  (engine_test.mbt, "Execution Session rejects re-entry     *)
(* while a Hosted Turn is running", has one Session and one level.)         *)
OneTurnAtATime ==
    /\ \A s \in Sessions :
          /\ state[s] = "Running" <=> level[s] \in 1..depth
          /\ level[s] \in 0..depth
          /\ level[s] \in 1..(depth - 1) => host[s] # "none"
    /\ \A s, t \in Sessions : level[s] = level[t] /\ level[s] # 0 => s = t
    /\ \A d \in 1..depth : \E s \in Sessions : level[s] = d

(* Nothing of one turn leaks into the next: between turns a Session that    *)
(* can be used again has no job left, no recorded failure and no script on  *)
(* its load stack, whether the last turn ended well, with a reusable error, *)
(* in a load() that threw, or with a token that was not available.          *)
CleanBetweenTurns ==
    \A s \in Sessions : state[s] = "Available" =>
        jobs[s] = 0 /\ ~failure[s] /\ load_stack[s] = 0

(* The load stack, from which a resolver learns the referrer, is as deep as *)
(* the nesting of load() calls, also after loaded scripts threw.            *)
LoadStackExact == \A s \in Sessions : load_stack[s] = loading[s]

(* A raising host binding faults its Session at the end of the turn, even   *)
(* when the guest caught the exception or a job of the checkpoint met it    *)
(* (EMBEDDING.md: "discard, unknown, Host Failure, and Promise-job          *)
(* checkpoint failure fault it").                                           *)
HostFailureFaults ==
    \A s \in Sessions : raised[s] =>
        \/ state[s] \in {"Faulted", "Closed"}
        \/ state[s] = "Running" /\ failure[s]

(* A Session with no turn has nothing in progress; one with a turn does. *)
Idle ==
    \A s \in Sessions :
        /\ state[s] # "Running" => step[s] = "none" /\ loading[s] = 0
        /\ state[s] = "Running" => step[s] # "none"
        /\ step[s] = "checkpoint" => loading[s] = 0
        /\ host[s] # "none" => step[s] \in {"action", "job"}
        /\ failure[s] => state[s] = "Running"

(* A callback that is still registered was never entered. *)
TokensFresh ==
    \A s \in Sessions :
        /\ callbacks[s] \subseteq Issued(s)
        /\ state[s] \in {"Faulted", "Closed"} => callbacks[s] = {}
        /\ \A id \in Ids :
              id \in callbacks[s] \/ id >= next_id[s] => runs[<<s, id>>] = 0

(* Every callback is entered at most once. *)
ResumedAtMostOnce == \A t \in Tokens : runs[t] <= 1

(* The inductive invariant. *)
SessionInv ==
    /\ TypeOK
    /\ OneTurnAtATime
    /\ CleanBetweenTurns
    /\ LoadStackExact
    /\ HostFailureFaults
    /\ Idle
    /\ TokensFresh
    /\ ResumedAtMostOnce

(* A faulted or closed Session never runs guest code again, and none of its *)
(* tokens is left: jobs it still holds are never dispatched.                *)
FaultIsFinal ==
    [][ \A s \in Sessions : state[s] \in {"Faulted", "Closed"} =>
           /\ state[s]' \in {"Faulted", "Closed"}
           /\ callbacks[s]' = {}
           /\ jobs[s]' = jobs[s] ]_vars

(* A scheduled callback is not lost: it leaves the map only when it is      *)
(* entered with its own token, cleared by its own guest, refused by a       *)
(* raising scheduler, or withdrawn with its Session.  Tokens of another     *)
(* Session and requests to a busy Session consume nothing.                  *)
CallbackNotLost ==
    [][ \A s \in Sessions : \A id \in callbacks[s] \ callbacks[s]' :
           \/ runs[<<s, id>>]' = runs[<<s, id>>] + 1
           \/ Guest(s) /\ UNCHANGED state
           \/ host[s] = "scheduler" /\ failure[s]'
           \/ state[s]' \in {"Faulted", "Closed"} ]_vars

(* The tokens, as the application is promised them. *)
Promised == INSTANCE ScheduledTurns
                WITH issued <- {t \in Tokens : t[2] \in Issued(t[1])},
                     live   <- {t \in Tokens : t[2] \in callbacks[t[1]]}

(* The callback map, the ownership check and the two ways a Session ends    *)
(* implement one-shot tokens, under every re-entrant use of them.           *)
ImplementsScheduledTurns == Promised!Spec
=============================================================================
