------------------------------ MODULE Promise ------------------------------
(***************************************************************************)
(* Promises as interpreter/runtime/promise_core.mbt, promise_executor.mbt  *)
(* and Promise.prototype.then of interpreter/stdlib/builtins_promise.mbt   *)
(* keep them.                                                              *)
(*                                                                         *)
(* A promise is settled only through resolving functions, which come in    *)
(* pairs that share one alreadyResolved cell; `cell' is the list of those  *)
(* pairs.  Resolving with an object reads its "then", which may run guest  *)
(* code (a getter) while the promise is neither pending for its owner nor  *)
(* settled, and then hands the promise to a job that makes a fresh pair.   *)
(* Guest code is arbitrary: it runs whenever `stack' is not empty and may  *)
(* call any operation with any value it could hold.  A native `then' is    *)
(* one of the things such code may be.                                     *)
(*                                                                         *)
(* The queue's own protocol (observation, retention after a failure) is    *)
(* module MicrotaskQueue; here a job is taken when no guest code runs.     *)
(***************************************************************************)
EXTENDS Naturals, Sequences

CONSTANTS
  Plain,        \* values that are not objects
  Thenables,    \* objects other than promises
  CycleError,   \* the TypeError "Chaining cycle detected for promise"
  MaxPromises,  \* bound: promises created
  MaxCells,     \* bound: pairs of resolving functions created
  MaxThens,     \* bound: reactions registered
  MaxDepth      \* bound: nested calls of guest code

ASSUME PromiseAssumption ==
  /\ CycleError \in Plain
  /\ Plain \cap Nat = {} /\ Thenables \cap Nat = {} /\ Plain \cap Thenables = {}
  /\ {MaxPromises, MaxCells, MaxThens} \subseteq Nat /\ MaxDepth \in Nat \ {0}

VARIABLES
  promise,    \* seq of [state, result, reactions]: the PromiseData created
  cell,       \* seq of [promise, used, guest]: alreadyResolved of each pair,
              \*   and whether guest code was given the pair
  reaction,   \* seq of [on, cell, handles]: the calls of `then'
  queue,      \* the pending promise jobs, oldest first
  stack,      \* the guest code that is running, innermost first
  started,    \* history: reactions whose job was taken, in that order
  abandoned   \* history: pairs that were to decide a promise when a runtime
              \*   failure ended the frame or the job that was to call them

vars == <<promise, cell, reaction, queue, stack, started, abandoned>>

Promises  == 1..Len(promise)
Cells     == 1..Len(cell)
Reactions == 1..Len(reaction)

\* What guest code may pass around.
Values == Plain \cup Thenables \cup Promises

\* is_thenable_object_candidate
Candidates == Thenables \cup Promises

Pending(p) == promise[p].state = "pending"

NewPromiseData == [state |-> "pending", result |-> CycleError, reactions |-> <<>>]

NewCell(p, guest) == [promise |-> p, used |-> FALSE, guest |-> guest]

Frame(kind, c, v) == [kind |-> kind, cell |-> c, value |-> v]

ReactionJob(r, outcome, v) ==
  [kind |-> "reaction", of |-> r, outcome |-> outcome, arg |-> v]

ThenableJob(p, v) ==
  [kind |-> "thenable", of |-> p, outcome |-> "pending", arg |-> v]

Init ==
  /\ promise = <<>> /\ cell = <<>> /\ reaction = <<>>
  /\ queue = <<>> /\ stack = <<>>
  /\ started = <<>> /\ abandoned = {}

-----------------------------------------------------------------------------
(* The runtime's own transitions.  `jobs' is the queue and `frames' the     *)
(* stack that the caller leaves behind.                                     *)

\* Mutant of Settle: the reaction lists are not cleared.
SettleKeepsReactions(p, outcome, v, jobs) ==
  IF Pending(p)
  THEN /\ promise' = [promise EXCEPT ![p].state = outcome, ![p].result = v]
       /\ queue' = jobs \o
            [i \in DOMAIN promise[p].reactions |->
               ReactionJob(promise[p].reactions[i], outcome, v)]
  ELSE /\ promise' = promise
       /\ queue' = jobs

\* fulfill_promise and reject_promise: only a pending promise changes; every
\* reaction of the outcome becomes a job in registration order.
Settle(p, outcome, v, jobs) ==
  IF Pending(p)
  THEN /\ promise' = [promise EXCEPT
            ![p] = [state |-> outcome, result |-> v, reactions |-> <<>>]]
       /\ queue' = jobs \o
            [i \in DOMAIN promise[p].reactions |->
               ReactionJob(promise[p].reactions[i], outcome, v)]
  ELSE /\ promise' = promise
       /\ queue' = jobs

\* Mutant of CallResolve: the pair is committed after the read of "then".
CallResolveCommitsLate(c, v, jobs, frames) ==
  LET p == cell[c].promise IN
  \/ /\ cell[c].used
     /\ queue' = jobs /\ stack' = frames
     /\ UNCHANGED <<promise, cell>>
  \/ /\ ~cell[c].used /\ v \in Candidates \ {p}
     /\ stack' = <<Frame("get", c, v)>> \o frames
     /\ queue' = jobs /\ UNCHANGED <<promise, cell>>
  \/ /\ ~cell[c].used /\ (v = p \/ v \notin Candidates)
     /\ cell' = [cell EXCEPT ![c].used = TRUE]
     /\ Settle(p, IF v = p THEN "rejected" ELSE "fulfilled",
                  IF v = p THEN CycleError ELSE v, jobs)
     /\ stack' = frames

\* The resolve function of pair c called with v.  The first call of the pair
\* wins, and wins before `then' is read.
CallResolve(c, v, jobs, frames) ==
  LET p == cell[c].promise
      Commit == cell' = [cell EXCEPT ![c].used = TRUE]
  IN \/ /\ cell[c].used
        /\ queue' = jobs /\ stack' = frames
        /\ UNCHANGED <<promise, cell>>
     \/ /\ ~cell[c].used /\ v = p
        /\ Commit
        /\ Settle(p, "rejected", CycleError, jobs)
        /\ stack' = frames
     \/ /\ ~cell[c].used /\ v # p /\ v \in Candidates
        /\ Commit
        /\ stack' = <<Frame("get", c, v)>> \o frames
        /\ queue' = jobs /\ promise' = promise
     \/ /\ ~cell[c].used /\ v \notin Candidates
        /\ Commit
        /\ Settle(p, "fulfilled", v, jobs)
        /\ stack' = frames

\* Mutant of CallReject: neither the pair nor the state is looked at.
CallRejectOverwrites(c, v, jobs, frames) ==
  /\ stack' = frames /\ queue' = jobs
  /\ cell' = [cell EXCEPT ![c].used = TRUE]
  /\ promise' = [promise EXCEPT ![cell[c].promise] =
       [state |-> "rejected", result |-> v, reactions |-> <<>>]]

\* The reject function of pair c called with v.
CallReject(c, v, jobs, frames) ==
  /\ stack' = frames
  /\ IF cell[c].used
     THEN queue' = jobs /\ UNCHANGED <<promise, cell>>
     ELSE /\ cell' = [cell EXCEPT ![c].used = TRUE]
          /\ Settle(cell[c].promise, "rejected", v, jobs)

-----------------------------------------------------------------------------
(* What running guest code does.                                            *)

GuestRuns == stack # <<>>

Top == Head(stack)
Below == Tail(stack)

\* The host runs a script, or a timer or microtask callback of the guest.
RunScript ==
  /\ stack = <<>>
  /\ stack' = <<Frame("script", 0, CycleError)>>
  /\ UNCHANGED <<promise, cell, reaction, queue, started, abandoned>>

\* new Promise(executor): the executor is called with the pair at once.
NewPromise ==
  /\ GuestRuns /\ Len(stack) < MaxDepth
  /\ Len(promise) < MaxPromises /\ Len(cell) < MaxCells
  /\ promise' = Append(promise, NewPromiseData)
  /\ cell' = Append(cell, NewCell(Len(promise) + 1, TRUE))
  /\ stack' = <<Frame("callee", Len(cell) + 1, CycleError)>> \o stack
  /\ UNCHANGED <<reaction, queue, started, abandoned>>

\* Guest code calls a resolve function it was given.
Resolve(c, v) ==
  /\ GuestRuns /\ cell[c].guest
  /\ Len(stack) < MaxDepth \/ v \notin Candidates
  /\ CallResolve(c, v, queue, stack)
  /\ UNCHANGED <<reaction, started, abandoned>>

\* Guest code calls a reject function it was given.
Reject(c, v) ==
  /\ GuestRuns /\ cell[c].guest
  /\ CallReject(c, v, queue, stack)
  /\ UNCHANGED <<reaction, started, abandoned>>

\* Mutants of Then: the state of the promise is not looked at; the reaction
\* of a settled promise takes the fulfilled path; its job goes first.
ThenAlwaysWaits(p, handles) ==
  LET r == Len(reaction) + 1 IN
  /\ GuestRuns
  /\ Len(promise) < MaxPromises /\ Len(cell) < MaxCells /\ Len(reaction) < MaxThens
  /\ cell' = Append(cell, NewCell(Len(promise) + 1, FALSE))
  /\ reaction' = Append(reaction, [on |-> p, cell |-> Len(cell) + 1, handles |-> handles])
  /\ promise' = Append([promise EXCEPT ![p].reactions = Append(@, r)], NewPromiseData)
  /\ UNCHANGED <<queue, stack, started, abandoned>>

ThenAssumesFulfilled(p, handles) ==
  LET r == Len(reaction) + 1 IN
  /\ GuestRuns
  /\ Len(promise) < MaxPromises /\ Len(cell) < MaxCells /\ Len(reaction) < MaxThens
  /\ cell' = Append(cell, NewCell(Len(promise) + 1, FALSE))
  /\ reaction' = Append(reaction, [on |-> p, cell |-> Len(cell) + 1, handles |-> handles])
  /\ IF Pending(p)
     THEN /\ promise' = Append([promise EXCEPT ![p].reactions = Append(@, r)],
                               NewPromiseData)
          /\ queue' = queue
     ELSE /\ promise' = Append(promise, NewPromiseData)
          /\ queue' = Append(queue, ReactionJob(r, "fulfilled", promise[p].result))
  /\ UNCHANGED <<stack, started, abandoned>>

ThenJumpsQueue(p, handles) ==
  LET r == Len(reaction) + 1 IN
  /\ GuestRuns
  /\ Len(promise) < MaxPromises /\ Len(cell) < MaxCells /\ Len(reaction) < MaxThens
  /\ cell' = Append(cell, NewCell(Len(promise) + 1, FALSE))
  /\ reaction' = Append(reaction, [on |-> p, cell |-> Len(cell) + 1, handles |-> handles])
  /\ IF Pending(p)
     THEN /\ promise' = Append([promise EXCEPT ![p].reactions = Append(@, r)],
                               NewPromiseData)
          /\ queue' = queue
     ELSE /\ promise' = Append(promise, NewPromiseData)
          /\ queue' = <<ReactionJob(r, promise[p].state, promise[p].result)>> \o queue
  /\ UNCHANGED <<stack, started, abandoned>>

\* Promise.prototype.then with the intrinsic constructor: a derived promise
\* and its pair, and a reaction that waits or is queued at once.  handles is
\* the set of outcomes for which a callable handler was passed.
Then(p, handles) ==
  LET r == Len(reaction) + 1 IN
  /\ GuestRuns
  /\ Len(promise) < MaxPromises /\ Len(cell) < MaxCells /\ Len(reaction) < MaxThens
  /\ cell' = Append(cell, NewCell(Len(promise) + 1, FALSE))
  /\ reaction' = Append(reaction, [on |-> p, cell |-> Len(cell) + 1, handles |-> handles])
  /\ IF Pending(p)
     THEN /\ promise' = Append([promise EXCEPT ![p].reactions = Append(@, r)],
                               NewPromiseData)
          /\ queue' = queue
     ELSE /\ promise' = Append(promise, NewPromiseData)
          /\ queue' = Append(queue, ReactionJob(r, promise[p].state, promise[p].result))
  /\ UNCHANGED <<stack, started, abandoned>>

-----------------------------------------------------------------------------
(* How running guest code ends.                                             *)

\* A script, an executor or a thenable's `then' returns or, in the first
\* case, throws: nothing is done with its completion.
CodeReturns ==
  /\ GuestRuns /\ Top.kind \in {"script", "callee"}
  /\ stack' = Below
  /\ UNCHANGED <<promise, cell, reaction, queue, started, abandoned>>

\* An executor or a thenable's `then' throws: the pair it was given rejects.
CodeThrows(v) ==
  /\ GuestRuns /\ Top.kind = "callee"
  /\ CallReject(Top.cell, v, queue, Below)
  /\ UNCHANGED <<reaction, started, abandoned>>

\* The read of "then" returned something callable: a job will call it.
GetReturnsCallable ==
  /\ GuestRuns /\ Top.kind = "get"
  /\ queue' = Append(queue, ThenableJob(cell[Top.cell].promise, Top.value))
  /\ stack' = Below
  /\ UNCHANGED <<promise, cell, reaction, started, abandoned>>

\* The read of "then" returned something else: the object is the value.
GetReturnsOther ==
  /\ GuestRuns /\ Top.kind = "get"
  /\ Settle(cell[Top.cell].promise, "fulfilled", Top.value, queue)
  /\ stack' = Below
  /\ UNCHANGED <<cell, reaction, started, abandoned>>

\* The read of "then" threw: the promise rejects with what was thrown.
GetThrows(v) ==
  /\ GuestRuns /\ Top.kind = "get"
  /\ Settle(cell[Top.cell].promise, "rejected", v, queue)
  /\ stack' = Below
  /\ UNCHANGED <<cell, reaction, started, abandoned>>

\* A handler returned or threw: the derived promise follows.  The reaction's
\* frame only waits for this call, so it is replaced by it.
HandlerReturns(v) ==
  /\ GuestRuns /\ Top.kind = "handler"
  /\ CallResolve(Top.cell, v, queue, Below)
  /\ UNCHANGED <<reaction, started, abandoned>>

HandlerThrows(v) ==
  /\ GuestRuns /\ Top.kind = "handler"
  /\ CallReject(Top.cell, v, queue, Below)
  /\ UNCHANGED <<reaction, started, abandoned>>

\* A runtime failure (an exhausted budget, an interruption, an InternalError)
\* is no rejection reason: it unwinds the innermost n calls, and the promise
\* operations that were waiting for those calls are never finished.  A call
\* may also be refused at its own activation: a refused handler, getter or
\* executor, or resolving function that was to follow one, is the failure of
\* the frame that stands for it (or its throwing, where depth is refused: a
\* RangeError is a guest error).
Fault(n) ==
  /\ stack' = SubSeq(stack, n + 1, Len(stack))
  /\ abandoned' = abandoned \cup
       {stack[i].cell : i \in {j \in 1..n : stack[j].kind \in {"get", "handler"}}}
  /\ UNCHANGED <<promise, cell, reaction, queue, started>>

-----------------------------------------------------------------------------
(* Jobs.                                                                    *)

\* PromiseResolveThenableJob: a fresh pair for the same promise, and a call of
\* the thenable's `then' with it (or neither: RefuseThenableJob).
StartThenableJob ==
  /\ stack = <<>> /\ queue # <<>> /\ Head(queue).kind = "thenable"
  /\ Len(cell) < MaxCells
  /\ cell' = Append(cell, NewCell(Head(queue).of, TRUE))
  /\ stack' = <<Frame("callee", Len(cell) + 1, CycleError)>>
  /\ queue' = Tail(queue)
  /\ UNCHANGED <<promise, reaction, started, abandoned>>

\* A reaction job whose outcome has a handler calls it.
StartHandler ==
  LET job == Head(queue) IN
  /\ stack = <<>> /\ queue # <<>> /\ job.kind = "reaction"
  /\ job.outcome \in reaction[job.of].handles
  /\ stack' = <<Frame("handler", reaction[job.of].cell, job.arg)>>
  /\ queue' = Tail(queue)
  /\ started' = Append(started, job.of)
  /\ UNCHANGED <<promise, cell, reaction, abandoned>>

\* Mutant of PassThrough: a rejection without a handler goes nowhere.
PassThroughDrops ==
  LET job == Head(queue) IN
  /\ stack = <<>> /\ queue # <<>> /\ job.kind = "reaction"
  /\ job.outcome \notin reaction[job.of].handles
  /\ IF job.outcome = "fulfilled"
     THEN CallResolve(reaction[job.of].cell, job.arg, Tail(queue), stack)
     ELSE queue' = Tail(queue) /\ UNCHANGED <<promise, cell, stack>>
  /\ started' = Append(started, job.of)
  /\ UNCHANGED <<reaction, abandoned>>

\* Without a handler the outcome passes to the derived promise, by a call of
\* its resolving function (which may be refused: RefuseReaction).
PassThrough ==
  LET job == Head(queue) IN
  /\ stack = <<>> /\ queue # <<>> /\ job.kind = "reaction"
  /\ job.outcome \notin reaction[job.of].handles
  /\ IF job.outcome = "fulfilled"
     THEN CallResolve(reaction[job.of].cell, job.arg, Tail(queue), stack)
     ELSE CallReject(reaction[job.of].cell, job.arg, Tail(queue), stack)
  /\ started' = Append(started, job.of)
  /\ UNCHANGED <<reaction, abandoned>>

\* The activation of a reaction's job is refused (budget, depth or
\* interruption) or, without a handler, that of the resolving function which
\* it calls: the job is taken, and nothing is left that could call the pair of
\* the derived promise.
RefuseReaction ==
  LET job == Head(queue) IN
  /\ stack = <<>> /\ queue # <<>> /\ job.kind = "reaction"
  /\ queue' = Tail(queue)
  /\ started' = Append(started, job.of)
  /\ abandoned' = abandoned \cup {reaction[job.of].cell}
  /\ UNCHANGED <<promise, cell, reaction, stack>>

\* The activation of a thenable's job is refused before the fresh pair exists,
\* or that of the thenable's `then' before any code has the pair.  Every pair
\* that the promise had is used: the history names one of them.
RefuseThenableJob ==
  /\ stack = <<>> /\ queue # <<>> /\ Head(queue).kind = "thenable"
  /\ queue' = Tail(queue)
  /\ \E c \in Cells : /\ cell[c].promise = Head(queue).of
                      /\ abandoned' = abandoned \cup {c}
  /\ UNCHANGED <<promise, cell, reaction, stack, started>>

GuestNext ==
  \/ NewPromise
  \/ \E c \in Cells, v \in Values : Resolve(c, v)
  \/ \E c \in Cells, v \in Values : Reject(c, v)
  \/ \E p \in Promises, handles \in SUBSET {"fulfilled", "rejected"} : Then(p, handles)

EndNext ==
  \/ CodeReturns
  \/ GetReturnsCallable
  \/ GetReturnsOther
  \/ \E v \in Values : \/ CodeThrows(v)
                       \/ GetThrows(v)
                       \/ HandlerReturns(v)
                       \/ HandlerThrows(v)
  \/ \E n \in 1..Len(stack) : Fault(n)

JobNext ==
  StartThenableJob \/ StartHandler \/ PassThrough \/ RefuseReaction \/ RefuseThenableJob

Next == RunScript \/ GuestNext \/ EndNext \/ JobNext

Spec == Init /\ [][Next]_vars

-----------------------------------------------------------------------------
(* Properties.                                                              *)

\* Every index that one list keeps into another is in range; only a pending
\* promise has waiting reactions.
PromiseTypeOK ==
  /\ \A p \in Promises :
       /\ promise[p].state \in {"pending", "fulfilled", "rejected"}
       /\ promise[p].result \in Values
       /\ \A i \in DOMAIN promise[p].reactions : promise[p].reactions[i] \in Reactions
       /\ ~Pending(p) => promise[p].reactions = <<>>
  /\ \A c \in Cells : cell[c] \in [promise : Promises, used : BOOLEAN, guest : BOOLEAN]
  /\ \A r \in Reactions :
       reaction[r] \in [on : Promises, cell : Cells, handles : SUBSET {"fulfilled", "rejected"}]
  /\ \A i \in DOMAIN queue :
       \/ /\ queue[i].kind = "reaction" /\ queue[i].of \in Reactions
          /\ queue[i].outcome \in {"fulfilled", "rejected"} /\ queue[i].arg \in Values
       \/ queue[i].kind = "thenable" /\ queue[i].of \in Promises /\ queue[i].arg \in Candidates
  /\ \A i \in DOMAIN stack :
       /\ stack[i].kind \in {"script", "callee", "get", "handler"}
       /\ stack[i].kind # "script" => stack[i].cell \in Cells
       /\ stack[i].value \in Values
  /\ Len(stack) <= MaxDepth
  /\ \A i \in DOMAIN started : started[i] \in Reactions
  /\ abandoned \subseteq Cells

\* What can still decide promise p, or has decided it.
Custodians(p) ==
  {<<"pair", c>> : c \in {d \in Cells \ abandoned :
       cell[d].promise = p /\ ~cell[d].used}} \cup
  {<<"reading then", i>> : i \in {j \in DOMAIN stack :
       stack[j].kind = "get" /\ cell[stack[j].cell].promise = p}} \cup
  {<<"thenable job", i>> : i \in {j \in DOMAIN queue :
       queue[j].kind = "thenable" /\ queue[j].of = p}} \cup
  (IF Pending(p) THEN {} ELSE {<<"settled", p>>}) \cup
  {<<"abandoned", c>> : c \in {d \in abandoned : cell[d].promise = p}}

\* A promise has exactly one custodian: an unused pair, a read of "then" in
\* progress, a queued thenable job, its settlement, or the failure that lost
\* it (by unwinding the read or the handler that was to decide it, or by
\* refusing the job).  So a second call of a pair, a getter that calls the pair again, and a
\* thenable that calls both of its functions decide nothing, and no legal
\* call leaves a promise that nothing can decide.
OneCustodian == \A p \in Promises : \E k \in Custodians(p) : Custodians(p) = {k}

\* Where reaction r is: waiting on a promise, in the queue, or started.
Places(r) ==
  (UNION {{<<"waiting", p, i>> : i \in {j \in DOMAIN promise[p].reactions :
             promise[p].reactions[j] = r}} : p \in Promises}) \cup
  {<<"queued", i>> : i \in {j \in DOMAIN queue :
       queue[j].kind = "reaction" /\ queue[j].of = r}} \cup
  {<<"started", i>> : i \in {j \in DOMAIN started : started[j] = r}}

\* A registered reaction waits, is queued, or its job was taken: once, never
\* twice and never lost, whatever `then' and the settlement interleave with.
ReactionInOnePlace ==
  \A r \in Reactions : \E k \in Places(r) : Places(r) = {k}

\* The pair of a derived promise is used only when its reaction's job is done
\* with it: not before the job starts and not while its handler runs.  And
\* always then, unless a runtime failure unwound the handler or refused the
\* job, its handler or its call of the pair.
DerivedFollows ==
  \A r \in Reactions :
    LET c == reaction[r].cell
        begun == \E i \in DOMAIN started : started[i] = r
        running == \E i \in DOMAIN stack : stack[i] = Frame("handler", c, stack[i].value)
    IN /\ cell[c].used => begun /\ ~running
       /\ begun /\ ~running => cell[c].used \/ c \in abandoned

\* A queued reaction job carries the outcome and the result that its promise
\* has: a job made when `then' meets a settled promise and one made by the
\* settlement cannot disagree.
JobCarriesOutcome ==
  \A i \in DOMAIN queue : queue[i].kind = "reaction" =>
    LET p == reaction[queue[i].of].on IN
    queue[i].outcome = promise[p].state /\ queue[i].arg = promise[p].result

\* Reactions of one promise start in the order in which `then' registered
\* them, those that waited and those added after the settlement alike.
RegistrationOrder ==
  LET Queued(i) == queue[i].kind = "reaction"
      On(r) == reaction[r].on
  IN
  /\ \A i, j \in DOMAIN started :
       i < j /\ On(started[i]) = On(started[j]) => started[i] < started[j]
  /\ \A i, j \in DOMAIN queue :
       i < j /\ Queued(i) /\ Queued(j) /\ On(queue[i].of) = On(queue[j].of) =>
         queue[i].of < queue[j].of
  /\ \A i \in DOMAIN started, j \in DOMAIN queue :
       Queued(j) /\ On(started[i]) = On(queue[j].of) => started[i] < queue[j].of

\* A step never changes the state, the result or the emptied reaction list of
\* a settled promise, and never makes a used pair usable again.
SettledForever ==
  [][/\ \A p \in Promises : ~Pending(p) => promise'[p] = promise[p]
     /\ \A c \in Cells : cell[c].used => cell'[c].used]_vars

=============================================================================
