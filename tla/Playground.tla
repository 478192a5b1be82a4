----------------------------- MODULE Playground -----------------------------
(***************************************************************************)
(* The web playground (playground/web/src): the page (main.ts, view.ts),   *)
(* one engine worker per run (engine-worker.ts), and what the browser does *)
(* between them.                                                           *)
(*                                                                         *)
(* The page's handlers are atomic; workers run beside it.  A worker may    *)
(* fail to load, evaluate for ever, reply once, or break.  Its events wait *)
(* in the page's task queue: they may be delivered in any order between    *)
(* workers, and those of a terminated worker may be delivered or not.      *)
(* A timer fires at any time until it is cleared: time is abstracted.      *)
(***************************************************************************)
EXTENDS Integers

CONSTANTS
    Sources,           \* texts of the editor
    Length,            \* their lengths
    MaxSourceLength,   \* MAX_SOURCE_LENGTH
    FirstSource,       \* the example shown first
    BridgeResults,     \* what playground_run can return or do
    MaxRuns,           \* bound on the runs that get a worker
    NoRun, NoMarker, NoLocation, NoEnd

PROTOCOL_VERSION == 1

Locations == [start : Int, end : Int \union {NoEnd}] \union {NoLocation}

Payloads == [protocolVersion : Nat, kind : STRING, fieldsValid : BOOLEAN,
             location : Locations]

Runs == [requestId : 1..MaxRuns, worker : 0..(MaxRuns - 1), source : Sources]

ASSUME PlaygroundAssumption ==
    /\ Length \in [Sources -> Nat]
    /\ MaxSourceLength \in Nat
    /\ FirstSource \in Sources
    /\ MaxRuns \in Nat
    /\ BridgeResults \subseteq Payloads
    /\ NoRun \notin Runs
    /\ NoMarker \notin [run : 1..MaxRuns, from : Nat, to : Nat]

VARIABLES
    text,           \* the document of the editor
    marker,         \* the diagnostic range shown in it, of which run
    page,           \* the status line, and the run whose text the panels hold
    active,         \* the active run
    nextWorkerId,
    timers,         \* request ids whose timeout is set
    worker,         \* what each worker is doing
    posted,         \* the request each worker was sent
    events          \* worker events the page has not handled

view == <<text, marker, page>>

vars == <<view, active, nextWorkerId, timers, worker, posted, events>>

WorkerIds == 0..(MaxRuns - 1)

Alive(w) == worker[w] \in {"loading", "evaluating", "idle", "broken"}

-----------------------------------------------------------------------------
(* playground-contracts.ts and protocol.ts *)

(* Mutation of IsCurrentResponse: any reply is taken for the active run's. *)
AnyResponse(run, response, w) == run # NoRun

IsCurrentResponse(run, response, w) ==
    /\ run # NoRun
    /\ run.requestId = response.requestId
    /\ run.worker = w

IsCurrentWorker(run, w) ==
    /\ run # NoRun
    /\ run.worker = w

IsSourceWithinLimit(source) == Length[source] <= MaxSourceLength

IsWorkerRequest(request) == IsSourceWithinLimit(request.source)

Clamp(low, x, high) == IF x < low THEN low ELSE IF x > high THEN high ELSE x

(* The range of a location, within the document.  A position without an end *)
(* is an empty range.                                                       *)
RangeOf(l) ==
    LET from == Clamp(0, l.start, Length[text])
        end  == IF l.end = NoEnd THEN l.start ELSE l.end
    IN  [from |-> from, to |-> Clamp(from, end, Length[text])]

(* Mutation of Selections: the document may have changed since the run. *)
SelectionsUnchecked(sourceAtRequest, location) ==
    IF location = NoLocation THEN {} ELSE {RangeOf(location)}

(* diagnosticSelection: the range to mark, or none, as a set.  The document *)
(* must be, again or still, the text that was run.                          *)
Selections(sourceAtRequest, location) ==
    IF sourceAtRequest # text \/ location = NoLocation THEN {}
    ELSE {RangeOf(location)}

-----------------------------------------------------------------------------
(* view.ts *)

Shows(status, run) == page' = [status |-> status, run |-> run]

(* renderRunning, renderCompleted, renderTerminated and clearOutput clear   *)
(* the marks of the editor.                                                 *)
Render(status, run) ==
    /\ Shows(status, run)
    /\ marker' = NoMarker

(* setEditorDiagnostic widens an empty range by one where there is room. *)
Mark(run, s) ==
    [run |-> run,
     from |-> s.from,
     to |-> IF s.to > s.from THEN s.to ELSE Clamp(0, s.from + 1, Length[text])]

RenderFailed(run, selections) ==
    /\ Shows("Failed", run)
    /\ marker' \in IF selections = {} THEN {NoMarker}
                   ELSE {Mark(run, s) : s \in selections}

(* The user types, or picks an example.  Every change of the document       *)
(* clears the marks in the same transaction; a run goes on.                 *)
WriteSource(source) ==
    /\ source # text
    /\ text' = source
    /\ marker' = NoMarker
    /\ UNCHANGED <<page, active, nextWorkerId, timers, worker, posted, events>>

-----------------------------------------------------------------------------
(* main.ts: the controls *)

Init ==
    /\ text = FirstSource
    /\ marker = NoMarker
    /\ page = [status |-> "Ready", run |-> 0]
    /\ active = NoRun
    /\ nextWorkerId = 0
    /\ timers = {}
    /\ worker = [w \in WorkerIds |-> "none"]
    /\ posted = [w \in WorkerIds |-> [requestId |-> 0, source |-> FirstSource]]
    /\ events = {}

(* Worker.terminate: the thread stops, and events it has posted may be      *)
(* dropped with its port or may still be delivered.                         *)
Terminated(w) == [worker EXCEPT ![w] = "terminated"]

EventsAfter(w) == {events, {e \in events : e.worker # w}}

(* Mutation of RemainingTimers: stopActive leaves the timeout running. *)
RemainingTimersAll == timers

(* stopActive: what is left of the timeouts, workers and events when the    *)
(* active run, if there is one, is stopped.                                 *)
RemainingTimers ==
    IF active = NoRun THEN timers ELSE timers \ {active.requestId}

RemainingWorkers == IF active = NoRun THEN worker ELSE Terminated(active.worker)

RemainingEvents == IF active = NoRun THEN {events} ELSE EventsAfter(active.worker)

(* run: the active run is stopped before the source is looked at. *)
Run ==
    LET id == nextWorkerId
        requestId == nextWorkerId + 1      \* crypto.randomUUID: fresh
    IN
    /\ IsSourceWithinLimit(text)
    /\ id < MaxRuns
    /\ nextWorkerId' = id + 1
    /\ timers' = RemainingTimers \union {requestId}
    /\ active' = [requestId |-> requestId, worker |-> id, source |-> text]
    /\ worker' = [RemainingWorkers EXCEPT ![id] = "loading"]
    /\ posted' = [posted EXCEPT ![id] = [requestId |-> requestId, source |-> text]]
    /\ events' \in RemainingEvents
    /\ Render("Running", 0)
    /\ UNCHANGED text

(* run, with a source that is too large: no worker is made. *)
RefuseSource ==
    /\ ~IsSourceWithinLimit(text)
    /\ timers' = RemainingTimers
    /\ active' = NoRun
    /\ worker' = RemainingWorkers
    /\ events' \in RemainingEvents
    /\ RenderFailed(0, {})
    /\ UNCHANGED <<text, nextWorkerId, posted>>

StopActive ==
    /\ active # NoRun
    /\ timers' = RemainingTimers
    /\ active' = NoRun
    /\ worker' = RemainingWorkers
    /\ events' \in RemainingEvents
    /\ Render("Stopped", 0)
    /\ UNCHANGED <<text, nextWorkerId, posted>>

(* The clear button stops the run and then empties the panels. *)
Clear ==
    /\ timers' = RemainingTimers
    /\ active' = NoRun
    /\ worker' = RemainingWorkers
    /\ events' \in RemainingEvents
    /\ Render("Ready", 0)
    /\ UNCHANGED <<text, nextWorkerId, posted>>

(* The callback of setTimeout, which checks that its run is the active one. *)
TimerFires(requestId) ==
    /\ requestId \in timers
    /\ timers' = timers \ {requestId}
    /\ IF active # NoRun /\ active.requestId = requestId
       THEN /\ worker' = Terminated(active.worker)
            /\ events' \in EventsAfter(active.worker)
            /\ active' = NoRun
            /\ Render("Execution terminated", 0)
       ELSE UNCHANGED <<worker, events, active, page, marker>>
    /\ UNCHANGED <<text, nextWorkerId, posted>>

-----------------------------------------------------------------------------
(* main.ts: worker events *)

(* An event handler returns early: the event is of a run that is over. *)
DropEvent(e) ==
    /\ events' = events \ {e}
    /\ UNCHANGED <<view, active, nextWorkerId, timers, worker, posted>>

(* The active run ends by an event of its worker. *)
EndRun(e) ==
    /\ timers' = timers \ {active.requestId}
    /\ active' = NoRun
    /\ worker' = Terminated(active.worker)
    /\ events' \in {E \ {e} : E \in EventsAfter(active.worker)}
    /\ UNCHANGED <<text, nextWorkerId, posted>>

(* Mutation of MessageEvent: the timeout is cleared before the response is  *)
(* known to be current.                                                     *)
MessageEventClearsFirst(e) ==
    /\ e.type = "message"
    /\ IF IsCurrentResponse(active, e.response, e.worker)
       THEN EndRun(e) /\ Render("Complete", e.response.requestId)
       ELSE /\ timers' = RemainingTimers
            /\ events' = events \ {e}
            /\ UNCHANGED <<view, active, nextWorkerId, worker, posted>>

MessageEvent(e) ==
    /\ e.type = "message"
    /\ IF IsCurrentResponse(active, e.response, e.worker)
       THEN /\ EndRun(e)
            /\ IF e.response.kind = "completed"
               THEN Render("Complete", e.response.requestId)
               ELSE RenderFailed(e.response.requestId,
                                 Selections(active.source, e.response.location))
       ELSE DropEvent(e)

ErrorEvent(e) ==
    /\ e.type = "error"
    /\ IF IsCurrentWorker(active, e.worker)
       THEN EndRun(e) /\ RenderFailed(active.requestId, {})
       ELSE DropEvent(e)

-----------------------------------------------------------------------------
(* engine-worker.ts *)

(* parseBridgePayload accepts two kinds of one version, with every field of *)
(* its type; isLocation wants offsets that are natural numbers.             *)
IsLocation(l) ==
    \/ l = NoLocation
    \/ l.start \in Nat /\ (l.end = NoEnd \/ l.end \in Nat)

ParsesBridgePayload(p) ==
    /\ p.protocolVersion = PROTOCOL_VERSION
    /\ p.kind \in {"completed", "failed"}
    /\ p.fieldsValid
    /\ p.kind = "failed" => IsLocation(p.location)

(* What onmessage posts: an answer to the request in every case, also when  *)
(* the request is not valid, and when the bridge throws or returns          *)
(* something of another shape.                                              *)
WorkerReply(request, p) ==
    IF IsWorkerRequest(request) /\ ParsesBridgePayload(p)
    THEN [requestId |-> request.requestId, kind |-> p.kind,
          location |-> IF p.kind = "failed" THEN p.location ELSE NoLocation]
    ELSE [requestId |-> request.requestId, kind |-> "failed",
          location |-> NoLocation]

ReceiveRequest(w) ==
    /\ worker[w] = "loading"
    /\ worker' = [worker EXCEPT ![w] = "evaluating"]
    /\ UNCHANGED <<view, active, nextWorkerId, timers, posted, events>>

Reply(w, p) ==
    /\ worker[w] = "evaluating"
    /\ worker' = [worker EXCEPT ![w] = "idle"]
    /\ events' = events \union
                   {[worker |-> w, type |-> "message",
                     response |-> WorkerReply(posted[w], p)]}
    /\ UNCHANGED <<view, active, nextWorkerId, timers, posted>>

(* The worker's module does not load, or an error escapes onmessage. *)
WorkerFails(w) ==
    /\ worker[w] \in {"loading", "evaluating"}
    /\ worker' = [worker EXCEPT ![w] = "broken"]
    /\ events' = events \union {[worker |-> w, type |-> "error"]}
    /\ UNCHANGED <<view, active, nextWorkerId, timers, posted>>

-----------------------------------------------------------------------------
Next ==
    \/ \E source \in Sources : WriteSource(source)
    \/ Run
    \/ RefuseSource
    \/ StopActive
    \/ Clear
    \/ \E requestId \in 1..MaxRuns : TimerFires(requestId)
    \/ \E e \in events : MessageEvent(e) \/ ErrorEvent(e)
    \/ \E w \in WorkerIds :
          \/ ReceiveRequest(w)
          \/ \E p \in BridgeResults : Reply(w, p)
          \/ WorkerFails(w)

Spec == Init /\ [][Next]_vars

(* A timeout that is not cleared fires.  Nothing is assumed of workers: an  *)
(* evaluation may take for ever, and an event may never be delivered.       *)
FairSpec == Spec /\ \A requestId \in 1..MaxRuns : WF_vars(TimerFires(requestId))

-----------------------------------------------------------------------------
(* Properties *)

Statuses == {"Ready", "Running", "Complete", "Failed", "Stopped", "Execution terminated"}

Responses == [requestId : 1..MaxRuns, kind : {"completed", "failed"},
              location : Locations]

TypeOK ==
    /\ text \in Sources
    /\ marker \in [run : 1..MaxRuns, from : Nat, to : Nat] \union {NoMarker}
    /\ page \in [status : Statuses, run : 0..MaxRuns]
    /\ active \in Runs \union {NoRun}
    /\ nextWorkerId \in 0..MaxRuns
    /\ timers \subseteq 1..MaxRuns
    /\ worker \in [WorkerIds -> {"none", "loading", "evaluating", "idle",
                                 "broken", "terminated"}]
    /\ posted \in [WorkerIds -> [requestId : 0..MaxRuns, source : Sources]]
    /\ events \subseteq [worker : WorkerIds, type : {"message"}, response : Responses]
                        \union [worker : WorkerIds, type : {"error"}]

(* What a run holds is released exactly when the run ends, on each of the   *)
(* six ways it can end: its timeout is the only one set, its worker is the  *)
(* only one alive, and the status line says Running just while it is active.*)
RunOwnsResources ==
    /\ timers = IF active = NoRun THEN {} ELSE {active.requestId}
    /\ \A w \in WorkerIds : Alive(w) => active # NoRun /\ active.worker = w
    /\ page.status = "Running" <=> active # NoRun

(* A range is marked in the editor only while the page shows the failure it *)
(* belongs to and the document is the text of that run, and it lies within  *)
(* the document; edits during and after the run, and back, included.        *)
MarkerOnFailedText ==
    marker # NoMarker =>
        /\ page.status = "Failed" /\ page.run = marker.run
        /\ text = posted[marker.run - 1].source
        /\ marker.from <= marker.to /\ marker.to <= Length[text]

(* The page as its user sees it. *)
Promised == INSTANCE ResultPage
                WITH latest <- nextWorkerId,
                     status <- page.status,
                     panels <- page.run

(* Late replies, late errors and timeouts of runs that are over change      *)
(* nothing: the page implements "one outcome, of the latest run".           *)
ImplementsPage == Promised!Spec

(* Every run that is started is over some time, whatever its worker does    *)
(* and whatever other workers reply.                                        *)
EveryRunEnds ==
    \A id \in 1..MaxRuns :
        (active # NoRun /\ active.requestId = id) ~>
            (active = NoRun \/ active.requestId # id)
=============================================================================
