-------------------------- MODULE PlaygroundProofs --------------------------
(***************************************************************************)
(* Playground for every set of texts, every bridge result and any number   *)
(* of runs.                                                                *)
(***************************************************************************)
EXTENDS Playground, TLAPS

(* The active run is the latest one, its worker was sent its text, workers  *)
(* are made in the order of their ids, and each is sent its own request.    *)
ActiveIsLatest ==
    /\ active # NoRun =>
          /\ active.requestId = nextWorkerId
          /\ active.worker = nextWorkerId - 1
          /\ active.source = posted[active.worker].source
    /\ \A w \in WorkerIds :
          /\ worker[w] = "none" <=> w >= nextWorkerId
          /\ w < nextWorkerId => posted[w].requestId = w + 1

(* The inductive invariant.  RunOwnsResources alone does not say that a     *)
(* new run's worker and request id are its own; MarkerOnFailedText alone    *)
(* does not say that the text a reply is compared with was the one sent.    *)
PageInv ==
    /\ TypeOK
    /\ RunOwnsResources
    /\ ActiveIsLatest
    /\ MarkerOnFailedText

-----------------------------------------------------------------------------
(* The range of a location lies within the document. *)
LEMMA RangeWithin ==
    ASSUME NEW l \in Locations, l # NoLocation, text \in Sources
    PROVE  /\ RangeOf(l).from \in Nat /\ RangeOf(l).to \in Nat
           /\ RangeOf(l).from <= RangeOf(l).to
           /\ RangeOf(l).to <= Length[text]
<1>1. l.start \in Int /\ (l.end = NoEnd \/ l.end \in Int)
  BY DEF Locations
<1>2. Length[text] \in Nat
  BY PlaygroundAssumption
<1> QED
  BY <1>1, <1>2 DEF RangeOf, Clamp

(* setEditorDiagnostic keeps it there. *)
LEMMA MarkWithin ==
    ASSUME NEW run, NEW l \in Locations, l # NoLocation, text \in Sources
    PROVE  LET m == Mark(run, RangeOf(l)) IN
           /\ m = [run |-> run, from |-> m.from, to |-> m.to]
           /\ m.from \in Nat /\ m.to \in Nat
           /\ m.from <= m.to /\ m.to <= Length[text]
<1>1. /\ RangeOf(l).from \in Nat /\ RangeOf(l).to \in Nat
      /\ RangeOf(l).from <= RangeOf(l).to /\ RangeOf(l).to <= Length[text]
  BY RangeWithin
<1>2. Length[text] \in Nat
  BY PlaygroundAssumption
<1> DEFINE r == RangeOf(l)
<1> HIDE DEF r
<1> QED
  BY <1>1, <1>2 DEF Mark, Clamp

(* What a failed run marks, if anything, is a range of the document, which  *)
(* is then the text of that run.                                            *)
LEMMA FailureMarks ==
    ASSUME TypeOK, NEW run \in 1..MaxRuns, NEW source, NEW l \in Locations,
           RenderFailed(run, Selections(source, l)), UNCHANGED text
    PROVE  /\ page' = [status |-> "Failed", run |-> run]
           /\ marker' \in [run : 1..MaxRuns, from : Nat, to : Nat] \union {NoMarker}
           /\ marker' # NoMarker =>
                 /\ marker'.run = run /\ source = text
                 /\ marker'.from <= marker'.to /\ marker'.to <= Length[text]
<1>1. page' = [status |-> "Failed", run |-> run]
  BY DEF RenderFailed, Shows
<1>2. CASE marker' = NoMarker
  BY <1>1, <1>2
<1>3. CASE marker' # NoMarker
  <2>1. /\ source = text /\ l # NoLocation
        /\ marker' = Mark(run, RangeOf(l))
    BY <1>3 DEF RenderFailed, Selections
  <2>2. text \in Sources
    BY DEF TypeOK
  <2> QED
    BY <1>1, <2>1, <2>2, MarkWithin
<1> QED
  BY <1>2, <1>3

(* Stopping the active run, if there is one, leaves no timeout and no       *)
(* worker, and no event that was not there.                                 *)
LEMMA StopReleases ==
    ASSUME PageInv
    PROVE  /\ RemainingTimers = {}
           /\ RemainingWorkers \in [WorkerIds -> {"none", "loading", "evaluating",
                                                  "idle", "broken", "terminated"}]
           /\ \A w \in WorkerIds :
                 /\ RemainingWorkers[w] \in {"none", "terminated"}
                 /\ RemainingWorkers[w] = "none" <=> worker[w] = "none"
           /\ \A E \in RemainingEvents : E \subseteq events
<1>1. CASE active = NoRun
  BY <1>1 DEF PageInv, TypeOK, RunOwnsResources, ActiveIsLatest, RemainingTimers,
     RemainingWorkers, RemainingEvents, Alive
<1>2. CASE active # NoRun
  <2>1. /\ active \in Runs /\ active.worker \in WorkerIds
        /\ active.worker < nextWorkerId
        /\ nextWorkerId \in Nat
    BY <1>2, PlaygroundAssumption DEF PageInv, TypeOK, ActiveIsLatest, Runs, WorkerIds
  <2>2. RemainingTimers = {}
    BY <1>2 DEF PageInv, RunOwnsResources, RemainingTimers
  <2>3. RemainingWorkers = [worker EXCEPT ![active.worker] = "terminated"]
    BY <1>2 DEF RemainingWorkers, Terminated
  <2>4. \A w \in WorkerIds :
           /\ RemainingWorkers[w] \in {"none", "terminated"}
           /\ RemainingWorkers[w] = "none" <=> worker[w] = "none"
    BY <2>1, <2>3 DEF PageInv, TypeOK, RunOwnsResources, ActiveIsLatest, Alive, WorkerIds
  <2>5. \A E \in RemainingEvents : E \subseteq events
    BY <1>2 DEF RemainingEvents, EventsAfter
  <2> QED
    BY <2>1, <2>2, <2>3, <2>4, <2>5 DEF PageInv, TypeOK
<1> QED
  BY <1>1, <1>2

(* A state in which no run is active, as every end of a run leaves it. *)
LEMMA EndedInv ==
    ASSUME PageInv, text' \in Sources,
           marker' \in [run : 1..MaxRuns, from : Nat, to : Nat] \union {NoMarker},
           page' \in [status : Statuses, run : 0..MaxRuns], page'.status # "Running",
           active' = NoRun, timers' = {}, UNCHANGED <<nextWorkerId, posted>>,
           worker' \in [WorkerIds -> {"none", "loading", "evaluating", "idle",
                                      "broken", "terminated"}],
           \A w \in WorkerIds :
              /\ worker'[w] \in {"none", "terminated"}
              /\ worker'[w] = "none" <=> worker[w] = "none",
           events' \subseteq events,
           MarkerOnFailedText'
    PROVE  PageInv'
<1>1. TypeOK'
  BY DEF PageInv, TypeOK
<1>2. RunOwnsResources'
  BY DEF RunOwnsResources, Alive
<1>3. ActiveIsLatest'
  BY DEF PageInv, ActiveIsLatest
<1> QED
  BY <1>1, <1>2, <1>3 DEF PageInv

(* The active run ends by stopActive. *)
LEMMA StoppedInv ==
    ASSUME PageInv, timers' = RemainingTimers, active' = NoRun,
           worker' = RemainingWorkers, events' \in RemainingEvents,
           page' \in [status : Statuses, run : {0}], page'.status # "Running",
           marker' = NoMarker, UNCHANGED <<text, nextWorkerId, posted>>
    PROVE  PageInv'
<1>1. MarkerOnFailedText'
  BY DEF MarkerOnFailedText
<1>2. page' \in [status : Statuses, run : 0..MaxRuns] /\ text' \in Sources
  BY PlaygroundAssumption DEF PageInv, TypeOK
<1> QED
  BY <1>1, <1>2, StopReleases, EndedInv

(* The active run ends by its own timeout or by an event of its worker. *)
LEMMA EndReleases ==
    ASSUME PageInv, active # NoRun
    PROVE  /\ timers \ {active.requestId} = {}
           /\ Terminated(active.worker)
                 \in [WorkerIds -> {"none", "loading", "evaluating", "idle",
                                    "broken", "terminated"}]
           /\ \A w \in WorkerIds :
                 /\ Terminated(active.worker)[w] \in {"none", "terminated"}
                 /\ Terminated(active.worker)[w] = "none" <=> worker[w] = "none"
           /\ \A E \in EventsAfter(active.worker) : E \subseteq events
BY StopReleases DEF RemainingTimers, RemainingWorkers, RemainingEvents

(* What a worker posts is a response of the protocol. *)
LEMMA ReplyTyped ==
    ASSUME TypeOK, NEW w \in WorkerIds, posted[w].requestId \in 1..MaxRuns,
           NEW p \in BridgeResults
    PROVE  WorkerReply(posted[w], p) \in Responses
<1>1. p.location \in Locations /\ NoLocation \in Locations
  BY PlaygroundAssumption DEF Payloads, Locations
<1> QED
  BY <1>1 DEF WorkerReply, Responses, ParsesBridgePayload

-----------------------------------------------------------------------------
(* Each action preserves the invariant. *)

LEMMA RunInv ==
    ASSUME PageInv, Run
    PROVE  PageInv'
<1> DEFINE id == nextWorkerId
<1> USE DEF WorkerIds
<1>1. /\ id \in WorkerIds /\ id + 1 \in 1..MaxRuns
      /\ nextWorkerId' = id + 1 /\ MaxRuns \in Nat /\ id \in Nat
      /\ active' = [requestId |-> id + 1, worker |-> id, source |-> text]
      /\ text \in Sources /\ text' = text
  BY PlaygroundAssumption DEF Run, PageInv, TypeOK
<1>2. active' \in Runs /\ active' # NoRun
  BY <1>1, PlaygroundAssumption DEF Runs
<1>3. /\ timers' = {id + 1}
      /\ page' = [status |-> "Running", run |-> 0] /\ marker' = NoMarker
      /\ posted' = [posted EXCEPT ![id] = [requestId |-> id + 1, source |-> text]]
      /\ worker' = [RemainingWorkers EXCEPT ![id] = "loading"]
      /\ events' \subseteq events
  BY StopReleases DEF Run, Render, Shows
<1>4. /\ posted' \in [WorkerIds -> [requestId : 0..MaxRuns, source : Sources]]
      /\ posted'[id] = [requestId |-> id + 1, source |-> text]
      /\ \A w \in WorkerIds : w # id => posted'[w] = posted[w]
  BY <1>1, <1>3 DEF PageInv, TypeOK
<1>5. /\ worker' \in [WorkerIds -> {"none", "loading", "evaluating", "idle",
                                    "broken", "terminated"}]
      /\ worker'[id] = "loading"
      /\ \A w \in WorkerIds : w # id =>
            /\ worker'[w] \in {"none", "terminated"}
            /\ worker'[w] = "none" <=> worker[w] = "none"
  BY <1>1, <1>3, StopReleases
<1>6. TypeOK'
  <2>1. text' \in Sources /\ active' \in Runs \union {NoRun} /\ nextWorkerId' \in 0..MaxRuns
    BY <1>1, <1>2
  <2>2. /\ page' \in [status : Statuses, run : 0..MaxRuns]
        /\ marker' \in [run : 1..MaxRuns, from : Nat, to : Nat] \union {NoMarker}
        /\ timers' \subseteq 1..MaxRuns
    BY <1>1, <1>3 DEF Statuses
  <2>3. events' \subseteq [worker : WorkerIds, type : {"message"}, response : Responses]
                          \union [worker : WorkerIds, type : {"error"}]
    BY <1>3 DEF PageInv, TypeOK
  <2> QED
    BY <2>1, <2>2, <2>3, <1>4, <1>5 DEF TypeOK
<1>7. RunOwnsResources'
  BY <1>1, <1>2, <1>3, <1>5 DEF RunOwnsResources, Alive
<1>8. ActiveIsLatest'
  <2>1. /\ active'.requestId = nextWorkerId' /\ active'.worker = nextWorkerId' - 1
        /\ active'.source = posted'[active'.worker].source
    BY <1>1, <1>4
  <2>2. ASSUME NEW w \in WorkerIds
        PROVE  /\ worker'[w] = "none" <=> w >= nextWorkerId'
               /\ w < nextWorkerId' => posted'[w].requestId = w + 1
    <3>1. CASE w = id
      BY <3>1, <1>1, <1>4, <1>5
    <3>2. CASE w # id
      <4>1. /\ worker[w] = "none" <=> w >= id
            /\ w < id => posted[w].requestId = w + 1
        BY DEF PageInv, ActiveIsLatest
      <4>2. worker'[w] = "none" <=> worker[w] = "none"
        BY <3>2, <1>5
      <4>3. posted'[w] = posted[w]
        BY <3>2, <1>4
      <4>4. /\ w >= id <=> w >= nextWorkerId'
            /\ w < id <=> w < nextWorkerId'
        BY <3>2, <1>1
      <4> QED
        BY <4>1, <4>2, <4>3, <4>4
    <3> QED
      BY <3>1, <3>2
  <2> QED
    BY <2>1, <2>2 DEF ActiveIsLatest
<1>9. MarkerOnFailedText'
  BY <1>3 DEF MarkerOnFailedText
<1> QED
  BY <1>6, <1>7, <1>8, <1>9 DEF PageInv

LEMMA ControlsInv ==
    ASSUME PageInv, RefuseSource \/ StopActive \/ Clear
    PROVE  PageInv'
<1>1. /\ timers' = RemainingTimers /\ active' = NoRun
      /\ worker' = RemainingWorkers /\ events' \in RemainingEvents
      /\ UNCHANGED <<text, nextWorkerId, posted>>
  BY DEF RefuseSource, StopActive, Clear
<1>2. marker' = NoMarker
  BY DEF RefuseSource, StopActive, Clear, Render, RenderFailed
<1>3. \E st \in Statuses \ {"Running"} : page' = [status |-> st, run |-> 0]
  BY DEF RefuseSource, StopActive, Clear, Render, RenderFailed, Shows, Statuses
<1> QED
  BY <1>1, <1>2, <1>3, StoppedInv

(* An edit clears the mark, and the run goes on. *)
LEMMA WriteSourceInv ==
    ASSUME PageInv, NEW source \in Sources, WriteSource(source)
    PROVE  PageInv'
BY DEF PageInv, TypeOK, RunOwnsResources, ActiveIsLatest, MarkerOnFailedText,
   WriteSource, Alive

LEMMA TimerInv ==
    ASSUME PageInv, NEW requestId \in 1..MaxRuns, TimerFires(requestId)
    PROVE  PageInv'
<1>1. /\ active # NoRun /\ active.requestId = requestId
      /\ timers' = timers \ {active.requestId}
  BY DEF PageInv, RunOwnsResources, TimerFires
<1>2. /\ worker' = Terminated(active.worker)
      /\ events' \in EventsAfter(active.worker)
      /\ active' = NoRun /\ marker' = NoMarker
      /\ page' = [status |-> "Execution terminated", run |-> 0]
      /\ UNCHANGED <<text, nextWorkerId, posted>>
  BY <1>1 DEF TimerFires, Render, Shows
<1> QED
  BY <1>1, <1>2, StoppedInv DEF RemainingTimers, RemainingWorkers, RemainingEvents, Statuses

(* What every end of a run by an event of its worker has in common. *)
LEMMA EndRunInv ==
    ASSUME PageInv, active # NoRun, NEW e, EndRun(e),
           marker' \in [run : 1..MaxRuns, from : Nat, to : Nat] \union {NoMarker},
           page' \in [status : Statuses, run : 0..MaxRuns], page'.status # "Running",
           MarkerOnFailedText'
    PROVE  PageInv'
<1>1. events' \subseteq events
  BY EndReleases DEF EndRun
<1>2. text' \in Sources
  BY DEF EndRun, PageInv, TypeOK
<1> QED
  BY <1>1, <1>2, EndReleases, EndedInv DEF EndRun

LEMMA DropEventInv ==
    ASSUME PageInv, NEW e, DropEvent(e)
    PROVE  PageInv'
BY DEF PageInv, TypeOK, RunOwnsResources, ActiveIsLatest, MarkerOnFailedText,
   DropEvent, Alive, view

LEMMA MessageEventInv ==
    ASSUME PageInv, NEW e \in events, MessageEvent(e)
    PROVE  PageInv'
<1>1. CASE ~IsCurrentResponse(active, e.response, e.worker)
  BY <1>1, DropEventInv DEF MessageEvent
<1>2. CASE IsCurrentResponse(active, e.response, e.worker)
  <2>1. /\ active # NoRun /\ active \in Runs
        /\ e.response.requestId = active.requestId
        /\ active.requestId \in 1..MaxRuns
        /\ active.worker = active.requestId - 1
        /\ active.source = posted[active.worker].source
    BY <1>2 DEF IsCurrentResponse, PageInv, TypeOK, ActiveIsLatest, Runs
  <2>2. EndRun(e) /\ text' = text /\ posted' = posted
    BY <1>2 DEF MessageEvent, EndRun
  <2>3. CASE e.response.kind = "completed"
    <3>1. /\ page' = [status |-> "Complete", run |-> active.requestId]
          /\ marker' = NoMarker
      BY <1>2, <2>1, <2>3 DEF MessageEvent, Render, Shows
    <3>2. page' \in [status : Statuses, run : 0..MaxRuns] /\ page'.status # "Running"
      BY <2>1, <3>1 DEF Statuses
    <3> QED
      BY <2>1, <2>2, <3>1, <3>2, EndRunInv DEF MarkerOnFailedText
  <2>4. CASE e.response.kind # "completed"
    <3>1. e.response.location \in Locations
      BY DEF PageInv, TypeOK, MessageEvent, Responses
    <3>2. RenderFailed(active.requestId, Selections(active.source, e.response.location))
      BY <1>2, <2>1, <2>4 DEF MessageEvent
    <3>3. /\ page' = [status |-> "Failed", run |-> active.requestId]
          /\ marker' \in [run : 1..MaxRuns, from : Nat, to : Nat] \union {NoMarker}
          /\ marker' # NoMarker =>
                /\ marker'.run = active.requestId /\ active.source = text
                /\ marker'.from <= marker'.to /\ marker'.to <= Length[text]
      BY <2>1, <2>2, <3>1, <3>2, FailureMarks DEF PageInv
    <3>4. page' \in [status : Statuses, run : 0..MaxRuns] /\ page'.status # "Running"
      BY <2>1, <3>3 DEF Statuses
    <3>5. MarkerOnFailedText'
      BY <2>1, <2>2, <3>3 DEF MarkerOnFailedText
    <3> QED
      BY <2>1, <2>2, <3>3, <3>4, <3>5, EndRunInv
  <2> QED
    BY <2>3, <2>4
<1> QED
  BY <1>1, <1>2

LEMMA ErrorEventInv ==
    ASSUME PageInv, NEW e \in events, ErrorEvent(e)
    PROVE  PageInv'
<1>1. CASE ~IsCurrentWorker(active, e.worker)
  BY <1>1, DropEventInv DEF ErrorEvent
<1>2. CASE IsCurrentWorker(active, e.worker)
  <2>1. /\ active # NoRun /\ active.requestId \in 1..MaxRuns
    BY <1>2 DEF IsCurrentWorker, PageInv, TypeOK, Runs
  <2>2. /\ EndRun(e)
        /\ page' = [status |-> "Failed", run |-> active.requestId]
        /\ marker' = NoMarker
    BY <1>2 DEF ErrorEvent, RenderFailed, Shows
  <2>3. page' \in [status : Statuses, run : 0..MaxRuns] /\ page'.status # "Running"
    BY <2>1, <2>2 DEF Statuses
  <2> QED
    BY <2>1, <2>2, <2>3, EndRunInv DEF MarkerOnFailedText
<1> QED
  BY <1>1, <1>2

(* Workers leave the page alone; a worker that is alive stays the active    *)
(* run's.                                                                   *)
LEMMA WorkersInv ==
    ASSUME PageInv, NEW w \in WorkerIds,
           \/ ReceiveRequest(w)
           \/ \E p \in BridgeResults : Reply(w, p)
           \/ WorkerFails(w)
    PROVE  PageInv'
<1>1. /\ UNCHANGED <<view, active, nextWorkerId, timers, posted>>
      /\ worker[w] \in {"loading", "evaluating"}
      /\ \E to \in {"evaluating", "idle", "broken"} : worker' = [worker EXCEPT ![w] = to]
  BY DEF ReceiveRequest, Reply, WorkerFails
<1>2. posted[w].requestId = w + 1 /\ w + 1 \in 1..MaxRuns
  BY <1>1, PlaygroundAssumption DEF PageInv, TypeOK, ActiveIsLatest, WorkerIds
<1>3. events' \subseteq [worker : WorkerIds, type : {"message"}, response : Responses]
                        \union [worker : WorkerIds, type : {"error"}]
  <2>1. CASE ReceiveRequest(w)
    BY <2>1 DEF PageInv, TypeOK, ReceiveRequest
  <2>2. CASE WorkerFails(w)
    BY <2>2 DEF PageInv, TypeOK, WorkerFails
  <2>3. ASSUME NEW p \in BridgeResults, Reply(w, p)
        PROVE  events' \subseteq
                  [worker : WorkerIds, type : {"message"}, response : Responses]
                     \union [worker : WorkerIds, type : {"error"}]
    <3>1. WorkerReply(posted[w], p) \in Responses
      BY <1>2, ReplyTyped DEF PageInv
    <3> QED
      BY <2>3, <3>1 DEF PageInv, TypeOK, Reply
  <2> QED
    BY <2>1, <2>2, <2>3
<1>4. TypeOK'
  BY <1>1, <1>3 DEF PageInv, TypeOK, view
<1>5. \A v \in WorkerIds : worker[v] = "none" <=> worker'[v] = "none"
  BY <1>1 DEF PageInv, TypeOK
<1>6. \A v \in WorkerIds : Alive(v)' => Alive(v)
  BY <1>1 DEF PageInv, TypeOK, Alive
<1>7. RunOwnsResources'
  BY <1>1, <1>6 DEF PageInv, RunOwnsResources, view
<1>8. ActiveIsLatest' /\ MarkerOnFailedText'
  BY <1>1, <1>5 DEF PageInv, ActiveIsLatest, MarkerOnFailedText, view
<1> QED
  BY <1>4, <1>7, <1>8 DEF PageInv

-----------------------------------------------------------------------------
(* The inductive invariant holds of every run, text and reply, events of    *)
(* workers that are long over included.                                     *)
THEOREM PageInvariant == Spec => []PageInv
<1>1. Init => PageInv
  BY PlaygroundAssumption DEF Init, PageInv, TypeOK, RunOwnsResources,
     ActiveIsLatest, MarkerOnFailedText, Alive, WorkerIds, Statuses
<1>2. PageInv /\ [Next]_vars => PageInv'
  <2> SUFFICES ASSUME PageInv, [Next]_vars
               PROVE  PageInv'
    OBVIOUS
  <2>1. CASE UNCHANGED vars
    BY <2>1 DEF PageInv, TypeOK, RunOwnsResources, ActiveIsLatest,
       MarkerOnFailedText, Alive, vars, view
  <2>2. CASE Next
    BY <2>2, RunInv, ControlsInv, WriteSourceInv, TimerInv, MessageEventInv,
       ErrorEventInv, WorkersInv DEF Next
  <2> QED
    BY <2>1, <2>2
<1> QED
  BY <1>1, <1>2, PTL DEF Spec

(* The timeout, the worker and the status of a run end with it. *)
THEOREM RunsOwnResources == Spec => []RunOwnsResources
BY PageInvariant, PTL DEF PageInv

(* A diagnostic is only ever shown in the text that was run. *)
THEOREM MarksAreInPlace == Spec => []MarkerOnFailedText
BY PageInvariant, PTL DEF PageInv

(* What a user sees is one outcome for each run, of the latest run, for any *)
(* number of runs: late events are stutters of the promise.                 *)
THEOREM PageIsImplemented == Spec => ImplementsPage
<1>1. Init => Promised!Init
  BY DEF Init, Promised!Init
<1>2. PageInv /\ [Next]_vars => [Promised!Next]_Promised!vars
  <2> SUFFICES ASSUME PageInv, [Next]_vars
               PROVE  [Promised!Next]_Promised!vars
    OBVIOUS
  <2> USE DEF Promised!Next, Promised!vars
  <2>1. page = [status |-> page.status, run |-> page.run]
        /\ (active # NoRun => page.status = "Running" /\ active.requestId = nextWorkerId)
    BY DEF PageInv, TypeOK, RunOwnsResources, ActiveIsLatest
  <2>2. CASE UNCHANGED vars
    BY <2>2 DEF vars, view
  <2>3. ASSUME NEW source \in Sources, WriteSource(source)
        PROVE  UNCHANGED Promised!vars
    BY <2>3 DEF WriteSource
  <2>4. CASE Run
    BY <2>4 DEF Run, Render, Shows, Promised!Start
  <2>5. CASE RefuseSource
    BY <2>5 DEF RefuseSource, RenderFailed, Shows, Promised!Refuse
  <2>6. CASE StopActive
    BY <2>1, <2>6 DEF StopActive, Render, Shows, Promised!Report, Promised!Outcomes
  <2>7. CASE Clear
    BY <2>7 DEF Clear, Render, Shows, Promised!Clear
  <2>8. ASSUME NEW requestId \in 1..MaxRuns, TimerFires(requestId)
        PROVE  [Promised!Next]_Promised!vars
    <3>1. active # NoRun /\ active.requestId = requestId
      BY <2>8 DEF PageInv, RunOwnsResources, TimerFires
    <3>2. /\ page' = [status |-> "Execution terminated", run |-> 0]
          /\ nextWorkerId' = nextWorkerId
      BY <2>8, <3>1 DEF TimerFires, Render, Shows
    <3> QED
      BY <2>1, <3>1, <3>2 DEF Promised!Report, Promised!Outcomes
  <2>9. ASSUME NEW e \in events, MessageEvent(e)
        PROVE  [Promised!Next]_Promised!vars
    <3>1. CASE IsCurrentResponse(active, e.response, e.worker)
      <4>1. /\ active # NoRun /\ e.response.requestId = nextWorkerId
            /\ nextWorkerId' = nextWorkerId
        BY <2>1, <2>9, <3>1 DEF IsCurrentResponse, MessageEvent, EndRun
      <4>2. \/ page' = [status |-> "Complete", run |-> nextWorkerId]
            \/ page' = [status |-> "Failed", run |-> nextWorkerId]
        BY <2>9, <3>1, <4>1 DEF MessageEvent, Render, RenderFailed, Shows
      <4>3. CASE page' = [status |-> "Complete", run |-> nextWorkerId]
        BY <2>1, <4>1, <4>3 DEF Promised!Report, Promised!Outcomes
      <4>4. CASE page' = [status |-> "Failed", run |-> nextWorkerId]
        BY <2>1, <4>1, <4>4 DEF Promised!Report, Promised!Outcomes
      <4> QED
        BY <4>2, <4>3, <4>4
    <3>2. CASE ~IsCurrentResponse(active, e.response, e.worker)
      BY <2>9, <3>2 DEF MessageEvent, DropEvent, view
    <3> QED
      BY <3>1, <3>2
  <2>10. ASSUME NEW e \in events, ErrorEvent(e)
         PROVE  [Promised!Next]_Promised!vars
    <3>1. CASE IsCurrentWorker(active, e.worker)
      <4>1. /\ active # NoRun /\ nextWorkerId' = nextWorkerId
            /\ page' = [status |-> "Failed", run |-> nextWorkerId]
        BY <2>1, <2>10, <3>1 DEF ErrorEvent, EndRun, RenderFailed, Shows, IsCurrentWorker
      <4> QED
        BY <2>1, <4>1 DEF Promised!Report, Promised!Outcomes
    <3>2. CASE ~IsCurrentWorker(active, e.worker)
      BY <2>10, <3>2 DEF ErrorEvent, DropEvent, view
    <3> QED
      BY <3>1, <3>2
  <2>11. ASSUME NEW w \in WorkerIds,
                \/ ReceiveRequest(w)
                \/ \E p \in BridgeResults : Reply(w, p)
                \/ WorkerFails(w)
         PROVE  UNCHANGED Promised!vars
    BY <2>11 DEF ReceiveRequest, Reply, WorkerFails, view
  <2> QED
    BY <2>2, <2>3, <2>4, <2>5, <2>6, <2>7, <2>8, <2>9, <2>10, <2>11 DEF Next
<1> QED
  BY <1>1, <1>2, PageInvariant, PTL DEF Spec, ImplementsPage, Promised!Spec

-----------------------------------------------------------------------------
IsActive(id) == active # NoRun /\ active.requestId = id

(* The fairness of FairSpec, with "the timeout is set" in place of ENABLED. *)
TimeoutFires(id) == <>[](id \in timers) => []<><<TimerFires(id)>>_vars

TimeoutsFire == \A id \in 1..MaxRuns : TimeoutFires(id)

(* While a run goes on its timeout is set, so it cannot outlive it. *)
LEMMA RunEnds ==
    ASSUME NEW id \in 1..MaxRuns
    PROVE  Spec /\ TimeoutFires(id) =>
             ((active # NoRun /\ active.requestId = id) ~>
                 (active = NoRun \/ active.requestId # id))
<1>1. PageInv /\ IsActive(id) => id \in timers
  BY DEF PageInv, RunOwnsResources, IsActive
<1>2. PageInv /\ IsActive(id) /\ <<TimerFires(id)>>_vars => ~IsActive(id)'
  BY DEF IsActive, TimerFires
<1>3. /\ (active # NoRun /\ active.requestId = id) <=> IsActive(id)
      /\ (active = NoRun \/ active.requestId # id) <=> ~IsActive(id)
  BY DEF IsActive
<1> QED
  BY <1>1, <1>2, <1>3, PageInvariant, PTL DEF TimeoutFires

(* Every run is over some time if timeouts that are set fire, for any       *)
(* number of runs, with nothing assumed of workers or of the delivery of    *)
(* their events.                                                            *)
THEOREM RunsEnd == Spec /\ TimeoutsFire => EveryRunEnds
BY RunEnds DEF TimeoutsFire, EveryRunEnds
=============================================================================
