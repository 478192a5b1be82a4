--------------------------- MODULE MicrotaskQueue ---------------------------
(***************************************************************************)
(* The microtask queue and the policy of one checkpoint over it            *)
(* (interpreter/runtime/microtask_policy.mbt), driven by                   *)
(* Interpreter::run_microtasks_observed (promise_core.mbt).  The queue     *)
(* outlives every checkpoint; a policy object (next_index, phase) lives    *)
(* for one.  A job is consumed by moving next_index past it, before its    *)
(* callback runs; the array itself is shortened only when the checkpoint   *)
(* ends: cut at next_index when it fails, cleared when it drains.          *)
(*                                                                         *)
(* A job is represented by its number in enqueue order; its callback is    *)
(* whatever the environment does while phase = "Selected".                 *)
(***************************************************************************)
EXTENDS Naturals, Sequences

CONSTANT MaxJobs  \* bound on the number of jobs ever enqueued

ASSUME MaxJobsAssumption == MaxJobs \in Nat

VARIABLES
    microtask_queue,  \* HostEnv.microtask_queue
    next_index,       \* MicrotaskQueuePolicy.next_index
    phase,            \* MicrotaskQueuePolicy.phase
    enqueued,         \* history: jobs ever enqueued
    started           \* history: jobs whose callback was entered, in order

mvars == <<microtask_queue, next_index, phase, enqueued, started>>

Phases == {"Ready", "Selected", "Failed", "Completed"}

(* A policy object exists from the start of a checkpoint until it fails or *)
(* completes.                                                              *)
Active == phase \in {"Ready", "Selected"}

Consumed == IF Active THEN next_index ELSE 0

(* The jobs that have not been started. *)
Pending == SubSeq(microtask_queue, Consumed + 1, Len(microtask_queue))

-----------------------------------------------------------------------------
MInit ==
    /\ microtask_queue = << >>
    /\ next_index = 0
    /\ phase = "Completed"
    /\ enqueued = 0
    /\ started = << >>

(* microtask_policy_enqueue: any running script or callback may append.    *)
(* Between two callbacks of a drain (phase = "Ready") nothing else runs.   *)
Enqueue ==
    /\ phase # "Ready"
    /\ enqueued < MaxJobs
    /\ microtask_queue' = Append(microtask_queue, enqueued + 1)
    /\ enqueued' = enqueued + 1
    /\ UNCHANGED <<next_index, phase, started>>

(* Mutation of BeginDrain: the policy object of the last checkpoint is used *)
(* again, with its cursor.                                                  *)
BeginDrainKeepsCursor ==
    /\ ~Active
    /\ phase' = "Ready"
    /\ UNCHANGED <<microtask_queue, next_index, enqueued, started>>

(* A fresh policy over the surviving queue. *)
BeginDrain ==
    /\ ~Active
    /\ next_index' = 0
    /\ phase' = "Ready"
    /\ UNCHANGED <<microtask_queue, enqueued, started>>

HasNext == next_index < Len(microtask_queue)

(* The step observation was accepted: the job is consumed, then called. *)
SelectNext ==
    /\ phase = "Ready"
    /\ HasNext
    /\ started' = Append(started, microtask_queue[next_index + 1])
    /\ next_index' = next_index + 1
    /\ phase' = "Selected"
    /\ UNCHANGED <<microtask_queue, enqueued>>

(* The callback returned, or was not callable and was skipped. *)
CompleteSelected ==
    /\ phase = "Selected"
    /\ phase' = "Ready"
    /\ UNCHANGED <<microtask_queue, next_index, enqueued, started>>

(* Shift the unselected suffix to the front and truncate. *)
RetainUnselected ==
    microtask_queue' = SubSeq(microtask_queue, next_index + 1, Len(microtask_queue))

(* The step observation of the next job was rejected (budget exhausted or  *)
(* interrupted): the job is not consumed.                                  *)
RejectDispatchObservation ==
    /\ phase = "Ready"
    /\ HasNext
    /\ RetainUnselected
    /\ phase' = "Failed"
    /\ UNCHANGED <<next_index, enqueued, started>>

(* Mutations of FailSelected: the failing job is kept for a retry; the jobs *)
(* behind it are dropped.                                                   *)
FailSelectedForRetry ==
    /\ phase = "Selected"
    /\ microtask_queue' = SubSeq(microtask_queue, next_index, Len(microtask_queue))
    /\ phase' = "Failed"
    /\ UNCHANGED <<next_index, enqueued, started>>

FailSelectedDropsQueue ==
    /\ phase = "Selected"
    /\ microtask_queue' = << >>
    /\ phase' = "Failed"
    /\ UNCHANGED <<next_index, enqueued, started>>

(* The callback threw: the job stays consumed. *)
FailSelected ==
    /\ phase = "Selected"
    /\ RetainUnselected
    /\ phase' = "Failed"
    /\ UNCHANGED <<next_index, enqueued, started>>

(* Mutation of CompleteDrain: the drained array is not cleared. *)
CompleteDrainWithoutClear ==
    /\ phase = "Ready"
    /\ ~HasNext
    /\ phase' = "Completed"
    /\ UNCHANGED <<microtask_queue, next_index, enqueued, started>>

CompleteDrain ==
    /\ phase = "Ready"
    /\ ~HasNext
    /\ microtask_queue' = << >>
    /\ phase' = "Completed"
    /\ UNCHANGED <<next_index, enqueued, started>>

MNext ==
    \/ Enqueue
    \/ BeginDrain
    \/ SelectNext
    \/ CompleteSelected
    \/ FailSelected
    \/ RejectDispatchObservation
    \/ CompleteDrain

MSpec == MInit /\ [][MNext]_mvars

(* A host that runs a checkpoint again after one that completed, a drain    *)
(* loop that goes on while it can, and callbacks that return or throw.      *)
(* Nothing is asked of the host after a checkpoint that failed: its engine  *)
(* is to be discarded (docs/EMBEDDING.md).  Nor is anything asked of the    *)
(* execution policy: it may reject any step.                                *)
FairMSpec ==
    /\ MSpec
    /\ WF_mvars(phase = "Completed" /\ BeginDrain)
    /\ WF_mvars(SelectNext \/ RejectDispatchObservation \/ CompleteDrain)
    /\ WF_mvars(CompleteSelected \/ FailSelected)

-----------------------------------------------------------------------------
MTypeOK ==
    /\ microtask_queue \in Seq(Nat)
    /\ next_index \in Nat
    /\ phase \in Phases
    /\ enqueued \in 0..MaxJobs
    /\ started \in Seq(Nat)
    /\ Active => next_index <= Len(microtask_queue)

(* Every job is started at most once and in enqueue order: the history of  *)
(* started jobs is exactly 1, 2, 3, ..., whatever mixture of failing and   *)
(* completing checkpoints consumed them (microtask_policy.mbt, header:     *)
(* "at-most-once microtask dispatch ... by FIFO position").                *)
StartedOnceInOrder == \A i \in 1..Len(started) : started[i] = i

(* No job is lost: the jobs not started are, in order, exactly the tail of *)
(* the enqueue history.  A failing checkpoint retains the unstarted jobs,  *)
(* those appended by the failing callback included.                        *)
UnstartedRetained ==
    /\ Len(started) + Len(Pending) = enqueued
    /\ \A i \in 1..Len(Pending) : Pending[i] = Len(started) + i

(* The inductive form of the two: where each job sits in the array. *)
Positions ==
    /\ Len(started) + Len(microtask_queue) = enqueued + Consumed
    /\ \A i \in 1..Len(microtask_queue) :
           microtask_queue[i] + Consumed = Len(started) + i

JobInv == MTypeOK /\ StartedOnceInOrder /\ Positions

(* The queue with its cursor implements the promised job queue. *)
Fifo == INSTANCE JobQueue
             WITH pending   <- Pending,
                  submitted <- enqueued,
                  taken     <- Len(started)

(* The array, the cursor and the three ways a checkpoint ends implement    *)
(* the promised queue: selecting is the only step that takes a job, and    *)
(* retaining, clearing and restarting never change what is pending.        *)
ImplementsJobQueue == Fifo!Spec

(* A job that was enqueued is started, or a checkpoint fails before: while  *)
(* checkpoints complete, no job is left behind a cursor, in an array that   *)
(* is cleared, or by a drain that ends too early, whether it was appended   *)
(* between two checkpoints or by a callback of the drain.  A job waits for  *)
(* ever only in an engine whose checkpoint failed, which its host discards. *)
EveryJobStarts ==
    \A j \in 1..MaxJobs :
        enqueued >= j ~> (Len(started) >= j \/ phase = "Failed")
=============================================================================
