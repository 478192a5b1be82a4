-------------------------- MODULE EventLoopProofs ---------------------------
(***************************************************************************)
(* The microtask queue, for every MaxJobs: a job is started at most once   *)
(* and in order, none is lost, and the queue with its cursor implements    *)
(* the promised JobQueue.  The event loop, for every bound, safety limit   *)
(* and Int32 width: it uses the queue only as MicrotaskQueue allows, so    *)
(* the queue's theorems hold of it; and the timer half keeps TimerInv,     *)
(* from which cancellation is exact and every timer callback starts on a   *)
(* drained queue.                                                          *)
(***************************************************************************)
EXTENDS EventLoop, SequenceTheorems, TLAPS

(* Moving one unit from one summand to another. *)
LEMMA OneMore ==
    ASSUME NEW a \in Int, NEW b \in Int, NEW c \in Int, NEW d \in Int,
           a + b = c + d
    PROVE  /\ a + (b + 1) = c + 1 + d
           /\ (a + 1) + b = c + (d + 1)
OBVIOUS

(* A summand of both sides cancels. *)
LEMMA CancelSummand ==
    ASSUME NEW a \in Int, NEW b \in Int, NEW c \in Int, NEW d \in Int,
           a + b = c + (b + d)
    PROVE  a = c + d
OBVIOUS

LEMMA ShiftRange ==
    ASSUME NEW n \in Nat, NEW c \in Nat, c <= n, NEW i \in 1..(n - c)
    PROVE  i \in Nat /\ c + i \in 1..n
OBVIOUS

LEMMA DifferenceSum ==
    ASSUME NEW a \in Int, NEW b \in Int, NEW c \in Int, NEW d \in Int,
           a + b = c + d
    PROVE  a + (b - d) = c
OBVIOUS

(* What retain_unselected leaves, position by position. *)
LEMMA SuffixFacts ==
    ASSUME NEW q \in Seq(Nat), NEW n \in Nat, n <= Len(q)
    PROVE  /\ SubSeq(q, n + 1, Len(q)) \in Seq(Nat)
           /\ Len(SubSeq(q, n + 1, Len(q))) = Len(q) - n
           /\ \A i \in 1..(Len(q) - n) : SubSeq(q, n + 1, Len(q))[i] = q[n + i]
<1>1. Len(q) \in Nat
  BY LenProperties
<1>2. \A i \in (n + 1)..Len(q) : q[i] \in Nat
  BY <1>1, ElementOfSeq
<1>3. /\ SubSeq(q, n + 1, Len(q)) \in Seq(Nat)
      /\ Len(SubSeq(q, n + 1, Len(q))) =
           IF n + 1 <= Len(q) THEN Len(q) - (n + 1) + 1 ELSE 0
      /\ \A i \in 1..(Len(q) - (n + 1) + 1) :
            SubSeq(q, n + 1, Len(q))[i] = q[(n + 1) + i - 1]
  <2> DEFINE m == n + 1
  <2>1. m \in Int /\ Len(q) \in Int
    BY <1>1
  <2>2. \A i \in m..Len(q) : q[i] \in Nat
    BY <1>2
  <2> HIDE DEF m
  <2>3. /\ SubSeq(q, m, Len(q)) \in Seq(Nat)
        /\ Len(SubSeq(q, m, Len(q))) = IF m <= Len(q) THEN Len(q) - m + 1 ELSE 0
        /\ \A i \in 1..(Len(q) - m + 1) : SubSeq(q, m, Len(q))[i] = q[m + i - 1]
    BY <2>1, <2>2, SubSeqProperties
  <2> QED
    BY <2>3 DEF m
<1>4. \A i \in 1..(Len(q) - n) : (n + 1) + i - 1 = n + i
  BY <1>1
<1> QED
  BY <1>1, <1>3, <1>4

LEMMA InitJobInv == MInit => JobInv
BY MaxJobsAssumption
   DEF MInit, JobInv, MTypeOK, Phases, Active, StartedOnceInOrder, Positions,
       Consumed

(* The strengthening is inductive. *)
LEMMA NextJobInv == JobInv /\ [MNext]_mvars => JobInv'
<1> SUFFICES ASSUME JobInv, [MNext]_mvars
             PROVE  JobInv'
  OBVIOUS
<1> USE MaxJobsAssumption
<1>0. /\ microtask_queue \in Seq(Nat) /\ Len(microtask_queue) \in Nat
      /\ started \in Seq(Nat) /\ Len(started) \in Nat
      /\ next_index \in Nat /\ enqueued \in Nat
  BY LenProperties DEF JobInv, MTypeOK
<1>1. CASE Enqueue
  <2>1. /\ microtask_queue' \in Seq(Nat)
        /\ Len(microtask_queue') = Len(microtask_queue) + 1
        /\ \A i \in 1..Len(microtask_queue) : microtask_queue'[i] = microtask_queue[i]
        /\ microtask_queue'[Len(microtask_queue) + 1] = enqueued + 1
    BY <1>0, <1>1, AppendProperties DEF Enqueue
  <2>2. MTypeOK' /\ StartedOnceInOrder'
    BY <1>0, <1>1, <2>1
       DEF Enqueue, JobInv, MTypeOK, Phases, Active, StartedOnceInOrder
  <2>3. Consumed' = Consumed
    BY <1>1 DEF Enqueue, Consumed, Active
  <2>4. Consumed \in Nat
    BY <1>0 DEF Consumed
  <2>5. /\ Len(started) + Len(microtask_queue) = enqueued + Consumed
        /\ \A i \in 1..Len(microtask_queue) :
              microtask_queue[i] + Consumed = Len(started) + i
    BY DEF JobInv, Positions
  <2>6. Len(started') + Len(microtask_queue') = enqueued' + Consumed'
    BY <1>0, <1>1, <2>1, <2>3, <2>4, <2>5 DEF Enqueue
  <2>7. ASSUME NEW i \in 1..Len(microtask_queue')
        PROVE  microtask_queue'[i] + Consumed' = Len(started') + i
    <3>1. CASE i \in 1..Len(microtask_queue)
      BY <1>1, <2>1, <2>3, <2>5, <3>1 DEF Enqueue
    <3>2. CASE i = Len(microtask_queue) + 1
      <4>1. microtask_queue'[i] = enqueued + 1 /\ started' = started
        BY <1>1, <2>1, <3>2 DEF Enqueue
      <4>2. (enqueued + 1) + Consumed = Len(started) + (Len(microtask_queue) + 1)
        BY <1>0, <2>4, <2>5
      <4> QED
        BY <2>3, <3>2, <4>1, <4>2
    <3> QED
      BY <1>0, <2>1, <2>7, <3>1, <3>2
  <2>8. Positions'
    BY <2>6, <2>7 DEF Positions
  <2> QED
    BY <2>2, <2>8 DEF JobInv
<1>2. CASE BeginDrain
  BY <1>0, <1>2
     DEF BeginDrain, JobInv, MTypeOK, Phases, Active, StartedOnceInOrder,
         Positions, Consumed
<1>3. CASE SelectNext
  <2> DEFINE job == microtask_queue[next_index + 1]
  <2>1. next_index + 1 \in 1..Len(microtask_queue)
    BY <1>0, <1>3 DEF SelectNext, HasNext
  <2>2. job \in Nat
    BY <1>0, <2>1, ElementOfSeq
  <2>3. job = Len(started) + 1
    <3>1. job + next_index = Len(started) + (next_index + 1)
      BY <1>3, <2>1 DEF SelectNext, JobInv, Positions, Consumed, Active
    <3>2. job \in Int /\ next_index \in Int /\ Len(started) \in Int /\ 1 \in Int
      BY <1>0, <2>2
    <3> HIDE DEF job
    <3> QED
      BY <3>1, <3>2, CancelSummand
  <2>4. /\ started' \in Seq(Nat)
        /\ Len(started') = Len(started) + 1
        /\ \A i \in 1..Len(started) : started'[i] = started[i]
        /\ started'[Len(started) + 1] = job
    BY <1>0, <1>3, <2>2, AppendProperties DEF SelectNext
  <2>5. MTypeOK'
    BY <1>0, <1>3, <2>1, <2>4
       DEF SelectNext, JobInv, MTypeOK, Phases, Active
  <2>6. ASSUME NEW i \in 1..Len(started')
        PROVE  started'[i] = i
    <3>1. CASE i \in 1..Len(started)
      BY <2>4, <3>1 DEF JobInv, StartedOnceInOrder
    <3>2. CASE i = Len(started) + 1
      BY <2>3, <2>4, <3>2
    <3> QED
      BY <1>0, <2>4, <2>6, <3>1, <3>2
  <2>7. StartedOnceInOrder'
    BY <2>6 DEF StartedOnceInOrder
  <2>8. /\ Len(started) + Len(microtask_queue) = enqueued + next_index
        /\ \A i \in 1..Len(microtask_queue) :
              microtask_queue[i] + next_index = Len(started) + i
    BY <1>3 DEF SelectNext, JobInv, Positions, Consumed, Active
  <2>9. /\ Consumed' = next_index + 1
        /\ UNCHANGED <<microtask_queue, enqueued>>
    BY <1>3 DEF SelectNext, Consumed, Active
  <2>10. ASSUME NEW i \in 1..Len(microtask_queue)
         PROVE  microtask_queue[i] + (next_index + 1) = Len(started) + 1 + i
    <3>1. /\ microtask_queue[i] \in Int /\ next_index \in Int
          /\ Len(started) \in Int /\ i \in Int
      BY <1>0, ElementOfSeq
    <3>2. microtask_queue[i] + next_index = Len(started) + i
      BY <2>8
    <3> QED
      BY <3>1, <3>2, OneMore
  <2>11. Len(started') + Len(microtask_queue') = enqueued' + Consumed'
    <3>1. Len(started) + Len(microtask_queue) = enqueued + next_index
      BY <2>8
    <3>2. (Len(started) + 1) + Len(microtask_queue) = enqueued + (next_index + 1)
      <4>1. /\ Len(started) \in Int /\ Len(microtask_queue) \in Int
            /\ enqueued \in Int /\ next_index \in Int
        BY <1>0
      <4> QED
        BY <3>1, <4>1, OneMore
    <3> QED
      BY <2>4, <2>9, <3>2
  <2>12. \A i \in 1..Len(microtask_queue') :
            microtask_queue'[i] + Consumed' = Len(started') + i
    BY <2>4, <2>9, <2>10
  <2>13. Positions'
    BY <2>11, <2>12 DEF Positions
  <2> QED
    BY <2>5, <2>7, <2>13 DEF JobInv
<1>4. CASE CompleteSelected
  BY <1>0, <1>4
     DEF CompleteSelected, JobInv, MTypeOK, Phases, Active, StartedOnceInOrder,
         Positions, Consumed
<1>5. CASE FailSelected \/ RejectDispatchObservation
  <2>1. /\ Active /\ ~Active' /\ RetainUnselected
        /\ phase' = "Failed"
        /\ UNCHANGED <<next_index, enqueued, started>>
    BY <1>5 DEF FailSelected, RejectDispatchObservation, Active
  <2>2. next_index <= Len(microtask_queue)
    BY <2>1 DEF JobInv, MTypeOK
  <2>3. /\ microtask_queue' \in Seq(Nat)
        /\ Len(microtask_queue') = Len(microtask_queue) - next_index
        /\ \A i \in 1..(Len(microtask_queue) - next_index) :
             microtask_queue'[i] = microtask_queue[next_index + i]
    BY <1>0, <2>1, <2>2, SuffixFacts DEF RetainUnselected
  <2>4. MTypeOK' /\ StartedOnceInOrder'
    BY <1>0, <2>1, <2>3 DEF JobInv, MTypeOK, Phases, Active, StartedOnceInOrder
  <2>5. Consumed = next_index /\ Consumed' = 0
    BY <2>1 DEF Consumed
  <2>6. Len(started') + Len(microtask_queue') = enqueued' + Consumed'
    BY <1>0, <2>1, <2>3, <2>5 DEF JobInv, Positions
  <2>7. \A i \in 1..Len(microtask_queue') :
           microtask_queue'[i] + Consumed' = Len(started') + i
    <3> TAKE i \in 1..Len(microtask_queue')
    <3>1. next_index + i \in 1..Len(microtask_queue)
      BY <1>0, <2>2, <2>3, ShiftRange
    <3>2. microtask_queue[next_index + i] + next_index = Len(started) + (next_index + i)
      BY <1>0, <2>5, <3>1 DEF JobInv, Positions
    <3>3. microtask_queue[next_index + i] \in Nat
      BY <1>0, <3>1, ElementOfSeq
    <3>4. i \in Nat
      BY <1>0, <2>2, <2>3
    <3>5. microtask_queue[next_index + i] = Len(started) + i
      <4>1. /\ microtask_queue[next_index + i] \in Int /\ next_index \in Int
            /\ Len(started) \in Int /\ i \in Int
        BY <1>0, <3>3, <3>4
      <4> QED
        BY <3>2, <4>1, CancelSummand
    <3>6. microtask_queue'[i] = Len(started') + i
      BY <2>1, <2>3, <3>5
    <3> QED
      BY <1>0, <2>1, <2>5, <3>4, <3>6
  <2> QED
    BY <2>4, <2>6, <2>7 DEF JobInv, Positions
<1>6. CASE CompleteDrain
  BY <1>0, <1>6
     DEF CompleteDrain, HasNext, JobInv, MTypeOK, Phases, Active,
         StartedOnceInOrder, Positions, Consumed
<1>7. CASE UNCHANGED mvars
  BY <1>7
     DEF mvars, JobInv, MTypeOK, Active, StartedOnceInOrder, Positions, Consumed
<1> QED
  BY <1>1, <1>2, <1>3, <1>4, <1>5, <1>6, <1>7 DEF MNext

(* What is pending, read off the positions. *)
LEMMA PendingFacts ==
    ASSUME JobInv
    PROVE  /\ Pending \in Seq(Nat)
           /\ Len(Pending) = Len(microtask_queue) - Consumed
           /\ \A i \in 1..Len(Pending) : Pending[i] = microtask_queue[Consumed + i]
           /\ Consumed \in Nat /\ Consumed <= Len(microtask_queue)
<1>1. /\ microtask_queue \in Seq(Nat) /\ Len(microtask_queue) \in Nat
      /\ Consumed \in Nat /\ Consumed <= Len(microtask_queue)
  BY LenProperties DEF JobInv, MTypeOK, Consumed
<1> QED
  BY <1>1, SuffixFacts DEF Pending

LEMMA JobInvImplies == JobInv => MTypeOK /\ StartedOnceInOrder /\ UnstartedRetained
<1> SUFFICES ASSUME JobInv
             PROVE  UnstartedRetained
  BY DEF JobInv
<1>1. /\ microtask_queue \in Seq(Nat) /\ Len(microtask_queue) \in Nat
      /\ Len(started) \in Nat /\ enqueued \in Nat
  BY LenProperties, MaxJobsAssumption DEF JobInv, MTypeOK
<1>2. Len(started) + Len(Pending) = enqueued
  <2>1. Len(started) + Len(microtask_queue) = enqueued + Consumed
    BY DEF JobInv, Positions
  <2>2. /\ Len(Pending) = Len(microtask_queue) - Consumed
        /\ Consumed \in Nat
    BY PendingFacts
  <2>3. /\ Len(started) \in Int /\ Len(microtask_queue) \in Int
        /\ enqueued \in Int /\ Consumed \in Int
    BY <1>1, <2>2
  <2>4. Len(started) + (Len(microtask_queue) - Consumed) = enqueued
    BY <2>1, <2>3, DifferenceSum
  <2> QED
    BY <2>2, <2>4
<1>3. ASSUME NEW i \in 1..Len(Pending)
      PROVE  Pending[i] = Len(started) + i
  <2>1. /\ Consumed \in Nat /\ i \in Nat
        /\ Consumed + i \in 1..Len(microtask_queue)
    <3>1. /\ Len(Pending) = Len(microtask_queue) - Consumed
          /\ Consumed \in Nat /\ Consumed <= Len(microtask_queue)
      BY PendingFacts
    <3>2. i \in 1..(Len(microtask_queue) - Consumed)
      BY <1>3, <3>1
    <3> QED
      BY <1>1, <3>1, <3>2, ShiftRange
  <2>2. microtask_queue[Consumed + i] \in Nat
    BY <1>1, <2>1, ElementOfSeq
  <2>3. microtask_queue[Consumed + i] + Consumed = Len(started) + (Consumed + i)
    BY <2>1 DEF JobInv, Positions
  <2>5. microtask_queue[Consumed + i] = Len(started) + i
    <3>1. /\ microtask_queue[Consumed + i] \in Int /\ Consumed \in Int
          /\ Len(started) \in Int /\ i \in Int
      BY <1>1, <2>1, <2>2
    <3> QED
      BY <2>3, <3>1, CancelSummand
  <2> QED
    BY <1>3, <2>5, PendingFacts
<1> QED
  BY <1>2, <1>3 DEF UnstartedRetained

(* The inductive invariant holds of every behaviour. *)
THEOREM MicrotaskInvariant == MSpec => []JobInv
<1>1. MInit => JobInv
  BY InitJobInv
<1>2. JobInv /\ [MNext]_mvars => JobInv'
  BY NextJobInv
<1> QED
  BY <1>1, <1>2, PTL DEF MSpec

(* Type correctness. *)
THEOREM MicrotaskTypeCorrect == MSpec => []MTypeOK
BY MicrotaskInvariant, JobInvImplies, PTL

(* At most once, first in first out. *)
THEOREM AtMostOnceInOrder == MSpec => []StartedOnceInOrder
BY MicrotaskInvariant, JobInvImplies, PTL

(* No failing or completing checkpoint loses a job that was not started. *)
THEOREM NothingLost == MSpec => []UnstartedRetained
BY MicrotaskInvariant, JobInvImplies, PTL
-----------------------------------------------------------------------------
(* The pending sequence is determined by the two history counts, so a step *)
(* is classified by what it does to them.                                  *)
Shape ==
    /\ Pending \in Seq(Nat)
    /\ Len(Pending) \in Nat
    /\ Len(started) \in Nat
    /\ enqueued \in Nat
    /\ UnstartedRetained

LEMMA JobInvShape == JobInv => Shape
<1> SUFFICES ASSUME JobInv
             PROVE  Shape
  OBVIOUS
<1>1. Len(started) \in Nat /\ enqueued \in Nat
  BY LenProperties, MaxJobsAssumption DEF JobInv, MTypeOK
<1>2. Pending \in Seq(Nat) /\ Len(Pending) \in Nat
  BY PendingFacts, LenProperties
<1> QED
  BY <1>1, <1>2, JobInvImplies DEF Shape

LEMMA SameCountsSamePending ==
    ASSUME Shape, Shape', UNCHANGED <<enqueued, started>>
    PROVE  Pending' = Pending
<1> DEFINE p == Pending
           q == Pending'
           s == Len(started)
<1>1. /\ p \in Seq(Nat) /\ q \in Seq(Nat)
      /\ Len(p) \in Nat /\ Len(q) \in Nat /\ s \in Nat /\ enqueued \in Nat
      /\ s + Len(p) = enqueued /\ s + Len(q) = enqueued
      /\ \A i \in 1..Len(p) : p[i] = s + i
      /\ \A i \in 1..Len(q) : q[i] = s + i
  BY DEF Shape, UnstartedRetained
<1> HIDE DEF p, q, s
<1>2. Len(p) = Len(q)
  BY <1>1
<1>3. \A i \in 1..Len(p) : p[i] = q[i]
  BY <1>1, <1>2
<1>4. q = p
  BY <1>1, <1>2, <1>3, SeqEqual
<1> QED
  BY <1>4 DEF p, q

LEMMA EnqueueSubmits ==
    ASSUME Shape, Shape', enqueued' = enqueued + 1, UNCHANGED started
    PROVE  Fifo!Submit
<1> DEFINE p == Pending
           q == Pending'
           s == Len(started)
           a == Append(p, enqueued + 1)
<1>1. /\ p \in Seq(Nat) /\ q \in Seq(Nat)
      /\ Len(p) \in Nat /\ Len(q) \in Nat /\ s \in Nat /\ enqueued \in Nat
      /\ s + Len(p) = enqueued /\ s + Len(q) = enqueued + 1
      /\ \A i \in 1..Len(p) : p[i] = s + i
      /\ \A i \in 1..Len(q) : q[i] = s + i
  BY DEF Shape, UnstartedRetained
<1>2. enqueued + 1 \in Nat
  BY <1>1
<1> HIDE DEF p, q, s
<1>3. /\ a \in Seq(Nat) /\ Len(a) = Len(p) + 1
      /\ \A i \in 1..Len(p) : a[i] = p[i]
      /\ a[Len(p) + 1] = enqueued + 1
  BY <1>1, <1>2, AppendProperties
<1> HIDE DEF a
<1>4. Len(a) = Len(q)
  BY <1>1, <1>3
<1>5. ASSUME NEW i \in 1..Len(a)
      PROVE  a[i] = q[i]
  <2>1. CASE i \in 1..Len(p)
    BY <1>1, <1>3, <1>4, <1>5, <2>1
  <2>2. CASE i = Len(p) + 1
    <3>1. q[i] = s + i
      BY <1>1, <1>4, <1>5
    <3>2. s + i = enqueued + 1
      <4> DEFINE n == Len(p)
      <4>1. s \in Nat /\ n \in Nat /\ s + n = enqueued /\ i = n + 1
        BY <1>1, <2>2
      <4> HIDE DEF n
      <4> QED
        BY <4>1
    <3> QED
      BY <1>3, <2>2, <3>1, <3>2
  <2> QED
    BY <1>1, <1>3, <1>5, <2>1, <2>2
<1>6. q = a
  BY <1>1, <1>3, <1>4, <1>5, SeqEqual
<1> QED
  BY <1>6 DEF p, q, a, Fifo!Submit

LEMMA SelectTakes ==
    ASSUME Shape, Shape', Len(started') = Len(started) + 1, UNCHANGED enqueued
    PROVE  Fifo!Take
<1> DEFINE p == Pending
           q == Pending'
           s == Len(started)
<1>1. /\ p \in Seq(Nat) /\ q \in Seq(Nat)
      /\ Len(p) \in Nat /\ Len(q) \in Nat /\ s \in Nat /\ enqueued \in Nat
      /\ s + Len(p) = enqueued /\ (s + 1) + Len(q) = enqueued
      /\ \A i \in 1..Len(p) : p[i] = s + i
      /\ \A i \in 1..Len(q) : q[i] = (s + 1) + i
  BY DEF Shape, UnstartedRetained
<1> HIDE DEF p, q, s
<1>2. Len(p) = Len(q) + 1
  BY <1>1
<1>3. p # << >>
  BY <1>1, <1>2, EmptySeq
<1>4. 1 \in 1..Len(p)
  BY <1>1, <1>2
<1>5. Head(p) = s + 1
  BY <1>1, <1>4
<1>6. /\ Tail(p) \in Seq(Nat)
      /\ Len(Tail(p)) = Len(p) - 1
      /\ \A i \in 1..Len(Tail(p)) : Tail(p)[i] = p[i + 1]
  BY <1>1, <1>3, HeadTailProperties
<1> DEFINE t == Tail(p)
<1>7. t \in Seq(Nat) /\ Len(t) = Len(q) /\ \A i \in 1..Len(t) : t[i] = p[i + 1]
  BY <1>1, <1>2, <1>6
<1> HIDE DEF t
<1>8. ASSUME NEW i \in 1..Len(t)
      PROVE  t[i] = q[i]
  <2>1. i \in Nat /\ i \in 1..Len(q) /\ i + 1 \in 1..Len(p)
    BY <1>1, <1>2, <1>7, <1>8
  <2>2. p[i + 1] = s + (i + 1) /\ q[i] = (s + 1) + i
    BY <1>1, <2>1
  <2>3. s + (i + 1) = (s + 1) + i
    BY <1>1, <2>1
  <2> QED
    BY <1>7, <2>2, <2>3
<1>9. q = t
  BY <1>1, <1>7, <1>8, SeqEqual
<1> QED
  BY <1>3, <1>5, <1>9 DEF p, q, s, t, Fifo!Take

(* One step of the queue is one step of the promise, or none. *)
LEMMA StepRefines ==
    ASSUME JobInv, JobInv', Shape, Shape', [MNext]_mvars
    PROVE  [Fifo!Next]_(Fifo!vars)
<1>1. CASE Enqueue
  BY <1>1, EnqueueSubmits DEF Enqueue, Fifo!Next
<1>2. CASE SelectNext
  <2>1. /\ started \in Seq(Nat) /\ next_index \in Nat
        /\ microtask_queue \in Seq(Nat) /\ Len(microtask_queue) \in Nat
    BY LenProperties DEF JobInv, MTypeOK
  <2>2. next_index + 1 \in 1..Len(microtask_queue)
    BY <1>2, <2>1 DEF SelectNext, HasNext
  <2>3. microtask_queue[next_index + 1] \in Nat
    BY <2>1, <2>2, ElementOfSeq
  <2>4. Len(started') = Len(started) + 1 /\ UNCHANGED enqueued
    BY <1>2, <2>1, <2>3, AppendProperties DEF SelectNext
  <2> QED
    BY <2>4, SelectTakes DEF Fifo!Next
<1>3. CASE UNCHANGED <<enqueued, started>>
  BY <1>3, SameCountsSamePending DEF Fifo!vars
<1> QED
  BY <1>1, <1>2, <1>3
     DEF MNext, BeginDrain, CompleteSelected, FailSelected,
         RejectDispatchObservation, CompleteDrain, mvars

(* The policy object over the host's array, checkpoints failing and         *)
(* completing in any order, implements a plain first-in first-out queue in  *)
(* which every job is taken exactly once.                                   *)
THEOREM QueueImplementsPromise == MSpec => ImplementsJobQueue
<1>1. MInit => Fifo!Init
  <2> SUFFICES ASSUME MInit
               PROVE  Fifo!Init
    OBVIOUS
  <2>1. JobInv
    BY InitJobInv
  <2>2. Len(microtask_queue) = 0 /\ Len(started) = 0 /\ enqueued = 0 /\ Consumed = 0
    BY EmptySeq DEF MInit, Consumed, Active
  <2>3. Pending \in Seq(Nat) /\ Len(Pending) = 0
    BY <2>1, <2>2, PendingFacts
  <2>4. Pending = << >>
    BY <2>3, EmptySeq
  <2> QED
    BY <2>2, <2>4 DEF Fifo!Init
<1>2. JobInv /\ JobInv' /\ Shape /\ Shape' /\ [MNext]_mvars => [Fifo!Next]_(Fifo!vars)
  BY StepRefines
<1>3. MSpec => []Shape
  BY MicrotaskInvariant, JobInvShape, PTL
<1> QED
  BY <1>1, <1>2, <1>3, MicrotaskInvariant, PTL DEF MSpec, ImplementsJobQueue, Fifo!Spec
-----------------------------------------------------------------------------
(* The fairness of FairMSpec, with the condition under which each action    *)
(* can be taken in place of ENABLED: the host that runs a checkpoint again  *)
(* after one that completed, the loop of the drain and the callbacks.       *)
HostDrainsAgain ==
    <>[](phase = "Completed") => []<><<phase = "Completed" /\ BeginDrain>>_mvars

DrainGoesOn ==
    <>[](phase = "Ready") =>
        []<><<SelectNext \/ RejectDispatchObservation \/ CompleteDrain>>_mvars

CallbacksEnd ==
    <>[](phase = "Selected") => []<><<CompleteSelected \/ FailSelected>>_mvars

(* More than an embedder is asked for: a host that runs checkpoints again   *)
(* after failing ones too, for instance to see what its engine does, under  *)
(* a policy that now and again admits a step.                               *)
HostDrains == <>[](~Active) => []<><<BeginDrain>>_mvars

PolicyAdmits == []<>(phase = "Ready" /\ HasNext) => []<><<SelectNext>>_mvars

(* A step never takes back a start, nor a job once enqueued. *)
LEMMA StartsStay ==
    ASSUME JobInv, [MNext]_mvars, NEW n \in Nat, Len(started) = n, enqueued > n
    PROVE  /\ Len(started') = n \/ Len(started') > n
           /\ enqueued' > n
<1>1. /\ started \in Seq(Nat) /\ enqueued \in Nat /\ microtask_queue \in Seq(Nat)
      /\ next_index \in Nat /\ Len(microtask_queue) \in Nat
  BY MaxJobsAssumption, LenProperties DEF JobInv, MTypeOK
<1>2. CASE SelectNext
  <2>1. microtask_queue[next_index + 1] \in Nat
    <3>1. next_index + 1 \in 1..Len(microtask_queue)
      BY <1>1, <1>2 DEF SelectNext, HasNext
    <3> QED
      BY <1>1, <3>1, ElementOfSeq
  <2>2. Len(started') = Len(started) + 1
    BY <1>1, <1>2, <2>1, AppendProperties DEF SelectNext
  <2> QED
    BY <1>2, <2>2 DEF SelectNext
<1>3. CASE Enqueue
  BY <1>1, <1>3 DEF Enqueue
<1> QED
  BY <1>2, <1>3 DEF MNext, mvars, BeginDrain, CompleteSelected, FailSelected,
     RejectDispatchObservation, CompleteDrain

(* While a job waits, a checkpoint that is ready has a next job. *)
LEMMA WaitingIsNext ==
    ASSUME JobInv, NEW n \in Nat, Len(started) = n, enqueued > n, phase = "Ready"
    PROVE  HasNext
<1>1. Consumed = next_index /\ next_index \in Nat /\ Len(microtask_queue) \in Nat
  BY LenProperties DEF Consumed, Active, JobInv, MTypeOK
<1>2. enqueued \in Nat
  BY MaxJobsAssumption DEF JobInv, MTypeOK
<1> QED
  BY <1>1, <1>2 DEF JobInv, Positions, HasNext

(* Starting the next job takes it from the waiting ones. *)
LEMMA SelectStarts ==
    ASSUME JobInv, NEW n \in Nat, Len(started) = n, SelectNext
    PROVE  Len(started') > n
<1>1. /\ started \in Seq(Nat) /\ microtask_queue \in Seq(Nat)
      /\ next_index + 1 \in 1..Len(microtask_queue)
  BY LenProperties DEF JobInv, MTypeOK, SelectNext, HasNext
<1>2. microtask_queue[next_index + 1] \in Nat
  BY <1>1, ElementOfSeq
<1>3. Len(started') = Len(started) + 1
  BY <1>1, <1>2, AppendProperties DEF SelectNext
<1> QED
  BY <1>3

(* Under the contract with the embedder, a job that waits is started unless *)
(* a checkpoint fails before: no job is left behind the cursor, in an array *)
(* that is cleared, or by a drain that ends too early.                      *)
THEOREM WaitingJobStartsOrFails ==
    ASSUME NEW n \in Nat
    PROVE  MSpec /\ HostDrainsAgain /\ DrainGoesOn /\ CallbacksEnd =>
             ((Len(started) = n /\ enqueued > n)
                ~> (Len(started) > n \/ phase = "Failed"))
<1> DEFINE P == Len(started) = n /\ enqueued > n
           Q == Len(started) > n \/ phase = "Failed"
           Rdy == phase = "Ready"
           Sel == phase = "Selected"
           Cmp == phase = "Completed"
<1>1. JobInv /\ [MNext]_mvars /\ P => P' \/ Q'
  BY StartsStay
<1>2. JobInv /\ P /\ <<SelectNext \/ RejectDispatchObservation \/ CompleteDrain>>_mvars => Q'
  <2> SUFFICES ASSUME JobInv, P, SelectNext \/ RejectDispatchObservation \/ CompleteDrain
               PROVE  Q'
    OBVIOUS
  <2>1. CASE SelectNext
    BY <2>1, SelectStarts
  <2>2. CASE RejectDispatchObservation
    BY <2>2 DEF RejectDispatchObservation
  <2>3. CASE CompleteDrain
    BY <2>3, WaitingIsNext DEF CompleteDrain
  <2> QED
    BY <2>1, <2>2, <2>3
<1>3. JobInv /\ P /\ Rdy /\ [MNext]_mvars => Rdy' \/ Q'
  <2> SUFFICES ASSUME JobInv, P, Rdy, [MNext]_mvars
               PROVE  Rdy' \/ Q'
    OBVIOUS
  <2>1. CASE SelectNext
    BY <2>1, SelectStarts
  <2>2. CASE CompleteDrain
    BY <2>2, WaitingIsNext DEF CompleteDrain
  <2> QED
    BY <2>1, <2>2 DEF MNext, mvars, Active, Enqueue, BeginDrain, CompleteSelected,
       FailSelected, RejectDispatchObservation
<1>4. <<phase = "Completed" /\ BeginDrain>>_mvars => Rdy'
  BY DEF BeginDrain
<1>5. Cmp /\ [MNext]_mvars => Cmp' \/ Rdy'
  BY DEF MNext, mvars, Enqueue, BeginDrain, SelectNext, CompleteSelected,
     FailSelected, RejectDispatchObservation, CompleteDrain
<1>6. Sel /\ [MNext]_mvars => Sel' \/ Rdy' \/ Q'
  BY DEF MNext, mvars, Active, Enqueue, BeginDrain, SelectNext, CompleteSelected,
     FailSelected, RejectDispatchObservation, CompleteDrain
<1>7. <<CompleteSelected \/ FailSelected>>_mvars => Rdy' \/ Q'
  BY DEF CompleteSelected, FailSelected
<1>8. JobInv => Rdy \/ Sel \/ Cmp \/ Q
  BY DEF JobInv, MTypeOK, Phases
<1> HIDE DEF P, Q, Rdy, Sel, Cmp
<1>9. MSpec /\ HostDrainsAgain /\ DrainGoesOn /\ CallbacksEnd => (P ~> Q)
  <2>1. /\ [](Rdy <=> phase = "Ready")
        /\ [](Sel <=> phase = "Selected")
        /\ [](Cmp <=> phase = "Completed")
    BY PTL DEF Rdy, Sel, Cmp
  <2> QED
    BY <1>1, <1>2, <1>3, <1>4, <1>5, <1>6, <1>7, <1>8, <2>1, MicrotaskInvariant, PTL
       DEF MSpec, HostDrainsAgain, DrainGoesOn, CallbacksEnd
<1> QED
  BY <1>9 DEF P, Q

(* The next job is started, however the checkpoints before it ended (by a   *)
(* callback that threw, by a rejected observation or by draining), provided *)
(* that the host goes on: a job that fails cannot block the queue.          *)
THEOREM NextJobStarts ==
    ASSUME NEW n \in Nat
    PROVE  MSpec /\ HostDrains /\ PolicyAdmits /\ CallbacksEnd =>
             ((Len(started) = n /\ enqueued > n) ~> (Len(started) > n))
<1> DEFINE P == Len(started) = n /\ enqueued > n
           Q == Len(started) > n
           Rdy == phase = "Ready"
           Sel == phase = "Selected"
<1>1. JobInv /\ [MNext]_mvars /\ P => P' \/ Q'
  BY StartsStay
<1>2. JobInv /\ P /\ Rdy => Rdy /\ HasNext
  BY WaitingIsNext
<1>3. JobInv /\ P /\ <<SelectNext>>_mvars => Q'
  BY SelectStarts
<1>4. <<BeginDrain>>_mvars => Rdy'
  BY DEF BeginDrain
<1>5. [MNext]_mvars /\ ~Active => ~Active' \/ Rdy'
  BY DEF MNext, mvars, Active, Enqueue, BeginDrain, SelectNext, CompleteSelected,
     FailSelected, RejectDispatchObservation, CompleteDrain
<1>6. JobInv => (Active <=> Rdy \/ Sel)
  BY DEF Active
<1>7. <<CompleteSelected \/ FailSelected>>_mvars => ~Sel'
  BY DEF CompleteSelected, FailSelected
<1> HIDE DEF P, Q, Rdy, Sel
<1>8. MSpec /\ HostDrains /\ PolicyAdmits /\ CallbacksEnd => (P ~> Q)
  <2>1. /\ [](Rdy <=> phase = "Ready")
        /\ [](Sel <=> phase = "Selected")
    BY PTL DEF Rdy, Sel
  <2> QED
    BY <1>1, <1>2, <1>3, <1>4, <1>5, <1>6, <1>7, <2>1, MicrotaskInvariant, PTL
       DEF MSpec, HostDrains, PolicyAdmits, CallbacksEnd
<1> QED
  BY <1>8 DEF P, Q

-----------------------------------------------------------------------------
(* The event loop over the queue. *)

(* Every step of the loop is a step of the queue's policy, or leaves the   *)
(* queue alone.                                                            *)
LEMMA LoopStep == [Next]_vars => [MNext]_mvars
<1> SUFFICES ASSUME [Next]_vars
             PROVE  [MNext]_mvars
  OBVIOUS
<1>1. CASE QueueMicrotask \/ BeginMicrotaskCheckpoint \/ TimerReturns
  BY <1>1 DEF QueueMicrotask, BeginMicrotaskCheckpoint, TimerReturns, MNext
<1>2. CASE StartMicrotask \/ MicrotaskReturns \/ MicrotaskThrows
           \/ MicrotaskObservationRejected
  BY <1>2 DEF StartMicrotask, MicrotaskReturns, MicrotaskThrows,
              MicrotaskObservationRejected, MNext
<1>3. CASE EndMicrotaskCheckpoint \/ EndTimerTurn
  BY <1>3 DEF EndMicrotaskCheckpoint, EndTimerTurn, MNext
<1>4. CASE UNCHANGED mvars
  BY <1>4
<1> QED
  BY <1>1, <1>2, <1>3, <1>4
     DEF Next, GuestStep, HostStep, EngineStep, vars, BeginScript, EndScript,
         BeginTimerCheckpoint, ScheduleTimer, CancelTimer,
         TimerObservationRejected, DiscardTimer, StartTimer, TimerThrows,
         EndTimerCheckpoint

(* The event loop implements the microtask queue's specification. *)
THEOREM LoopRunsQueue == Spec => MSpec
<1>1. Init => MInit
  BY DEF Init
<1> QED
  BY <1>1, LoopStep, PTL DEF Spec, MSpec

(* At most once, in order and without loss, across scripts, checkpoints,   *)
(* timer turns and all their failures.                                     *)
THEOREM LoopJobs == Spec => [](StartedOnceInOrder /\ UnstartedRetained)
BY LoopRunsQueue, AtMostOnceInOrder, NothingLost, PTL

-----------------------------------------------------------------------------
(* What scheduling, re-registering and popping produce is a TimerTask. *)
LEMMA NextIntervalType ==
    ASSUME NEW t \in TimerTask, timer_insertion_counter \in Nat
    PROVE  /\ NextInterval(t) \in TimerTask
           /\ NextInterval(t).id = t.id
           /\ NextInterval(t).insertion_order = timer_insertion_counter
<1>1. Wrap(t.delay + t.period) \in Int32
  <2> DEFINE d == t.delay
             p == t.period
  <2>1. d \in (-IntMax - 1)..IntMax /\ p \in 0..IntMax /\ IntMax \in Nat
    BY TimerAssumption DEF TimerTask, Int32
  <2> HIDE DEF d, p
  <2>2. (IF d + p > IntMax THEN (d + p) - IntMax - 1 - IntMax - 1 ELSE d + p)
           \in (-IntMax - 1)..IntMax
    BY <2>1
  <2> QED
    BY <2>2 DEF Wrap, Int32, d, p
<1> QED
  BY <1>1 DEF NextInterval, TimerTask

LEMMA NoTimerType == NoTimer \in TimerTask
BY TimerAssumption DEF NoTimer, TimerTask, Int32

LEMMA InitType == Init => TypeOK
<1> SUFFICES ASSUME Init
             PROVE  TypeOK
  OBVIOUS
<1>1. MTypeOK
  BY InitJobInv DEF Init, JobInv
<1> QED
  BY <1>1, NoTimerType, TimerAssumption DEF Init, TypeOK, Turns, TimerPhases

(* One obligation per action that writes a timer variable. *)
LEMMA NextType == TypeOK /\ MTypeOK' /\ [Next]_vars => TypeOK'
<1> SUFFICES ASSUME TypeOK, MTypeOK', [Next]_vars
             PROVE  TypeOK'
  OBVIOUS
<1> USE TimerAssumption
<1>1. CASE BeginScript \/ EndScript
  BY <1>1 DEF BeginScript, EndScript, TypeOK, Turns, tvars
<1>2. CASE QueueMicrotask
  BY <1>2 DEF QueueMicrotask, TypeOK, tvars
<1>3. ASSUME NEW d \in Delays, NEW interval \in BOOLEAN, ScheduleTimer(d, interval)
      PROVE  TypeOK'
  <2> DEFINE delay == IF d < 0 THEN 0 ELSE d
             timer == [id |-> timer_id_counter, delay |-> delay,
                       period |-> IF interval THEN delay ELSE 0,
                       is_interval |-> interval,
                       insertion_order |-> timer_insertion_counter]
  <2>1. delay \in 0..IntMax
    BY <1>3
  <2>2. timer_id_counter \in Nat /\ timer_insertion_counter \in Nat /\ MaxTimers \in Nat
    BY DEF TypeOK
  <2>3. delay \in Int32 /\ (IF interval THEN delay ELSE 0) \in 0..IntMax
    BY <2>1 DEF Int32
  <2>4. timer \in TimerTask
    BY <2>2, <2>3 DEF TimerTask
  <2>5. timer_queue' \subseteq TimerTask
    BY <1>3, <2>4 DEF ScheduleTimer, TypeOK
  <2>6. timer_id_counter' \in 1..(MaxTimers + 1)
    BY <1>3, <2>2 DEF ScheduleTimer, TypeOK
  <2>7. timer_insertion_counter' \in Nat /\ cancelled_timer_ids' \subseteq 1..MaxTimers
    BY <1>3, <2>2 DEF ScheduleTimer, TypeOK
  <2> QED
    BY <1>3, <2>5, <2>6, <2>7 DEF ScheduleTimer, TypeOK
<1>4. ASSUME NEW id \in 1..MaxTimers, CancelTimer(id)
      PROVE  TypeOK'
  BY <1>4 DEF CancelTimer, TypeOK
<1>5. CASE BeginMicrotaskCheckpoint \/ EndMicrotaskCheckpoint
  BY <1>5 DEF BeginMicrotaskCheckpoint, EndMicrotaskCheckpoint, TypeOK, Turns, tvars
<1>6. CASE StartMicrotask \/ MicrotaskReturns
  BY <1>6 DEF StartMicrotask, MicrotaskReturns, TypeOK, tvars
<1>7. CASE MicrotaskThrows \/ MicrotaskObservationRejected
  BY <1>7, NoTimerType
     DEF MicrotaskThrows, MicrotaskObservationRejected, AbandonTurn, TypeOK,
         Turns, TimerPhases
<1>8. CASE BeginTimerCheckpoint
  BY <1>8 DEF BeginTimerCheckpoint, TypeOK, Turns, TimerPhases
<1>9. CASE TimerObservationRejected
  BY <1>9 DEF TimerObservationRejected, TypeOK, Turns, TimerPhases
<1>10. CASE DiscardTimer
  BY <1>10 DEF DiscardTimer, TimerRequired, TypeOK
<1>11. CASE StartTimer
  <2>1. PICK t \in timer_queue :
          /\ t.id \notin cancelled_timer_ids
          /\ timer_queue' = timer_queue \ {t}
          /\ selected' = t
          /\ fired' = fired \union {t.id}
    BY <1>11 DEF StartTimer
  <2>2. t \in TimerTask /\ t.id \in Nat
    BY <2>1 DEF TypeOK, TimerTask
  <2>3. iterations' \in 0..SafetyLimit
    BY <1>11 DEF StartTimer, TimerRequired, TypeOK
  <2>4. timer_queue' \subseteq TimerTask /\ selected' \in TimerTask /\ fired' \subseteq Nat
    BY <2>1, <2>2 DEF TypeOK
  <2> QED
    BY <1>11, <2>3, <2>4 DEF StartTimer, TypeOK, TimerPhases
<1>12. CASE TimerThrows
  BY <1>12, NoTimerType DEF TimerThrows, TypeOK, Turns, TimerPhases
<1>13. CASE TimerReturns
  BY <1>13 DEF TimerReturns, TypeOK, TimerPhases
<1>14. CASE EndTimerTurn
  BY <1>14, NextIntervalType, NoTimerType DEF EndTimerTurn, TypeOK, TimerPhases
<1>15. CASE EndTimerCheckpoint
  BY <1>15 DEF EndTimerCheckpoint, TypeOK, Turns, TimerPhases
<1>16. CASE UNCHANGED vars
  BY <1>16 DEF vars, tvars, TypeOK
<1> QED
  BY <1>1, <1>2, <1>3, <1>4, <1>5, <1>6, <1>7, <1>8, <1>9, <1>10, <1>11,
     <1>12, <1>13, <1>14, <1>15, <1>16
     DEF Next, GuestStep, HostStep, EngineStep

(* Type correctness of the event loop. *)
THEOREM LoopTypeCorrect == Spec => []TypeOK
<1>1. Init => TypeOK
  BY InitType
<1>2. TypeOK /\ MTypeOK' /\ [Next]_vars => TypeOK'
  BY NextType
<1> QED
  BY <1>1, <1>2, LoopRunsQueue, MicrotaskTypeCorrect, PTL DEF Spec
-----------------------------------------------------------------------------
(* Steps that neither add, remove, cancel nor pop a timer. *)
Quiet ==
    /\ UNCHANGED <<timer_queue, timer_id_counter, timer_insertion_counter,
                   cancelled_timer_ids, revoked>>
    /\ Firing' => Firing /\ selected' = selected

Books == Allocated /\ CancelledIffRevoked /\ TimersDistinct

LEMMA QuietOrNot ==
    ASSUME TypeOK, Nesting, [Next]_vars
    PROVE  \/ Quiet
           \/ \E d \in Delays, interval \in BOOLEAN : ScheduleTimer(d, interval)
           \/ \E id \in 1..MaxTimers : CancelTimer(id)
           \/ DiscardTimer
           \/ StartTimer
           \/ EndTimerTurn
           \/ EndTimerCheckpoint
<1>1. CASE BeginScript \/ EndScript \/ QueueMicrotask \/ UNCHANGED vars
  BY <1>1 DEF BeginScript, EndScript, QueueMicrotask, vars, tvars, Quiet, Firing
<1>2. CASE BeginMicrotaskCheckpoint \/ EndMicrotaskCheckpoint \/ StartMicrotask
           \/ MicrotaskReturns
  BY <1>2 DEF BeginMicrotaskCheckpoint, EndMicrotaskCheckpoint, StartMicrotask,
              MicrotaskReturns, tvars, Quiet, Firing
<1>3. CASE MicrotaskThrows \/ MicrotaskObservationRejected
  BY <1>3 DEF MicrotaskThrows, MicrotaskObservationRejected, AbandonTurn, Quiet,
              Firing, Nesting
<1>4. CASE BeginTimerCheckpoint \/ TimerObservationRejected \/ TimerThrows
           \/ TimerReturns
  BY <1>4 DEF BeginTimerCheckpoint, TimerObservationRejected, TimerThrows,
              TimerReturns, Quiet, Firing
<1> QED
  BY <1>1, <1>2, <1>3, <1>4 DEF Next, GuestStep, HostStep, EngineStep

LEMMA QuietBooks == Books /\ Quiet => Books'
BY DEF Books, Quiet, Allocated, CancelledIffRevoked, TimersDistinct, Live, Firing

LEMMA ScheduleBooks ==
    ASSUME TypeOK, Books, NEW d \in Delays, NEW interval \in BOOLEAN,
           ScheduleTimer(d, interval)
    PROVE  Books'
<1> DEFINE delay == IF d < 0 THEN 0 ELSE d
           timer == [id |-> timer_id_counter, delay |-> delay,
                     period |-> IF interval THEN delay ELSE 0,
                     is_interval |-> interval,
                     insertion_order |-> timer_insertion_counter]
<1>1. /\ timer.id = timer_id_counter
      /\ timer.insertion_order = timer_insertion_counter
      /\ timer_queue' = timer_queue \union {timer}
  BY DEF ScheduleTimer
<1> HIDE DEF timer
<1>2. /\ timer_id_counter \in Nat /\ timer_id_counter >= 1
      /\ timer_insertion_counter \in Nat
      /\ timer_id_counter' = timer_id_counter + 1
      /\ timer_insertion_counter' = timer_insertion_counter + 1
      /\ cancelled_timer_ids' = cancelled_timer_ids \ {timer_id_counter}
      /\ UNCHANGED <<tphase, selected, revoked>>
  BY TimerAssumption DEF TypeOK, ScheduleTimer
<1>3. \A t \in timer_queue : t.id \in Nat /\ t.insertion_order \in Nat
  BY DEF TypeOK, TimerTask
<1>4. Allocated'
  BY <1>1, <1>2, <1>3 DEF Books, Allocated, Firing
<1>5. TimersDistinct'
  BY <1>1, <1>2, <1>3 DEF Books, Allocated, TimersDistinct, Firing
<1>6. ASSUME NEW id \in 1..(timer_id_counter' - 1), Live(id)'
      PROVE  id \in cancelled_timer_ids' <=> id \in revoked'
  <2>1. CASE id = timer_id_counter
    BY <1>2, <2>1 DEF Books, Allocated
  <2>2. CASE id \in 1..(timer_id_counter - 1)
    <3>1. Live(id)
      BY <1>1, <1>2, <1>6, <2>2 DEF Live, Firing
    <3> QED
      BY <1>2, <2>2, <3>1 DEF Books, CancelledIffRevoked
  <2> QED
    BY <1>2, <1>6, <2>1, <2>2
<1> QED
  BY <1>4, <1>5, <1>6 DEF Books, CancelledIffRevoked

LEMMA CancelBooks ==
    ASSUME TypeOK, Books, NEW k \in 1..MaxTimers, CancelTimer(k)
    PROVE  Books'
<1>1. /\ cancelled_timer_ids' = cancelled_timer_ids \union {k}
      /\ revoked' = IF Live(k) THEN revoked \union {k} ELSE revoked
      /\ UNCHANGED <<timer_queue, timer_id_counter, timer_insertion_counter,
                     tphase, selected>>
  BY DEF CancelTimer
<1>2. Live(k) => k \in 1..(timer_id_counter - 1)
  BY DEF Books, Allocated, Live
<1>3. Allocated'
  BY <1>1, <1>2 DEF Books, Allocated, Firing
<1>4. \A id : Live(id)' <=> Live(id)
  BY <1>1 DEF Live, Firing
<1>5. CancelledIffRevoked'
  BY <1>1, <1>4 DEF Books, CancelledIffRevoked
<1>6. TimersDistinct'
  BY <1>1 DEF Books, TimersDistinct, Firing
<1> QED
  BY <1>3, <1>5, <1>6 DEF Books

LEMMA PopBooks ==
    ASSUME TypeOK, Books, DiscardTimer \/ StartTimer
    PROVE  Books'
<1>1. PICK t \in timer_queue :
        /\ timer_queue' = timer_queue \ {t}
        /\ Firing' => selected' = t
  BY DEF DiscardTimer, StartTimer, TimerRequired, Firing
<1>2. UNCHANGED <<timer_id_counter, timer_insertion_counter,
                  cancelled_timer_ids, revoked>>
  BY DEF DiscardTimer, StartTimer
<1>3. Allocated'
  BY <1>1, <1>2 DEF Books, Allocated
<1>4. \A id : Live(id)' => Live(id)
  BY <1>1 DEF Live
<1>5. CancelledIffRevoked'
  BY <1>2, <1>4 DEF Books, CancelledIffRevoked
<1>6. TimersDistinct'
  BY <1>1 DEF Books, TimersDistinct
<1> QED
  BY <1>3, <1>5, <1>6 DEF Books

LEMMA EndTurnBooks ==
    ASSUME TypeOK, Nesting, Books, EndTimerTurn
    PROVE  Books'
<1>1. /\ Firing /\ ~Firing'
      /\ UNCHANGED <<timer_id_counter, cancelled_timer_ids, revoked>>
  BY DEF EndTimerTurn, CompleteDrain, Nesting, Active, Firing
<1>2. CASE Requeues(selected)
  <2> DEFINE t == NextInterval(selected)
  <2>1. /\ timer_queue' = timer_queue \union {t}
        /\ timer_insertion_counter' = timer_insertion_counter + 1
    BY <1>2 DEF EndTimerTurn
  <2>2. t.id = selected.id /\ t.insertion_order = timer_insertion_counter
    BY NextIntervalType DEF TypeOK
  <2>3. timer_insertion_counter \in Nat
        /\ \A u \in timer_queue : u.insertion_order \in Nat
    BY DEF TypeOK, TimerTask
  <2> HIDE DEF t
  <2>4. Allocated'
    BY <1>1, <2>1, <2>2, <2>3 DEF Books, Allocated
  <2>5. \A id : Live(id)' => Live(id)
    BY <1>1, <2>1, <2>2 DEF Live
  <2>6. CancelledIffRevoked'
    BY <1>1, <2>5 DEF Books, CancelledIffRevoked
  <2>7. TimersDistinct'
    BY <1>1, <2>1, <2>2, <2>3 DEF Books, TimersDistinct, Allocated
  <2> QED
    BY <2>4, <2>6, <2>7 DEF Books
<1>3. CASE ~Requeues(selected)
  BY <1>1, <1>3
     DEF EndTimerTurn, Books, Allocated, CancelledIffRevoked, TimersDistinct, Live
<1> QED
  BY <1>2, <1>3

LEMMA EndCheckpointBooks ==
    ASSUME TypeOK, Books, EndTimerCheckpoint
    PROVE  Books'
<1>1. /\ ~Firing' /\ timer_queue' = timer_queue
      /\ UNCHANGED <<timer_id_counter, timer_insertion_counter, revoked>>
      /\ timer_queue # {} => cancelled_timer_ids' = cancelled_timer_ids
  BY DEF EndTimerCheckpoint, Firing
<1> QED
  BY <1>1 DEF Books, Allocated, CancelledIffRevoked, TimersDistinct, Live

LEMMA NextBooks ==
    ASSUME TypeOK, Nesting, Books, [Next]_vars
    PROVE  Books'
BY QuietOrNot, QuietBooks, ScheduleBooks, CancelBooks, PopBooks, EndTurnBooks,
   EndCheckpointBooks
-----------------------------------------------------------------------------
(* Who runs: the loop's own bookkeeping of nested checkpoints. *)
LEMMA NextNesting ==
    ASSUME TypeOK, Nesting, [Next]_vars
    PROVE  Nesting'
<1> USE DEF Nesting, Firing, Active
<1>1. CASE BeginScript \/ EndScript \/ UNCHANGED vars
  BY <1>1 DEF BeginScript, EndScript, vars, tvars, mvars
<1>2. CASE QueueMicrotask
  BY <1>2 DEF QueueMicrotask, Enqueue, tvars
<1>3. ASSUME NEW d \in Delays, NEW interval \in BOOLEAN, ScheduleTimer(d, interval)
      PROVE  Nesting'
  BY <1>3 DEF ScheduleTimer, mvars
<1>4. ASSUME NEW id \in 1..MaxTimers, CancelTimer(id)
      PROVE  Nesting'
  BY <1>4 DEF CancelTimer, mvars
<1>5. CASE BeginMicrotaskCheckpoint \/ EndMicrotaskCheckpoint
  BY <1>5 DEF BeginMicrotaskCheckpoint, EndMicrotaskCheckpoint, BeginDrain,
              CompleteDrain, tvars
<1>6. CASE StartMicrotask \/ MicrotaskReturns
  BY <1>6 DEF StartMicrotask, MicrotaskReturns, SelectNext, CompleteSelected, tvars
<1>7. CASE MicrotaskThrows \/ MicrotaskObservationRejected
  BY <1>7 DEF MicrotaskThrows, MicrotaskObservationRejected, AbandonTurn,
              FailSelected, RejectDispatchObservation, TypeOK, Turns
<1>8. CASE BeginTimerCheckpoint \/ TimerObservationRejected \/ TimerThrows
           \/ EndTimerCheckpoint
  BY <1>8 DEF BeginTimerCheckpoint, TimerObservationRejected, TimerThrows,
              EndTimerCheckpoint, TimerRequired, mvars
<1>9. CASE DiscardTimer \/ StartTimer
  BY <1>9 DEF DiscardTimer, StartTimer, TimerRequired, mvars
<1>10. CASE TimerReturns \/ EndTimerTurn
  BY <1>10 DEF TimerReturns, EndTimerTurn, BeginDrain, CompleteDrain
<1> QED
  BY <1>1, <1>2, <1>3, <1>4, <1>5, <1>6, <1>7, <1>8, <1>9, <1>10
     DEF Next, GuestStep, HostStep, EngineStep

(* Between two timer callbacks of a run nothing enqueues: the queue that   *)
(* the checkpoint left empty is still empty when the next timer is popped. *)
LEMMA NextDrained ==
    ASSUME TypeOK, Nesting, DrainedBetweenTimers, [Next]_vars
    PROVE  DrainedBetweenTimers'
<1> SUFFICES ASSUME turn' = "timers", tphase' = "Ready", fired' # {}
             PROVE  Pending' = << >>
  BY DEF DrainedBetweenTimers
<1>1. CASE EndTimerTurn
  <2>1. microtask_queue' = << >> /\ Consumed' = 0
    BY <1>1 DEF EndTimerTurn, CompleteDrain, Consumed, Active
  <2>2. SubSeq(<< >>, 0 + 1, Len(<< >>)) = << >>
    BY EmptySeq, SubSeqEmpty
  <2> QED
    BY <2>1, <2>2 DEF Pending
<1>2. CASE /\ UNCHANGED mvars
           /\ turn = "timers" /\ tphase = "Ready" /\ fired # {}
  BY <1>2 DEF DrainedBetweenTimers, Pending, Consumed, Active, mvars
<1>3. \/ EndTimerTurn
      \/ /\ UNCHANGED mvars
         /\ turn = "timers" /\ tphase = "Ready" /\ fired # {}
  <2> USE DEF Nesting, Firing, Active
  <2>1. CASE BeginScript \/ EndScript \/ UNCHANGED vars
    BY <2>1 DEF BeginScript, EndScript, vars, tvars, mvars
  <2>2. CASE QueueMicrotask
    BY <2>2 DEF QueueMicrotask, JsRunning, tvars
  <2>3. ASSUME NEW d \in Delays, NEW interval \in BOOLEAN, ScheduleTimer(d, interval)
        PROVE  UNCHANGED mvars /\ turn = "timers" /\ tphase = "Ready" /\ fired # {}
    BY <2>3 DEF ScheduleTimer, mvars
  <2>4. ASSUME NEW id \in 1..MaxTimers, CancelTimer(id)
        PROVE  UNCHANGED mvars /\ turn = "timers" /\ tphase = "Ready" /\ fired # {}
    BY <2>4 DEF CancelTimer, mvars
  <2>5. CASE BeginMicrotaskCheckpoint \/ EndMicrotaskCheckpoint
    BY <2>5 DEF BeginMicrotaskCheckpoint, EndMicrotaskCheckpoint
  <2>6. CASE StartMicrotask \/ MicrotaskReturns
    BY <2>6 DEF StartMicrotask, MicrotaskReturns, SelectNext, CompleteSelected, tvars
  <2>7. CASE MicrotaskThrows \/ MicrotaskObservationRejected
    BY <2>7 DEF MicrotaskThrows, MicrotaskObservationRejected, AbandonTurn
  <2>8. CASE BeginTimerCheckpoint \/ TimerObservationRejected \/ TimerThrows
             \/ EndTimerCheckpoint
    BY <2>8 DEF BeginTimerCheckpoint, TimerObservationRejected, TimerThrows,
                EndTimerCheckpoint
  <2>9. CASE DiscardTimer
    BY <2>9 DEF DiscardTimer, TimerRequired, mvars
  <2>10. CASE StartTimer \/ TimerReturns
    BY <2>10 DEF StartTimer, TimerReturns
  <2> QED
    BY <2>1, <2>2, <2>3, <2>4, <2>5, <2>6, <2>7, <2>8, <2>9, <2>10
       DEF Next, GuestStep, HostStep, EngineStep
<1> QED
  BY <1>1, <1>2, <1>3

LEMMA InitTimerInv == Init => TimerInv
<1> SUFFICES ASSUME Init
             PROVE  TimerInv
  OBVIOUS
<1>1. Nesting /\ DrainedBetweenTimers
  BY DEF Init, MInit, Nesting, Firing, Active, DrainedBetweenTimers
<1>2. Allocated /\ CancelledIffRevoked /\ TimersDistinct
  BY DEF Init, Allocated, CancelledIffRevoked, TimersDistinct, Live, Firing
<1> QED
  BY <1>1, <1>2 DEF TimerInv

LEMMA NextTimerInv == TypeOK /\ TimerInv /\ [Next]_vars => TimerInv'
BY NextNesting, NextBooks, NextDrained DEF TimerInv, Books

(* The timer half keeps its inductive invariant. *)
THEOREM LoopTimerInvariant == Spec => []TimerInv
<1>1. Init => TimerInv
  BY InitTimerInv
<1>2. TypeOK /\ TimerInv /\ [Next]_vars => TimerInv'
  BY NextTimerInv
<1> QED
  BY <1>1, <1>2, LoopTypeCorrect, PTL DEF Spec

(* A timer callback, except the first of a checkpoint, starts on a drained *)
(* microtask queue.                                                        *)
THEOREM LoopDrained == Spec => []DrainedBetweenTimers
<1>1. TimerInv => DrainedBetweenTimers
  BY DEF TimerInv
<1> QED
  BY <1>1, LoopTimerInvariant, PTL

(* No interval is registered twice and no two timers tie. *)
THEOREM LoopTimersDistinct == Spec => []TimersDistinct
<1>1. TimerInv => TimersDistinct
  BY DEF TimerInv
<1> QED
  BY <1>1, LoopTimerInvariant, PTL

(* A timer fires if and only if it was not cancelled while it was live:    *)
(* the step that pops it decides from a map that is exact for it.          *)
LEMMA ExactStep ==
    ASSUME TypeOK, TimerInv, [Next]_vars
    PROVE  /\ tphase # "Selected" /\ tphase' = "Selected" => selected'.id \notin revoked
           /\ \A t \in timer_queue \ timer_queue' :
                tphase' = "Selected" \/ t.id \in revoked
<1>1. \A t \in timer_queue :
        t.id \in cancelled_timer_ids <=> t.id \in revoked
  BY DEF TimerInv, Allocated, CancelledIffRevoked, Live
<1>2. CASE StartTimer
  BY <1>1, <1>2 DEF StartTimer
<1>3. CASE DiscardTimer
  BY <1>1, <1>3 DEF DiscardTimer, TimerRequired
<1>4. CASE UNCHANGED tvars
  BY <1>4 DEF tvars
<1>5. CASE BeginScript \/ EndScript \/ QueueMicrotask \/ BeginMicrotaskCheckpoint
           \/ EndMicrotaskCheckpoint \/ StartMicrotask \/ MicrotaskReturns
           \/ UNCHANGED vars
  BY <1>4, <1>5 DEF BeginScript, EndScript, QueueMicrotask,
     BeginMicrotaskCheckpoint, EndMicrotaskCheckpoint, StartMicrotask,
     MicrotaskReturns, vars
<1>6. CASE MicrotaskThrows \/ MicrotaskObservationRejected
  BY <1>6 DEF MicrotaskThrows, MicrotaskObservationRejected, AbandonTurn
<1>7. ASSUME NEW d \in Delays, NEW interval \in BOOLEAN, ScheduleTimer(d, interval)
      PROVE  timer_queue \subseteq timer_queue' /\ tphase' = tphase
  BY <1>7 DEF ScheduleTimer
<1>8. ASSUME NEW id \in 1..MaxTimers, CancelTimer(id)
      PROVE  timer_queue \subseteq timer_queue' /\ tphase' = tphase
  BY <1>8 DEF CancelTimer
<1>9. CASE BeginTimerCheckpoint \/ TimerObservationRejected \/ TimerThrows
           \/ TimerReturns \/ EndTimerTurn \/ EndTimerCheckpoint
  BY <1>9 DEF BeginTimerCheckpoint, TimerObservationRejected, TimerThrows,
              TimerReturns, EndTimerTurn, EndTimerCheckpoint
<1> QED
  BY <1>2, <1>3, <1>5, <1>6, <1>7, <1>8, <1>9
     DEF Next, GuestStep, HostStep, EngineStep

(* Cancellation is exact in every behaviour. *)
THEOREM LoopCancellationExact == Spec => CancellationExact
<1>1. TypeOK /\ TimerInv /\ [Next]_vars =>
        [ /\ tphase # "Selected" /\ tphase' = "Selected" => selected'.id \notin revoked
          /\ \A t \in timer_queue \ timer_queue' :
               tphase' = "Selected" \/ t.id \in revoked ]_vars
  BY ExactStep
<1> QED
  BY <1>1, LoopTypeCorrect, LoopTimerInvariant, PTL DEF Spec, CancellationExact

-----------------------------------------------------------------------------
(* The only steps that add to the timer queue are a call of setTimeout or   *)
(* setInterval and the end of a timer turn, and each adds one timer.        *)
LEMMA TimersJoin ==
    ASSUME TypeOK, Nesting, [Next]_vars, NEW t \in timer_queue' \ timer_queue
    PROVE  \/ /\ t.id = timer_id_counter
              /\ t.insertion_order = timer_insertion_counter
              /\ t.delay \in Int
           \/ EndTimerTurn /\ t = NextInterval(selected)
<1>1. \/ \E d \in Delays, interval \in BOOLEAN : ScheduleTimer(d, interval)
      \/ EndTimerTurn /\ t = NextInterval(selected)
  BY QuietOrNot DEF Quiet, CancelTimer, DiscardTimer, StartTimer, EndTimerTurn,
     EndTimerCheckpoint
<1>2. ASSUME NEW d \in Delays, NEW interval \in BOOLEAN, ScheduleTimer(d, interval)
      PROVE  /\ t.id = timer_id_counter
             /\ t.insertion_order = timer_insertion_counter
             /\ t.delay \in Int
  <2>1. t = [id |-> timer_id_counter, delay |-> IF d < 0 THEN 0 ELSE d,
             period |-> IF interval THEN IF d < 0 THEN 0 ELSE d ELSE 0,
             is_interval |-> interval,
             insertion_order |-> timer_insertion_counter]
    BY <1>2 DEF ScheduleTimer
  <2> QED
    BY <2>1, TimerAssumption
<1> QED
  BY <1>1, <1>2

(* A timer that joins the queue is behind every timer due no later. *)
THEOREM LoopTimerFifo == Spec => TimerFifo
<1>1. TypeOK /\ TimerInv /\ [Next]_vars =>
        [ \A t \in timer_queue' \ timer_queue : \A u \in timer_queue :
             u.delay <= t.delay => Before(u, t) ]_vars
  <2> SUFFICES ASSUME TypeOK, TimerInv, [Next]_vars,
                      NEW t \in timer_queue' \ timer_queue, NEW u \in timer_queue,
                      u.delay <= t.delay
               PROVE  Before(u, t)
    OBVIOUS
  <2>1. /\ t.insertion_order = timer_insertion_counter
        /\ t.delay \in Int
    <3>1. CASE EndTimerTurn /\ t = NextInterval(selected)
      <4>1. t \in TimerTask /\ t.insertion_order = timer_insertion_counter
        BY <3>1, NextIntervalType DEF TypeOK
      <4> QED
        BY <4>1, TimerAssumption DEF TimerTask, Int32
    <3> QED
      BY <3>1, TimersJoin DEF TimerInv
  <2>2. u.insertion_order < timer_insertion_counter /\ u.delay \in Int
    BY TimerAssumption DEF TimerInv, Allocated, TypeOK, TimerTask, Int32
  <2> QED
    BY <2>1, <2>2 DEF Before
<1> QED
  BY <1>1, LoopTypeCorrect, LoopTimerInvariant, PTL DEF Spec, TimerFifo

(* The timer whose turn it is was entered in this run of the timer loop. *)
FiringIsFired == Firing => selected.id \in fired

LEMMA NextFired == Nesting /\ FiringIsFired /\ [Next]_vars => FiringIsFired'
<1> SUFFICES ASSUME Nesting, FiringIsFired, [Next]_vars
             PROVE  FiringIsFired'
  OBVIOUS
<1> USE DEF FiringIsFired, Firing
<1>1. CASE \/ BeginScript \/ EndScript \/ QueueMicrotask \/ BeginMicrotaskCheckpoint
           \/ EndMicrotaskCheckpoint \/ StartMicrotask \/ MicrotaskReturns
           \/ UNCHANGED vars
  BY <1>1 DEF BeginScript, EndScript, QueueMicrotask, BeginMicrotaskCheckpoint,
     EndMicrotaskCheckpoint, StartMicrotask, MicrotaskReturns, vars, tvars
<1>2. ASSUME NEW d \in Delays, NEW interval \in BOOLEAN, ScheduleTimer(d, interval)
      PROVE  FiringIsFired'
  BY <1>2 DEF ScheduleTimer
<1>3. ASSUME NEW id \in 1..MaxTimers, CancelTimer(id)
      PROVE  FiringIsFired'
  BY <1>3 DEF CancelTimer
<1>4. CASE MicrotaskThrows \/ MicrotaskObservationRejected
  BY <1>4 DEF MicrotaskThrows, MicrotaskObservationRejected, AbandonTurn, Nesting
<1>5. CASE StartTimer
  BY <1>5 DEF StartTimer
<1>6. CASE BeginTimerCheckpoint \/ TimerObservationRejected \/ DiscardTimer
           \/ TimerThrows \/ TimerReturns \/ EndTimerTurn \/ EndTimerCheckpoint
  BY <1>6 DEF BeginTimerCheckpoint, TimerObservationRejected, DiscardTimer,
     TimerRequired, TimerThrows, TimerReturns, EndTimerTurn, EndTimerCheckpoint
<1> QED
  BY <1>1, <1>2, <1>3, <1>4, <1>5, <1>6 DEF Next, GuestStep, HostStep, EngineStep

(* A checkpoint that drained has started every job ever enqueued. *)
LEMMA DrainedAllStarted ==
    ASSUME UnstartedRetained', MTypeOK', CompleteDrain
    PROVE  Len(started') = enqueued'
<1>1. microtask_queue' = << >> /\ Consumed' = 0
  BY DEF CompleteDrain, Consumed, Active
<1>2. Pending' = << >>
  <2>1. SubSeq(<< >>, 0 + 1, Len(<< >>)) = << >>
    BY EmptySeq, SubSeqEmpty
  <2> QED
    BY <1>1, <2>1 DEF Pending
<1>3. started' \in Seq(Nat) /\ Len(<< >>) = 0
  BY DEF MTypeOK
<1>4. Len(started') + Len(Pending') = enqueued'
  BY DEF UnstartedRetained
<1>5. Len(started') \in Nat
  BY <1>3
<1> QED
  BY <1>2, <1>3, <1>4, <1>5

(* An interval comes round again only after its callback returned and every *)
(* job queued until then has run, and only if nobody cancelled it.          *)
THEOREM LoopRequeues == Spec => RequeueAfterCheckpoint
<1>1. Init => FiringIsFired
  BY DEF Init, FiringIsFired, Firing
<1>2. Nesting /\ FiringIsFired /\ [Next]_vars => FiringIsFired'
  BY NextFired
<1>3. TimerInv => Nesting
  BY DEF TimerInv
<1>4. /\ TypeOK /\ TimerInv /\ FiringIsFired /\ TypeOK' /\ UnstartedRetained'
      /\ [Next]_vars
      => [ \A t \in timer_queue' \ timer_queue :
             t.id < timer_id_counter =>
                t.id \in fired \ revoked /\ Len(started') = enqueued' ]_vars
  <2> SUFFICES ASSUME TypeOK, TimerInv, FiringIsFired, TypeOK', UnstartedRetained',
                      [Next]_vars, NEW t \in timer_queue' \ timer_queue,
                      t.id < timer_id_counter
               PROVE  t.id \in fired \ revoked /\ Len(started') = enqueued'
    OBVIOUS
  <2>1. timer_id_counter \in Nat
    BY TimerAssumption DEF TypeOK
  <2>2. EndTimerTurn /\ t = NextInterval(selected)
    BY <2>1, TimersJoin DEF TimerInv
  <2>3. t.id = selected.id
    BY <2>2, NextIntervalType DEF TypeOK
  <2>4. Firing /\ CompleteDrain
    BY <2>2 DEF EndTimerTurn, CompleteDrain, TimerInv, Nesting, Active, Firing
  <2>5. selected.id \notin revoked
    <3>1. Requeues(selected)
      BY <2>2 DEF EndTimerTurn
    <3> QED
      BY <2>4, <3>1 DEF Requeues, TimerInv, Allocated, CancelledIffRevoked, Live
  <2> QED
    BY <2>3, <2>4, <2>5, DrainedAllStarted DEF FiringIsFired, TypeOK
<1> QED
  BY <1>1, <1>2, <1>3, <1>4, LoopTypeCorrect, LoopTimerInvariant, LoopJobs, PTL
     DEF Spec, RequeueAfterCheckpoint

(* An interval comes round no earlier than it just fired, as long as its    *)
(* next due time is an Int32: only the overflow of the addition moves an    *)
(* interval back.                                                           *)
THEOREM IntervalsMoveForwardBelowOverflow ==
    Spec => [][ selected.delay + selected.period <= IntMax =>
                  \A t \in timer_queue' \ timer_queue :
                     tphase = "CallbackSucceeded" /\ t.id = selected.id
                        => t.delay >= selected.delay ]_vars
<1>1. TypeOK /\ TimerInv /\ [Next]_vars =>
        [ selected.delay + selected.period <= IntMax =>
            \A t \in timer_queue' \ timer_queue :
               tphase = "CallbackSucceeded" /\ t.id = selected.id
                  => t.delay >= selected.delay ]_vars
  <2> SUFFICES ASSUME TypeOK, TimerInv, [Next]_vars,
                      selected.delay + selected.period <= IntMax,
                      NEW t \in timer_queue' \ timer_queue,
                      tphase = "CallbackSucceeded", t.id = selected.id
               PROVE  t.delay >= selected.delay
    OBVIOUS
  <2>1. selected.id < timer_id_counter /\ timer_id_counter \in Nat
        /\ selected.id \in Nat
    BY TimerAssumption DEF TimerInv, Allocated, Firing, TypeOK, TimerTask
  <2>2. t = NextInterval(selected)
    BY <2>1, TimersJoin DEF TimerInv
  <2>3. selected.delay \in Int /\ selected.period \in Nat
    BY TimerAssumption DEF TypeOK, TimerTask, Int32
  <2>4. t.delay = Wrap(selected.delay + selected.period)
    BY <2>2 DEF NextInterval, TypeOK, TimerTask
  <2> QED
    BY <2>3, <2>4, TimerAssumption DEF Wrap
<1> QED
  BY <1>1, LoopTypeCorrect, LoopTimerInvariant, PTL DEF Spec

-----------------------------------------------------------------------------
(* How much a host operation still has to do.  Every job to come counts two *)
(* (selected, returned), every iteration left three (popped, its callback   *)
(* returned, its checkpoint drained); a phase counts what is left of it.    *)
PhaseWork == IF phase = "Selected" THEN 1 ELSE 0

TurnWork == IF tphase = "Selected" THEN 2
            ELSE IF tphase = "CallbackSucceeded" THEN 1 ELSE 0

Work ==
    2 * (MaxJobs - Len(started)) + PhaseWork + 3 * (SafetyLimit - iterations) + TurnWork

LEMMA WorkParts ==
    ASSUME TypeOK, UnstartedRetained, JobInv
    PROVE  /\ MaxJobs - Len(started) \in Nat
           /\ SafetyLimit - iterations \in Nat
           /\ PhaseWork \in 0..1
           /\ TurnWork \in 0..2
           /\ Work \in Nat
<1>1. /\ Len(started) \in Nat /\ Len(Pending) \in Nat
      /\ Len(started) + Len(Pending) = enqueued /\ enqueued \in 0..MaxJobs
  BY PendingFacts, LenProperties DEF TypeOK, MTypeOK, UnstartedRetained
<1>2. MaxJobs - Len(started) \in Nat
  BY <1>1, MaxJobsAssumption
<1>3. SafetyLimit - iterations \in Nat
  BY TimerAssumption DEF TypeOK
<1>4. PhaseWork \in 0..1 /\ TurnWork \in 0..2
  BY DEF PhaseWork, TurnWork
<1>5. \A a, b \in Nat : \A p \in 0..1, q \in 0..2 : 2 * a + p + 3 * b + q \in Nat
  OBVIOUS
<1> QED
  BY <1>2, <1>3, <1>4, <1>5 DEF Work

(* Guest code leaves the measure alone. *)
LEMMA GuestWork == GuestStep \/ UNCHANGED vars => Work' = Work
BY DEF GuestStep, QueueMicrotask, Enqueue, ScheduleTimer, CancelTimer, vars, mvars,
       tvars, Work, PhaseWork, TurnWork

(* The host is outside while an operation runs. *)
LEMMA HostOnlyWhenIdle == HostStep => turn = "idle"
BY DEF HostStep, BeginScript, BeginMicrotaskCheckpoint, BeginTimerCheckpoint

(* Every step of the engine reduces it or ends the operation. *)
LEMMA EngineWork ==
    ASSUME TypeOK, Nesting, EngineStep
    PROVE  turn' = "idle" \/ Work' < Work
<1>1. /\ MaxJobs \in Nat /\ SafetyLimit \in Nat /\ iterations \in Nat
      /\ started \in Seq(Nat) /\ Len(started) \in Nat
  BY MaxJobsAssumption, TimerAssumption, LenProperties DEF TypeOK, MTypeOK
<1>2. \A a, b \in Int : \A p, q \in Nat :
         /\ 2 * (a - 1) + 1 + 3 * b + q < 2 * a + 0 + 3 * b + q
         /\ 2 * a + 0 + 3 * b + q < 2 * a + 1 + 3 * b + q
         /\ 2 * a + p + 3 * (b - 1) + 0 < 2 * a + p + 3 * b + 0
         /\ 2 * a + p + 3 * (b - 1) + 2 < 2 * a + p + 3 * b + 0
         /\ 2 * a + p + 3 * b + 1 < 2 * a + p + 3 * b + 2
         /\ 2 * a + p + 3 * b + 0 < 2 * a + p + 3 * b + 1
  OBVIOUS
<1> DEFINE a == MaxJobs - Len(started)
           b == SafetyLimit - iterations
<1>3. a \in Int /\ b \in Int /\ PhaseWork \in Nat /\ TurnWork \in Nat
  BY <1>1 DEF PhaseWork, TurnWork
<1>4. CASE EndScript \/ MicrotaskThrows \/ MicrotaskObservationRejected
           \/ EndMicrotaskCheckpoint \/ TimerObservationRejected \/ TimerThrows
           \/ EndTimerCheckpoint
  BY <1>4 DEF EndScript, MicrotaskThrows, MicrotaskObservationRejected, AbandonTurn,
              EndMicrotaskCheckpoint, TimerObservationRejected, TimerThrows,
              EndTimerCheckpoint
<1>5. CASE StartMicrotask
  <2>1. /\ phase = "Ready" /\ phase' = "Selected"
        /\ started' = Append(started, microtask_queue[next_index + 1])
        /\ next_index + 1 \in 1..Len(microtask_queue)
        /\ UNCHANGED <<iterations, tphase>>
    BY <1>5, LenProperties DEF StartMicrotask, SelectNext, HasNext, tvars, TypeOK, MTypeOK
  <2>2. microtask_queue[next_index + 1] \in Nat
    BY <2>1, ElementOfSeq DEF TypeOK, MTypeOK
  <2>3. Len(started') = Len(started) + 1
    BY <1>1, <2>1, <2>2, AppendProperties
  <2>4. a' = a - 1
    BY <1>1, <2>3
  <2>5. b' = b /\ PhaseWork = 0 /\ PhaseWork' = 1 /\ TurnWork' = TurnWork
    BY <2>1 DEF PhaseWork, TurnWork
  <2>6. Work = 2 * a + 0 + 3 * b + TurnWork /\ Work' = 2 * (a - 1) + 1 + 3 * b + TurnWork
    BY <2>4, <2>5 DEF Work
  <2> HIDE DEF a, b
  <2> QED
    BY <1>2, <1>3, <2>6
<1>6. CASE MicrotaskReturns
  <2>1. /\ a' = a /\ b' = b /\ PhaseWork = 1 /\ PhaseWork' = 0
        /\ TurnWork' = TurnWork
    BY <1>6 DEF MicrotaskReturns, CompleteSelected, tvars, PhaseWork, TurnWork
  <2>2. /\ Work = 2 * a + 1 + 3 * b + TurnWork
        /\ Work' = 2 * a + 0 + 3 * b + TurnWork
    BY <2>1 DEF Work
  <2> HIDE DEF a, b
  <2> QED
    BY <1>2, <1>3, <2>2
<1>7. CASE DiscardTimer
  <2>1. /\ a' = a /\ iterations' = iterations + 1 /\ PhaseWork' = PhaseWork
        /\ TurnWork = 0 /\ TurnWork' = 0
    BY <1>7 DEF DiscardTimer, TimerRequired, mvars, PhaseWork, TurnWork
  <2>2. b' = b - 1
    BY <1>1, <2>1
  <2>3. /\ Work = 2 * a + PhaseWork + 3 * b + 0
        /\ Work' = 2 * a + PhaseWork + 3 * (b - 1) + 0
    BY <2>1, <2>2 DEF Work
  <2> HIDE DEF a, b
  <2> QED
    BY <1>2, <1>3, <2>3
<1>8. CASE StartTimer
  <2>1. /\ a' = a /\ iterations' = iterations + 1 /\ PhaseWork' = PhaseWork
        /\ TurnWork = 0 /\ TurnWork' = 2
    BY <1>8 DEF StartTimer, TimerRequired, mvars, PhaseWork, TurnWork
  <2>2. b' = b - 1
    BY <1>1, <2>1
  <2>3. /\ Work = 2 * a + PhaseWork + 3 * b + 0
        /\ Work' = 2 * a + PhaseWork + 3 * (b - 1) + 2
    BY <2>1, <2>2 DEF Work
  <2> HIDE DEF a, b
  <2> QED
    BY <1>2, <1>3, <2>3
<1>9. CASE TimerReturns
  <2>1. /\ a' = a /\ b' = b /\ PhaseWork = 0 /\ PhaseWork' = 0
        /\ TurnWork = 2 /\ TurnWork' = 1
    BY <1>9 DEF TimerReturns, BeginDrain, Active, PhaseWork, TurnWork
  <2>2. /\ Work = 2 * a + 0 + 3 * b + 2
        /\ Work' = 2 * a + 0 + 3 * b + 1
    BY <2>1 DEF Work
  <2> HIDE DEF a, b
  <2> QED
    BY <1>2, <1>3, <2>2
<1>10. CASE EndTimerTurn
  <2>1. /\ a' = a /\ b' = b /\ PhaseWork = 0 /\ PhaseWork' = 0
        /\ TurnWork = 1 /\ TurnWork' = 0
    BY <1>10 DEF EndTimerTurn, CompleteDrain, Nesting, Firing, Active, PhaseWork, TurnWork
  <2>2. /\ Work = 2 * a + 0 + 3 * b + 1
        /\ Work' = 2 * a + 0 + 3 * b + 0
    BY <2>1 DEF Work
  <2> HIDE DEF a, b
  <2> QED
    BY <1>2, <1>3, <2>2
<1> QED
  BY <1>4, <1>5, <1>6, <1>7, <1>8, <1>9, <1>10 DEF EngineStep

(* Every host operation is finite: as long as guest code does not queue     *)
(* more, each step of the engine brings the operation closer to its end,    *)
(* and nothing guest code does undoes that.  The timer loop stays finite    *)
(* although intervals register again for ever, because a popped timer       *)
(* costs an iteration whether it fires or is discarded; the jobs counted    *)
(* are those the bound MaxJobs leaves.                                      *)
THEOREM OperationsAreFinite ==
    Spec => /\ [](Work \in Nat)
            /\ [][turn # "idle" => \/ turn' = "idle"
                                  \/ (EngineStep /\ Work' < Work)
                                  \/ (GuestStep /\ Work' = Work)]_vars
<1>1. TypeOK /\ UnstartedRetained /\ JobInv => Work \in Nat
  BY WorkParts
<1>2. TypeOK /\ TimerInv /\ UnstartedRetained /\ JobInv /\ [Next]_vars =>
        [ turn # "idle" => \/ turn' = "idle"
                          \/ (EngineStep /\ Work' < Work)
                          \/ (GuestStep /\ Work' = Work) ]_vars
  BY EngineWork, GuestWork, HostOnlyWhenIdle DEF TimerInv, Next
<1> QED
  BY <1>1, <1>2, LoopTypeCorrect, LoopTimerInvariant, LoopJobs, LoopRunsQueue,
     MicrotaskInvariant, PTL DEF Spec

(* The fairness FairSpec assumes, with the condition under which the engine *)
(* has a step in place of ENABLED: while a host operation is on the stack,  *)
(* the engine keeps running and callbacks end.                              *)
EngineRuns == <>[](turn # "idle") => []<><<EngineStep>>_vars

(* From any point of a host operation, whatever work is left, the operation *)
(* ends or less work is left: no amount of guest activity between the       *)
(* engine's steps holds it up.                                              *)
THEOREM OperationsProgress ==
    ASSUME NEW n \in Nat
    PROVE  Spec /\ EngineRuns =>
             ((turn # "idle" /\ Work = n) ~> (turn = "idle" \/ Work < n))
<1> DEFINE P == turn # "idle" /\ Work = n
           Q == turn = "idle" \/ Work < n
<1>1. P => turn # "idle"
  OBVIOUS
<1>2. /\ TypeOK /\ TimerInv /\ UnstartedRetained /\ JobInv /\ [Next]_vars /\ P
      => P' \/ Q'
  <2> SUFFICES ASSUME TypeOK, TimerInv, UnstartedRetained, JobInv, [Next]_vars, P
               PROVE  P' \/ Q'
    OBVIOUS
  <2>1. Next => GuestStep \/ EngineStep
    BY HostOnlyWhenIdle DEF Next
  <2>2. Work' < Work => Work' < n
    OBVIOUS
  <2> QED
    BY <2>1, EngineWork, GuestWork DEF TimerInv
<1>3. /\ TypeOK /\ TimerInv /\ UnstartedRetained /\ JobInv /\ [Next]_vars /\ P
      /\ <<EngineStep>>_vars
      => Q'
  <2> SUFFICES ASSUME TypeOK, TimerInv, UnstartedRetained, JobInv, [Next]_vars, P,
                      EngineStep, vars' # vars
               PROVE  Q'
    OBVIOUS
  <2> QED
    BY EngineWork DEF TimerInv
<1> QED
  BY <1>1, <1>2, <1>3, LoopTypeCorrect, LoopTimerInvariant, LoopJobs, LoopRunsQueue,
     MicrotaskInvariant, PTL DEF Spec, EngineRuns
=============================================================================
