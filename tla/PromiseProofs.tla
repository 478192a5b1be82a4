---------------------------- MODULE PromiseProofs ---------------------------
(***************************************************************************)
(* Promise for every set of values and every bound: what decides a promise *)
(* is unique and never lost, a reaction runs once, in order and with the   *)
(* outcome of its promise, and a settled promise is settled for ever.      *)
(*                                                                         *)
(* A handler of the code is a sequence of small moves (a job is taken, a   *)
(* pair is used up, a promise settles, ...) between which neither custody  *)
(* nor the derived promises are as the properties say: whoever runs has    *)
(* something in hand.  The invariant is therefore stated of the lists as   *)
(* arguments, with the promise h and the reaction d in hand (0 if none);   *)
(* each move has a lemma, and each action composes them.                   *)
(***************************************************************************)
EXTENDS Promise, SequenceTheorems, TLAPS

AllValues == Plain \cup Thenables \cup Nat

PromiseRecords ==
  [state : {"pending", "fulfilled", "rejected"}, result : AllValues, reactions : Seq(Nat)]

CellRecords == [promise : Nat, used : BOOLEAN, guest : BOOLEAN]

ReactionRecords == [on : Nat, cell : Nat, handles : SUBSET {"fulfilled", "rejected"}]

JobRecords ==
  [kind : {"reaction", "thenable"}, of : Nat,
   outcome : {"pending", "fulfilled", "rejected"}, arg : AllValues]

FrameRecords ==
  [kind : {"script", "callee", "get", "handler"}, cell : Nat, value : AllValues]

\* No position of the list s, or exactly one, holds a member of X.
None(s, X) == \A i \in DOMAIN s : s[i] \notin X

One(s, X) == \E i \in DOMAIN s : s[i] \in X /\ \A j \in DOMAIN s : s[j] \in X => j = i

\* The pairs, frames and jobs that custody and placement are about.
UnusedPairs(p) == {k \in CellRecords : k.promise = p /\ ~k.used}
Gets(C, p) == {f \in FrameRecords : f.kind = "get" /\ C[f.cell].promise = p}
Handlers(c) == {f \in FrameRecords : f.kind = "handler" /\ f.cell = c}
ThenableJobs(p) == {j \in JobRecords : j.kind = "thenable" /\ j.of = p}
ReactionJobs(r) == {j \in JobRecords : j.kind = "reaction" /\ j.of = r}
Lost(C, A, p) == {c \in A : C[c].promise = p /\ C[c].used}

-----------------------------------------------------------------------------
(* The parts of the invariant.  P, C, R, Q, S, B and A are the promises,    *)
(* pairs, reactions, queue, stack, started reactions and abandoned pairs.   *)

Lists(P, C, R, Q, S, B, A) ==
  /\ P \in Seq(PromiseRecords) /\ C \in Seq(CellRecords) /\ R \in Seq(ReactionRecords)
  /\ Q \in Seq(JobRecords) /\ S \in Seq(FrameRecords) /\ B \in Seq(Nat)
  /\ A \subseteq 1..Len(C)
  /\ Len(S) <= MaxDepth

\* The reactions that wait on a promise are of this promise, oldest first;
\* on a settled promise none waits.
PromisesOK(P, R) ==
  \A p \in 1..Len(P) :
    /\ P[p].result \in Plain \cup Thenables \cup 1..Len(P)
    /\ P[p].state # "pending" => P[p].reactions = <<>>
    /\ \A i \in DOMAIN P[p].reactions :
         P[p].reactions[i] \in 1..Len(R) /\ R[P[p].reactions[i]].on = p
    /\ \A i, j \in DOMAIN P[p].reactions :
         i < j => P[p].reactions[i] < P[p].reactions[j]

CellsOK(P, C) == \A c \in 1..Len(C) : C[c].promise \in 1..Len(P)

\* The pair of a derived promise belongs to one reaction and never to guest
\* code.
ReactionsOK(P, C, R) ==
  /\ \A r \in 1..Len(R) :
       /\ R[r].on \in 1..Len(P) /\ R[r].cell \in 1..Len(C)
       /\ ~C[R[r].cell].guest
  /\ \A r, q \in 1..Len(R) : R[r].cell = R[q].cell => r = q

QueueOK(P, R, Q) ==
  \A i \in DOMAIN Q :
    /\ Q[i].kind = "reaction" =>
         /\ Q[i].of \in 1..Len(R)
         /\ P[R[Q[i].of].on].state # "pending"
         /\ Q[i].outcome = P[R[Q[i].of].on].state
         /\ Q[i].arg = P[R[Q[i].of].on].result
    /\ Q[i].kind = "thenable" =>
         Q[i].of \in 1..Len(P) /\ Q[i].arg \in Thenables \cup 1..Len(P)

\* Code that was called with a pair may use it; a read of "then" has used its
\* pair; a handler lies at the bottom and has been started.
StackOK(P, C, R, S, B) ==
  \A i \in DOMAIN S :
    /\ S[i].value \in Plain \cup Thenables \cup 1..Len(P)
    /\ S[i].kind # "script" => S[i].cell \in 1..Len(C)
    /\ S[i].kind = "callee" => C[S[i].cell].guest
    /\ S[i].kind = "get" => C[S[i].cell].used /\ S[i].value \in Thenables \cup 1..Len(P)
    /\ S[i].kind = "handler" =>
         /\ i = Len(S)
         /\ \E r \in 1..Len(R) : R[r].cell = S[i].cell /\ ~None(B, {r})

StartedOK(P, R, B) ==
  \A i \in DOMAIN B : B[i] \in 1..Len(R) /\ P[R[B[i]].on].state # "pending"

\* An abandoned pair is used up, or is that of a reaction whose job is over.
AbandonedOK(C, R, S, B, A) ==
  \A c \in A : \/ C[c].used
               \/ /\ \E r \in 1..Len(R) : R[r].cell = c /\ ~None(B, {r})
                  /\ None(S, Handlers(c))

\* Nothing will decide p, nothing is about to and nothing has.
Free(P, C, Q, S, A, p) ==
  /\ None(C, UnusedPairs(p)) /\ None(S, Gets(C, p)) /\ None(Q, ThenableJobs(p))
  /\ P[p].state = "pending" /\ Lost(C, A, p) = {}

\* Promise p has one custodian.
Sole(P, C, Q, S, A, p) ==
  \/ /\ One(C, UnusedPairs(p)) /\ None(S, Gets(C, p)) /\ None(Q, ThenableJobs(p))
     /\ P[p].state = "pending" /\ Lost(C, A, p) = {}
  \/ /\ None(C, UnusedPairs(p)) /\ One(S, Gets(C, p)) /\ None(Q, ThenableJobs(p))
     /\ P[p].state = "pending" /\ Lost(C, A, p) = {}
  \/ /\ None(C, UnusedPairs(p)) /\ None(S, Gets(C, p)) /\ One(Q, ThenableJobs(p))
     /\ P[p].state = "pending" /\ Lost(C, A, p) = {}
  \/ /\ None(C, UnusedPairs(p)) /\ None(S, Gets(C, p)) /\ None(Q, ThenableJobs(p))
     /\ P[p].state # "pending" /\ Lost(C, A, p) = {}
  \/ /\ None(C, UnusedPairs(p)) /\ None(S, Gets(C, p)) /\ None(Q, ThenableJobs(p))
     /\ P[p].state = "pending" /\ \E c \in A : Lost(C, A, p) = {c}

Custody(P, C, Q, S, A, h) ==
  /\ h \in 0..Len(P)
  /\ \A p \in 1..Len(P) :
       IF p = h THEN Free(P, C, Q, S, A, p) ELSE Sole(P, C, Q, S, A, p)

\* A reaction waits on its promise, is queued, or has started.
Placed(P, R, Q, B) ==
  \A r \in 1..Len(R) :
    LET w == P[R[r].on].reactions IN
    \/ One(w, {r}) /\ None(Q, ReactionJobs(r)) /\ None(B, {r})
    \/ None(w, {r}) /\ One(Q, ReactionJobs(r)) /\ None(B, {r})
    \/ None(w, {r}) /\ None(Q, ReactionJobs(r)) /\ One(B, {r})

Derived(C, R, S, B, A, d) ==
  /\ d \in 0..Len(R)
  /\ \A r \in 1..Len(R) :
       LET c == R[r].cell IN
       IF r = d
       THEN ~None(B, {r}) /\ None(S, Handlers(c)) /\ ~C[c].used /\ c \notin A
       ELSE /\ C[c].used => ~None(B, {r}) /\ None(S, Handlers(c))
            /\ ~None(B, {r}) /\ None(S, Handlers(c)) => C[c].used \/ c \in A

Ordered(R, Q, B) ==
  /\ \A i, j \in DOMAIN B : i < j /\ R[B[i]].on = R[B[j]].on => B[i] < B[j]
  /\ \A i, j \in DOMAIN Q :
       /\ i < j /\ Q[i].kind = "reaction" /\ Q[j].kind = "reaction"
       /\ R[Q[i].of].on = R[Q[j].of].on
       => Q[i].of < Q[j].of
  /\ \A i \in DOMAIN B, j \in DOMAIN Q :
       Q[j].kind = "reaction" /\ R[B[i]].on = R[Q[j].of].on => B[i] < Q[j].of

(* The invariant of the lists, with promise h and reaction d in hand.       *)
InHand(P, C, R, Q, S, B, A, h, d) ==
  /\ Lists(P, C, R, Q, S, B, A)
  /\ PromisesOK(P, R)
  /\ CellsOK(P, C)
  /\ ReactionsOK(P, C, R)
  /\ QueueOK(P, R, Q)
  /\ StackOK(P, C, R, S, B)
  /\ StartedOK(P, R, B)
  /\ AbandonedOK(C, R, S, B, A)
  /\ Custody(P, C, Q, S, A, h)
  /\ Placed(P, R, Q, B)
  /\ Derived(C, R, S, B, A, d)
  /\ Ordered(R, Q, B)

(* The inductive invariant: between the code's handlers nothing is in hand. *)
PromiseInv == InHand(promise, cell, reaction, queue, stack, started, abandoned, 0, 0)

-----------------------------------------------------------------------------
(* Positions of a list.                                                     *)

\* Lists that agree position by position on what is looked for.
LEMMA SamePositions ==
  ASSUME NEW s, NEW t, NEW X, NEW Y, DOMAIN s = DOMAIN t,
         \A i \in DOMAIN s : s[i] \in X <=> t[i] \in Y
  PROVE  /\ None(s, X) <=> None(t, Y)
         /\ One(s, X) <=> One(t, Y)
<1>1. None(s, X) <=> None(t, Y)
  BY DEF None
<1>2. One(s, X) => One(t, Y)
  BY DEF One
<1>3. One(t, Y) => One(s, X)
  BY DEF One
<1> QED BY <1>1, <1>2, <1>3

\* A list has a position, exactly one, or none.
LEMMA NotBoth ==
  ASSUME NEW s, NEW X, One(s, X)
  PROVE  ~None(s, X)
BY DEF One, None

\* One element more, at the end.
LEMMA AppendEntries ==
  ASSUME NEW T, NEW s \in Seq(T), NEW e \in T
  PROVE  LET t == Append(s, e) IN
         /\ t \in Seq(T) /\ Len(t) = Len(s) + 1 /\ DOMAIN t = 1..(Len(s) + 1)
         /\ DOMAIN s = 1..Len(s) /\ Len(s) \in Nat
         /\ t[Len(s) + 1] = e /\ Len(s) + 1 \in DOMAIN t
         /\ \A i \in DOMAIN s : i \in DOMAIN t /\ t[i] = s[i] /\ i # Len(s) + 1
         /\ \A i \in DOMAIN t : i \in DOMAIN s \/ i = Len(s) + 1
OBVIOUS

LEMMA AppendPositions ==
  ASSUME NEW T, NEW s \in Seq(T), NEW e \in T, NEW X
  PROVE  /\ None(Append(s, e), X) <=> None(s, X) /\ e \notin X
         /\ e \notin X => (One(Append(s, e), X) <=> One(s, X))
         /\ e \in X /\ None(s, X) => One(Append(s, e), X)
<1> DEFINE t == Append(s, e)
<1>1. /\ t[Len(s) + 1] = e /\ Len(s) + 1 \in DOMAIN t
      /\ \A i \in DOMAIN s : i \in DOMAIN t /\ t[i] = s[i] /\ i # Len(s) + 1
      /\ \A i \in DOMAIN t : i \in DOMAIN s \/ i = Len(s) + 1
  BY AppendEntries
<1> HIDE DEF t
<1>2. None(t, X) <=> None(s, X) /\ e \notin X
  BY <1>1 DEF None
<1>3. ASSUME e \notin X, One(t, X) PROVE One(s, X)
  BY <1>1, <1>3 DEF One
<1>4. ASSUME e \notin X, One(s, X) PROVE One(t, X)
  BY <1>1, <1>4 DEF One
<1>5. ASSUME e \in X, None(s, X) PROVE One(t, X)
  BY <1>1, <1>5 DEF One, None
<1> QED BY <1>2, <1>3, <1>4, <1>5 DEF t

\* Lists put together.
LEMMA ConcatPositions ==
  ASSUME NEW T, NEW s \in Seq(T), NEW u \in Seq(T), NEW X
  PROVE  /\ None(s \o u, X) <=> None(s, X) /\ None(u, X)
         /\ None(u, X) => (One(s \o u, X) <=> One(s, X))
         /\ None(s, X) => (One(s \o u, X) <=> One(u, X))
<1> DEFINE t == s \o u
<1>1. /\ DOMAIN t = 1..(Len(s) + Len(u)) /\ DOMAIN s = 1..Len(s) /\ DOMAIN u = 1..Len(u)
      /\ Len(s) \in Nat /\ Len(u) \in Nat
      /\ \A i \in DOMAIN s : i \in DOMAIN t /\ t[i] = s[i]
  OBVIOUS
<1>2. \A i \in DOMAIN u : Len(s) + i \in DOMAIN t /\ t[Len(s) + i] = u[i]
  OBVIOUS
<1>3. \A i \in DOMAIN t : i \in DOMAIN s \/ \E j \in DOMAIN u : i = Len(s) + j
  <2> TAKE i \in DOMAIN t
  <2>1. i \in 1..(Len(s) + Len(u))
    BY <1>1
  <2>2. CASE i <= Len(s)
    BY <1>1, <2>1, <2>2
  <2>3. CASE i > Len(s)
    <3>1. i - Len(s) \in DOMAIN u /\ i = Len(s) + (i - Len(s))
      BY <1>1, <2>1, <2>3
    <3> QED BY <3>1
  <2> QED BY <1>1, <2>1, <2>2, <2>3
<1>4. \A i \in DOMAIN s, j \in DOMAIN u : i # Len(s) + j
  BY <1>1
<1>5. \A i, j \in DOMAIN u : Len(s) + i = Len(s) + j => i = j
  BY <1>1
<1> HIDE DEF t
<1>6. None(t, X) <=> None(s, X) /\ None(u, X)
  BY <1>1, <1>2, <1>3 DEF None
<1>7. ASSUME None(u, X), One(t, X) PROVE One(s, X)
  <2>1. PICK i \in DOMAIN t : t[i] \in X /\ \A j \in DOMAIN t : t[j] \in X => j = i
    BY <1>7 DEF One
  <2>2. i \in DOMAIN s
    BY <1>7, <1>2, <1>3, <2>1 DEF None
  <2> QED BY <1>1, <2>1, <2>2 DEF One
<1>8. ASSUME None(u, X), One(s, X) PROVE One(t, X)
  <2>1. PICK i \in DOMAIN s : s[i] \in X /\ \A j \in DOMAIN s : s[j] \in X => j = i
    BY <1>8 DEF One
  <2>2. \A j \in DOMAIN t : t[j] \in X => j = i
    BY <1>1, <1>2, <1>3, <1>8, <2>1 DEF None
  <2> QED BY <1>1, <2>1, <2>2 DEF One
<1>9. ASSUME None(s, X), One(t, X) PROVE One(u, X)
  <2>1. PICK i \in DOMAIN t : t[i] \in X /\ \A j \in DOMAIN t : t[j] \in X => j = i
    BY <1>9 DEF One
  <2>2. PICK k \in DOMAIN u : i = Len(s) + k
    BY <1>1, <1>3, <1>9, <2>1 DEF None
  <2>3. u[k] \in X /\ \A j \in DOMAIN u : u[j] \in X => j = k
    BY <1>2, <1>5, <2>1, <2>2
  <2> QED BY <2>3 DEF One
<1>10. ASSUME None(s, X), One(u, X) PROVE One(t, X)
  <2>1. PICK k \in DOMAIN u : u[k] \in X /\ \A j \in DOMAIN u : u[j] \in X => j = k
    BY <1>10 DEF One
  <2>2. Len(s) + k \in DOMAIN t /\ t[Len(s) + k] \in X
    BY <1>2, <2>1
  <2>3. \A j \in DOMAIN t : t[j] \in X => j = Len(s) + k
    BY <1>1, <1>2, <1>3, <1>10, <2>1 DEF None
  <2> QED BY <2>2, <2>3 DEF One
<1> QED BY <1>6, <1>7, <1>8, <1>9, <1>10 DEF t

\* A list of one element.
LEMMA SinglePosition ==
  ASSUME NEW e, NEW X
  PROVE  /\ None(<<e>>, X) <=> e \notin X
         /\ One(<<e>>, X) <=> e \in X
<1>1. DOMAIN <<e>> = {1} /\ <<e>>[1] = e
  OBVIOUS
<1> QED BY <1>1 DEF None, One

\* One element more, in front.
LEMMA PushPositions ==
  ASSUME NEW T, NEW s \in Seq(T), NEW e \in T, NEW X
  PROVE  /\ None(<<e>> \o s, X) <=> None(s, X) /\ e \notin X
         /\ e \notin X => (One(<<e>> \o s, X) <=> One(s, X))
         /\ e \in X /\ None(s, X) => One(<<e>> \o s, X)
         /\ e \in X /\ One(<<e>> \o s, X) => None(s, X)
<1>1. <<e>> \in Seq(T)
  OBVIOUS
<1>2. /\ None(<<e>> \o s, X) <=> None(<<e>>, X) /\ None(s, X)
      /\ None(s, X) => (One(<<e>> \o s, X) <=> One(<<e>>, X))
      /\ None(<<e>>, X) => (One(<<e>> \o s, X) <=> One(s, X))
  BY <1>1, ConcatPositions
<1>3. ASSUME e \in X, One(<<e>> \o s, X) PROVE None(s, X)
  <2> DEFINE t == <<e>> \o s
  <2>1. 1 \in DOMAIN t /\ t[1] = e
    OBVIOUS
  <2>2. \A i \in DOMAIN s : i + 1 \in DOMAIN t /\ t[i + 1] = s[i] /\ i + 1 # 1
    OBVIOUS
  <2> HIDE DEF t
  <2>3. One(t, X)
    BY <1>3 DEF t
  <2> QED BY <1>3, <2>1, <2>2, <2>3 DEF One, None
<1> QED BY <1>2, <1>3, SinglePosition

\* A list that is not empty is its head in front of its tail.
LEMMA HeadInFront ==
  ASSUME NEW T, NEW s \in Seq(T), s # <<>>
  PROVE  /\ Head(s) \in T /\ Tail(s) \in Seq(T)
         /\ s = <<Head(s)>> \o Tail(s)
         /\ Len(Tail(s)) = Len(s) - 1 /\ Len(s) \in Nat \ {0}
BY HeadTailProperties

\* One element less, at the front.
LEMMA PopPositions ==
  ASSUME NEW T, NEW s \in Seq(T), s # <<>>, NEW X
  PROVE  /\ None(s, X) <=> None(Tail(s), X) /\ Head(s) \notin X
         /\ Head(s) \notin X => (One(s, X) <=> One(Tail(s), X))
         /\ Head(s) \in X /\ One(s, X) => None(Tail(s), X)
<1>1. PICK e, t : e = Head(s) /\ t = Tail(s)
  OBVIOUS
<1>2. e \in T /\ t \in Seq(T) /\ s = <<e>> \o t
  BY <1>1, HeadInFront
<1>3. /\ None(<<e>> \o t, X) <=> None(t, X) /\ e \notin X
      /\ e \notin X => (One(<<e>> \o t, X) <=> One(t, X))
      /\ e \in X /\ One(<<e>> \o t, X) => None(t, X)
  BY <1>2, PushPositions
<1>4. None(s, X) = None(<<e>> \o t, X) /\ One(s, X) = One(<<e>> \o t, X)
  BY <1>2
<1> QED BY <1>1, <1>3, <1>4

-----------------------------------------------------------------------------
(* Moves of the stack.                                                      *)

\* What every entry of a typed list is.
LEMMA Entries ==
  ASSUME NEW P, NEW C, NEW R, NEW Q, NEW S, NEW B, NEW A, Lists(P, C, R, Q, S, B, A)
  PROVE  /\ DOMAIN P = 1..Len(P) /\ \A i \in 1..Len(P) : P[i] \in PromiseRecords
         /\ DOMAIN C = 1..Len(C) /\ \A i \in 1..Len(C) : C[i] \in CellRecords
         /\ DOMAIN R = 1..Len(R) /\ \A i \in 1..Len(R) : R[i] \in ReactionRecords
         /\ DOMAIN Q = 1..Len(Q) /\ \A i \in 1..Len(Q) : Q[i] \in JobRecords
         /\ DOMAIN S = 1..Len(S) /\ \A i \in 1..Len(S) : S[i] \in FrameRecords
         /\ DOMAIN B = 1..Len(B) /\ \A i \in 1..Len(B) : B[i] \in Nat
         /\ Len(P) \in Nat /\ Len(C) \in Nat /\ Len(R) \in Nat
         /\ Len(Q) \in Nat /\ Len(S) \in Nat /\ Len(B) \in Nat
BY DEF Lists

\* A handler that runs is the last frame of the stack.
LEMMA HandlerLast ==
  ASSUME NEW P, NEW C, NEW R, NEW S, NEW B, StackOK(P, C, R, S, B),
         NEW i \in DOMAIN S, S[i].kind = "handler"
  PROVE  i = Len(S)
BY DEF StackOK

\* The innermost frame is left.
LEMMA StackPop ==
  ASSUME NEW P, NEW C, NEW R, NEW Q, NEW S, NEW B, NEW A,
         Lists(P, C, R, Q, S, B, A), StackOK(P, C, R, S, B), AbandonedOK(C, R, S, B, A),
         S # <<>>
  PROVE  /\ Lists(P, C, R, Q, Tail(S), B, A) /\ Len(Tail(S)) < MaxDepth
         /\ StackOK(P, C, R, Tail(S), B) /\ AbandonedOK(C, R, Tail(S), B, A)
<1>1. S \in Seq(FrameRecords) /\ Len(S) <= MaxDepth /\ MaxDepth \in Nat
  BY PromiseAssumption DEF Lists
<1>2. Tail(S) \in Seq(FrameRecords) /\ Len(Tail(S)) = Len(S) - 1 /\ Len(S) \in Nat \ {0}
  BY <1>1, HeadInFront
<1>3. \A i \in DOMAIN Tail(S) : i + 1 \in DOMAIN S /\ Tail(S)[i] = S[i + 1]
  BY <1>1, HeadTailProperties
<1>4. StackOK(P, C, R, Tail(S), B)
  <2> PICK t : t = Tail(S)
    OBVIOUS
  <2>1. \A i \in DOMAIN t : i + 1 \in DOMAIN S /\ t[i] = S[i + 1]
    BY <1>3
  <2>2. \A i \in DOMAIN t : i + 1 = Len(S) => i = Len(t)
    BY <1>1, <1>2
  <2> SUFFICES ASSUME NEW i \in DOMAIN t
               PROVE  /\ t[i].value \in Plain \cup Thenables \cup 1..Len(P)
                      /\ t[i].kind # "script" => t[i].cell \in 1..Len(C)
                      /\ t[i].kind = "callee" => C[t[i].cell].guest
                      /\ t[i].kind = "get" => /\ C[t[i].cell].used
                                              /\ t[i].value \in Thenables \cup 1..Len(P)
                      /\ t[i].kind = "handler" =>
                           /\ i = Len(t)
                           /\ \E r \in 1..Len(R) : R[r].cell = t[i].cell /\ ~None(B, {r})
    BY DEF StackOK
  <2> PICK k \in DOMAIN S : k = i + 1 /\ t[i] = S[k]
    BY <2>1
  <2>3. k = Len(S) => i = Len(t)
    BY <2>2
  <2> QED BY <2>3 DEF StackOK
<1>5. AbandonedOK(C, R, Tail(S), B, A)
  <2>1. \A c : None(S, Handlers(c)) => None(Tail(S), Handlers(c))
    BY <1>1, PopPositions
  <2> QED BY <2>1 DEF AbandonedOK
<1> QED BY <1>1, <1>2, <1>4, <1>5 DEF Lists

\* Guest code is called: f is a frame as StackOK wants it.
LEMMA StackPush ==
  ASSUME NEW P, NEW C, NEW R, NEW Q, NEW S, NEW B, NEW A, NEW f \in FrameRecords,
         Lists(P, C, R, Q, S, B, A), StackOK(P, C, R, S, B), AbandonedOK(C, R, S, B, A),
         Len(S) < MaxDepth,
         f.value \in Plain \cup Thenables \cup 1..Len(P),
         f.kind # "script" => f.cell \in 1..Len(C),
         f.kind = "callee" => C[f.cell].guest,
         f.kind = "get" => C[f.cell].used /\ f.value \in Thenables \cup 1..Len(P),
         f.kind # "handler"
  PROVE  /\ Lists(P, C, R, Q, <<f>> \o S, B, A)
         /\ StackOK(P, C, R, <<f>> \o S, B) /\ AbandonedOK(C, R, <<f>> \o S, B, A)
<1>1. S \in Seq(FrameRecords) /\ Len(S) \in Nat /\ MaxDepth \in Nat
  BY PromiseAssumption DEF Lists
<1> PICK t : t = <<f>> \o S
  OBVIOUS
<1>2. t \in Seq(FrameRecords) /\ Len(t) = Len(S) + 1 /\ t[1] = f
  BY <1>1
<1>3. \A i \in DOMAIN t : i = 1 \/ \E k \in DOMAIN S : i = k + 1 /\ t[i] = S[k]
  <2> TAKE i \in DOMAIN t
  <2>1. i \in 1..(Len(S) + 1)
    BY <1>1
  <2>2. CASE i # 1
    <3>1. i - 1 \in DOMAIN S /\ i = (i - 1) + 1 /\ t[i] = S[i - 1]
      BY <1>1, <2>1, <2>2
    <3> QED BY <3>1
  <2> QED BY <2>2
<1>4. StackOK(P, C, R, t, B)
  <2> SUFFICES ASSUME NEW i \in DOMAIN t
               PROVE  /\ t[i].value \in Plain \cup Thenables \cup 1..Len(P)
                      /\ t[i].kind # "script" => t[i].cell \in 1..Len(C)
                      /\ t[i].kind = "callee" => C[t[i].cell].guest
                      /\ t[i].kind = "get" => /\ C[t[i].cell].used
                                              /\ t[i].value \in Thenables \cup 1..Len(P)
                      /\ t[i].kind = "handler" =>
                           /\ i = Len(t)
                           /\ \E r \in 1..Len(R) : R[r].cell = t[i].cell /\ ~None(B, {r})
    BY DEF StackOK
  <2>1. CASE i = 1
    BY <1>2, <2>1
  <2>2. CASE \E k \in DOMAIN S : i = k + 1 /\ t[i] = S[k]
    BY <1>1, <1>2, <2>2 DEF StackOK
  <2> QED BY <1>3, <2>1, <2>2
<1>5. AbandonedOK(C, R, t, B, A)
  <2>1. \A c : f \notin Handlers(c)
    BY DEF Handlers
  <2>2. \A c : None(S, Handlers(c)) => None(t, Handlers(c))
    BY <1>1, <2>1, PushPositions
  <2> QED BY <2>2 DEF AbandonedOK
<1> QED BY <1>1, <1>2, <1>4, <1>5 DEF Lists

\* A script, an executor or a `then' is called.
LEMMA PushCode ==
  ASSUME NEW P, NEW C, NEW R, NEW Q, NEW S, NEW B, NEW A, NEW h, NEW d,
         InHand(P, C, R, Q, S, B, A, h, d),
         NEW f \in FrameRecords, f.kind \in {"script", "callee"},
         f.kind = "callee" => f.cell \in 1..Len(C) /\ C[f.cell].guest,
         f.value \in Plain, Len(S) < MaxDepth
  PROVE  InHand(P, C, R, Q, <<f>> \o S, B, A, h, d)
<1> PICK t : t = <<f>> \o S
  OBVIOUS
<1>1. Lists(P, C, R, Q, t, B, A) /\ StackOK(P, C, R, t, B) /\ AbandonedOK(C, R, t, B, A)
  BY StackPush DEF InHand
<1>2. \A p : f \notin Gets(C, p)
  BY DEF Gets
<1>3. \A c : f \notin Handlers(c)
  BY DEF Handlers
<1>4. S \in Seq(FrameRecords)
  BY DEF InHand, Lists
<1>5. \A p : /\ None(t, Gets(C, p)) <=> None(S, Gets(C, p))
             /\ One(t, Gets(C, p)) <=> One(S, Gets(C, p))
  BY <1>2, <1>4, PushPositions
<1>6. \A c : None(t, Handlers(c)) <=> None(S, Handlers(c))
  BY <1>3, <1>4, PushPositions
<1>7. Custody(P, C, Q, t, A, h)
  BY <1>5 DEF InHand, Custody, Sole, Free
<1>8. Derived(C, R, t, B, A, d)
  BY <1>6 DEF InHand, Derived
<1> QED BY <1>1, <1>7, <1>8 DEF InHand

\* It returns or throws.
LEMMA PopCode ==
  ASSUME NEW P, NEW C, NEW R, NEW Q, NEW S, NEW B, NEW A, NEW h, NEW d,
         InHand(P, C, R, Q, S, B, A, h, d),
         S # <<>>, Head(S).kind \in {"script", "callee"}
  PROVE  InHand(P, C, R, Q, Tail(S), B, A, h, d)
<1> PICK t : t = Tail(S)
  OBVIOUS
<1>1. Lists(P, C, R, Q, t, B, A) /\ StackOK(P, C, R, t, B) /\ AbandonedOK(C, R, t, B, A)
  BY StackPop DEF InHand
<1>2. \A p : Head(S) \notin Gets(C, p)
  BY DEF Gets
<1>3. \A c : Head(S) \notin Handlers(c)
  BY DEF Handlers
<1>4. S \in Seq(FrameRecords)
  BY DEF InHand, Lists
<1>5. \A p : /\ None(t, Gets(C, p)) <=> None(S, Gets(C, p))
             /\ One(t, Gets(C, p)) <=> One(S, Gets(C, p))
  BY <1>2, <1>4, PopPositions
<1>6. \A c : None(t, Handlers(c)) <=> None(S, Handlers(c))
  BY <1>3, <1>4, PopPositions
<1>7. Custody(P, C, Q, t, A, h)
  BY <1>5 DEF InHand, Custody, Sole, Free
<1>8. Derived(C, R, t, B, A, d)
  BY <1>6 DEF InHand, Derived
<1> QED BY <1>1, <1>7, <1>8 DEF InHand

-----------------------------------------------------------------------------
(* Moves of a pair and of its promise.                                      *)

\* Reads of "then" are found by the promise of their pair, so lists of pairs
\* that agree on promises agree on the reads.
LEMMA SameGets ==
  ASSUME NEW P, NEW C, NEW D, NEW R, NEW S, NEW B, NEW p,
         S \in Seq(FrameRecords), StackOK(P, C, R, S, B),
         \A c \in 1..Len(C) : D[c].promise = C[c].promise
  PROVE  /\ None(S, Gets(C, p)) <=> None(S, Gets(D, p))
         /\ One(S, Gets(C, p)) <=> One(S, Gets(D, p))
<1>1. \A i \in DOMAIN S : S[i].kind = "get" => S[i].cell \in 1..Len(C)
  BY DEF StackOK
<1>2. \A i \in DOMAIN S : S[i] \in Gets(C, p) <=> S[i] \in Gets(D, p)
  BY <1>1 DEF Gets
<1> QED BY <1>2, SamePositions

\* What Derived says of one reaction.
LEMMA DerivedInHand ==
  ASSUME NEW C, NEW R, NEW S, NEW B, NEW A, NEW d, Derived(C, R, S, B, A, d), d # 0,
         Len(R) \in Nat
  PROVE  /\ d \in 1..Len(R)
         /\ ~None(B, {d}) /\ None(S, Handlers(R[d].cell))
         /\ ~C[R[d].cell].used /\ R[d].cell \notin A
<1>1. d \in 1..Len(R)
  BY DEF Derived
<1> QED BY <1>1 DEF Derived

LEMMA DerivedElse ==
  ASSUME NEW C, NEW R, NEW S, NEW B, NEW A, NEW d, Derived(C, R, S, B, A, d),
         NEW r \in 1..Len(R), r # d
  PROVE  /\ C[R[r].cell].used => ~None(B, {r}) /\ None(S, Handlers(R[r].cell))
         /\ ~None(B, {r}) /\ None(S, Handlers(R[r].cell)) =>
              C[R[r].cell].used \/ R[r].cell \in A
BY DEF Derived

\* The pair c is used up: by guest code that has it, or by the reaction in
\* hand.  The promise of the pair is now in hand.
LEMMA Commit ==
  ASSUME NEW P, NEW C, NEW R, NEW Q, NEW S, NEW B, NEW A, NEW d,
         InHand(P, C, R, Q, S, B, A, 0, d),
         NEW c \in 1..Len(C), ~C[c].used,
         \/ C[c].guest /\ d = 0
         \/ d # 0 /\ R[d].cell = c
  PROVE  InHand(P, [C EXCEPT ![c].used = TRUE], R, Q, S, B, A, C[c].promise, 0)
<1> DEFINE D == [C EXCEPT ![c].used = TRUE]
<1>1. /\ Lists(P, C, R, Q, S, B, A) /\ PromisesOK(P, R) /\ CellsOK(P, C)
      /\ ReactionsOK(P, C, R) /\ QueueOK(P, R, Q) /\ StackOK(P, C, R, S, B)
      /\ StartedOK(P, R, B) /\ AbandonedOK(C, R, S, B, A) /\ Custody(P, C, Q, S, A, 0)
      /\ Placed(P, R, Q, B) /\ Derived(C, R, S, B, A, d) /\ Ordered(R, Q, B)
  BY DEF InHand
<1>2. /\ C \in Seq(CellRecords) /\ \A i \in 1..Len(C) : C[i] \in CellRecords
      /\ DOMAIN C = 1..Len(C) /\ Len(R) \in Nat /\ Len(P) \in Nat
  BY <1>1, Entries DEF Lists
<1>3. /\ D \in Seq(CellRecords) /\ Len(D) = Len(C)
      /\ \A i \in 1..Len(C) : D[i].promise = C[i].promise /\ D[i].guest = C[i].guest
      /\ \A i \in 1..Len(C) : i # c => D[i] = C[i]
      /\ D[c].used
  <2> DEFINE u == [C[c] EXCEPT !.used = TRUE]
  <2>1. D = [C EXCEPT ![c] = u]
    OBVIOUS
  <2>2. PICK k \in CellRecords : k = C[c]
    BY <1>2
  <2>3. LET v == [k EXCEPT !.used = TRUE]
        IN  v \in CellRecords /\ v.promise = k.promise /\ v.guest = k.guest /\ v.used
    BY DEF CellRecords
  <2>4. u \in CellRecords /\ u.promise = C[c].promise /\ u.guest = C[c].guest /\ u.used
    BY <2>2, <2>3
  <2> HIDE DEF u, D
  <2> QED BY <1>2, <2>1, <2>4
<1>4. \A i \in 1..Len(C) : D[i].used <=> C[i].used \/ i = c
  BY <1>3
<1> HIDE DEF D
<1>5. c \notin A
  <2>1. CASE C[c].guest /\ d = 0
    BY <1>1, <2>1 DEF AbandonedOK, ReactionsOK
  <2>2. CASE d # 0 /\ R[d].cell = c
    BY <1>1, <1>2, <2>2, DerivedInHand
  <2> QED BY <2>1, <2>2
<1>6. Lists(P, D, R, Q, S, B, A) /\ CellsOK(P, D) /\ ReactionsOK(P, D, R)
  BY <1>1, <1>3 DEF Lists, CellsOK, ReactionsOK
<1>7. StackOK(P, D, R, S, B)
  BY <1>1, <1>3, <1>4 DEF StackOK
<1>8. AbandonedOK(D, R, S, B, A)
  BY <1>1, <1>4 DEF AbandonedOK, Lists
<1>9. Derived(D, R, S, B, A, 0)
  <2>1. 0 \in 0..Len(R)
    BY <1>2
  <2> SUFFICES ASSUME NEW r \in 1..Len(R)
               PROVE  /\ r # 0
                      /\ D[R[r].cell].used => ~None(B, {r}) /\ None(S, Handlers(R[r].cell))
                      /\ ~None(B, {r}) /\ None(S, Handlers(R[r].cell)) =>
                           D[R[r].cell].used \/ R[r].cell \in A
    BY <2>1 DEF Derived
  <2>2. R[r].cell \in 1..Len(C) /\ ~C[R[r].cell].guest
    BY <1>1 DEF ReactionsOK
  <2>3. CASE R[r].cell # c
    <3>1. r # d
      BY <2>2, <2>3
    <3>2. /\ C[R[r].cell].used => ~None(B, {r}) /\ None(S, Handlers(R[r].cell))
          /\ ~None(B, {r}) /\ None(S, Handlers(R[r].cell)) =>
               C[R[r].cell].used \/ R[r].cell \in A
      BY <1>1, <3>1, DerivedElse
    <3>3. D[R[r].cell].used <=> C[R[r].cell].used
      BY <1>4, <2>2, <2>3
    <3> QED BY <1>2, <3>2, <3>3
  <2>4. CASE R[r].cell = c
    <3>1. d # 0 /\ R[d].cell = c /\ d \in 1..Len(R)
      BY <1>1, <1>2, <2>2, <2>4, DerivedInHand
    <3>2. r = d
      BY <1>1, <2>4, <3>1 DEF ReactionsOK
    <3>3. ~None(B, {d}) /\ None(S, Handlers(R[d].cell))
      BY <1>1, <1>2, <3>1, DerivedInHand
    <3> QED BY <1>2, <1>3, <2>4, <3>2, <3>3
  <2> QED BY <2>3, <2>4
<1>10. Custody(P, D, Q, S, A, C[c].promise)
  <2>1. C[c].promise \in 1..Len(P)
    BY <1>1 DEF CellsOK
  <2>2. \A p : /\ None(S, Gets(C, p)) <=> None(S, Gets(D, p))
               /\ One(S, Gets(C, p)) <=> One(S, Gets(D, p))
    BY <1>1, <1>3, SameGets DEF Lists
  <2>3. \A p : Lost(D, A, p) = Lost(C, A, p)
    BY <1>1, <1>3, <1>4, <1>5 DEF Lost, Lists
  <2>4. \A p \in 1..Len(P) : p # C[c].promise =>
          /\ None(C, UnusedPairs(p)) <=> None(D, UnusedPairs(p))
          /\ One(C, UnusedPairs(p)) <=> One(D, UnusedPairs(p))
    <3> TAKE p \in 1..Len(P)
    <3> HAVE p # C[c].promise
    <3>1. DOMAIN C = DOMAIN D
      BY <1>2, <1>3
    <3>2. \A i \in DOMAIN C : C[i] \in UnusedPairs(p) <=> D[i] \in UnusedPairs(p)
      BY <1>2, <1>3 DEF UnusedPairs
    <3> QED BY <3>1, <3>2, SamePositions
  <2>5. ~None(C, UnusedPairs(C[c].promise))
    BY <1>2 DEF None, UnusedPairs
  <2>6. Sole(P, C, Q, S, A, C[c].promise)
    BY <1>1, <2>1 DEF Custody
  <2>7. One(C, UnusedPairs(C[c].promise))
    BY <2>5, <2>6 DEF Sole
  <2>8. None(D, UnusedPairs(C[c].promise))
    <3>1. \A i \in DOMAIN C : C[i] \in UnusedPairs(C[c].promise) => i = c
      <4>1. C[c] \in UnusedPairs(C[c].promise)
        BY <1>2 DEF UnusedPairs
      <4> QED BY <1>2, <2>7, <4>1 DEF One
    <3>2. \A i \in DOMAIN D : D[i] \notin UnusedPairs(C[c].promise)
      <4> SUFFICES ASSUME NEW i \in DOMAIN D PROVE D[i] \notin UnusedPairs(C[c].promise)
        OBVIOUS
      <4>1. CASE i = c
        BY <1>3, <4>1 DEF UnusedPairs
      <4>2. CASE i # c
        BY <1>2, <1>3, <3>1, <4>2
      <4> QED BY <4>1, <4>2
    <3> QED BY <3>2 DEF None
  <2>9. Free(P, D, Q, S, A, C[c].promise)
    BY <2>2, <2>3, <2>5, <2>6, <2>8 DEF Sole, Free
  <2>10. \A p \in 1..Len(P) : p # C[c].promise => Sole(P, D, Q, S, A, p)
    <3> TAKE p \in 1..Len(P)
    <3> HAVE p # C[c].promise
    <3>1. Sole(P, C, Q, S, A, p)
      BY <1>1 DEF Custody
    <3> QED BY <2>2, <2>3, <2>4, <3>1 DEF Sole
  <2> QED BY <1>2, <2>1, <2>9, <2>10 DEF Custody
<1> QED BY <1>1, <1>6, <1>7, <1>8, <1>9, <1>10 DEF InHand, D

\* What the parts of the invariant say of what a settled promise is not.
LEMMA PendingUntouched ==
  ASSUME NEW P, NEW R, NEW Q, NEW B, NEW h, P[h].state = "pending",
         QueueOK(P, R, Q), StartedOK(P, R, B)
  PROVE  /\ \A i \in DOMAIN Q : Q[i].kind = "reaction" => R[Q[i].of].on # h
         /\ \A i \in DOMAIN B : R[B[i]].on # h
<1>1. \A i \in DOMAIN Q : Q[i].kind = "reaction" => P[R[Q[i].of].on].state # "pending"
  BY DEF QueueOK
<1>2. \A i \in DOMAIN B : P[R[B[i]].on].state # "pending"
  BY DEF StartedOK
<1> QED BY <1>1, <1>2

\* The promise in hand settles: every reaction that waits on it becomes a job.
LEMMA SettleHeld ==
  ASSUME NEW P, NEW C, NEW R, NEW Q, NEW S, NEW B, NEW A, NEW h, NEW d,
         InHand(P, C, R, Q, S, B, A, h, d), h # 0,
         NEW o \in {"fulfilled", "rejected"},
         NEW v \in Plain \cup Thenables \cup 1..Len(P)
  PROVE  /\ P[h].state = "pending"
         /\ InHand([P EXCEPT ![h] = [state |-> o, result |-> v, reactions |-> <<>>]], C, R,
                   Q \o [i \in DOMAIN P[h].reactions |->
                           ReactionJob(P[h].reactions[i], o, v)],
                   S, B, A, 0, d)
<1> DEFINE n == [state |-> o, result |-> v, reactions |-> <<>>]
           N == [P EXCEPT ![h] = n]
           w == P[h].reactions
           M == [i \in DOMAIN w |-> ReactionJob(w[i], o, v)]
           K == Q \o M
<1>1. /\ Lists(P, C, R, Q, S, B, A) /\ PromisesOK(P, R) /\ CellsOK(P, C)
      /\ ReactionsOK(P, C, R) /\ QueueOK(P, R, Q) /\ StackOK(P, C, R, S, B)
      /\ StartedOK(P, R, B) /\ AbandonedOK(C, R, S, B, A) /\ Custody(P, C, Q, S, A, h)
      /\ Placed(P, R, Q, B) /\ Derived(C, R, S, B, A, d) /\ Ordered(R, Q, B)
  BY DEF InHand
<1>2. /\ P \in Seq(PromiseRecords) /\ Q \in Seq(JobRecords)
      /\ Len(P) \in Nat /\ Len(Q) \in Nat /\ DOMAIN P = 1..Len(P) /\ DOMAIN Q = 1..Len(Q)
      /\ Len(R) \in Nat /\ \A i \in 1..Len(Q) : Q[i] \in JobRecords
  BY <1>1, Entries DEF Lists
<1>3. h \in 1..Len(P) /\ Free(P, C, Q, S, A, h)
  BY <1>1, <1>2 DEF Custody
<1>4. P[h].state = "pending"
  BY <1>3 DEF Free
<1>5. w \in Seq(Nat)
  BY <1>1, <1>3, Entries DEF PromiseRecords
<1>6. v \in AllValues
  BY <1>2 DEF AllValues
<1>7. /\ N \in Seq(PromiseRecords) /\ Len(N) = Len(P) /\ N[h] = n
      /\ \A p \in 1..Len(P) : p # h => N[p] = P[p]
  <2>1. n \in PromiseRecords
    BY <1>6 DEF PromiseRecords
  <2> HIDE DEF n
  <2> QED BY <1>2, <1>3, <2>1
<1>8. n.state = o /\ n.result = v /\ n.reactions = <<>> /\ DOMAIN n.reactions = {}
  OBVIOUS
<1>9. /\ M \in Seq(JobRecords) /\ DOMAIN M = DOMAIN w /\ Len(M) = Len(w) /\ Len(w) \in Nat
      /\ DOMAIN w = 1..Len(w)
      /\ \A i \in DOMAIN w : M[i] \in JobRecords /\ M[i] = ReactionJob(w[i], o, v)
  <2>1. \A i \in DOMAIN w : ReactionJob(w[i], o, v) \in JobRecords
    BY <1>5, <1>6 DEF ReactionJob, JobRecords
  <2> HIDE DEF w
  <2> QED BY <1>5, <2>1
<1>10. \A i \in DOMAIN w : /\ M[i].kind = "reaction" /\ M[i].of = w[i]
                           /\ M[i].outcome = o /\ M[i].arg = v
  BY <1>9 DEF ReactionJob
<1> HIDE DEF M, N, n
<1>11. /\ K \in Seq(JobRecords)
       /\ DOMAIN K = 1..(Len(Q) + Len(w))
       /\ \A i \in DOMAIN Q : K[i] = Q[i]
       /\ \A k \in DOMAIN w : K[Len(Q) + k] = M[k]
  <2>1. Q \in Seq(JobRecords) /\ M \in Seq(JobRecords) /\ Len(M) = Len(w)
    BY <1>2, <1>9
  <2>2. K \in Seq(JobRecords) /\ DOMAIN K = 1..(Len(Q) + Len(w))
    BY <2>1, SMTT(30)
  <2>3. \A i \in DOMAIN Q : K[i] = Q[i]
    BY <2>1
  <2>4. \A k \in DOMAIN w : k \in 1..Len(M)
    BY <1>9
  <2>5. \A k \in 1..Len(M) : K[Len(Q) + k] = M[k]
    BY <2>1
  <2> HIDE DEF K
  <2> QED BY <2>2, <2>3, <2>4, <2>5
<1>12. \A i \in DOMAIN K : i \in DOMAIN Q \/ \E k \in DOMAIN w : i = Len(Q) + k
  <2> TAKE i \in DOMAIN K
  <2>1. i \in 1..(Len(Q) + Len(w))
    BY <1>11
  <2>2. CASE i <= Len(Q)
    BY <1>2, <2>1, <2>2
  <2>3. CASE i > Len(Q)
    <3>1. i - Len(Q) \in DOMAIN w /\ i = Len(Q) + (i - Len(Q))
      BY <1>2, <1>9, <2>1, <2>3, SMTT(30)
    <3> QED BY <3>1
  <2> QED BY <1>2, <2>1, <2>2, <2>3
<1>13. \A i \in DOMAIN w : w[i] \in 1..Len(R) /\ R[w[i]].on = h
  BY <1>1, <1>3 DEF PromisesOK
<1>14. \A i, j \in DOMAIN w : i < j => w[i] < w[j]
  BY <1>1, <1>3 DEF PromisesOK
<1>15. /\ \A i \in DOMAIN Q : Q[i].kind = "reaction" => R[Q[i].of].on # h
       /\ \A i \in DOMAIN B : R[B[i]].on # h
  BY <1>1, <1>4, PendingUntouched
<1> HIDE DEF w
<1>16. Lists(N, C, R, K, S, B, A) /\ CellsOK(N, C) /\ ReactionsOK(N, C, R)
       /\ StackOK(N, C, R, S, B)
  BY <1>1, <1>7, <1>11 DEF Lists, CellsOK, ReactionsOK, StackOK
<1>17. PromisesOK(N, R)
  <2> SUFFICES ASSUME NEW p \in 1..Len(P)
               PROVE  /\ N[p].result \in Plain \cup Thenables \cup 1..Len(P)
                      /\ N[p].state # "pending" => N[p].reactions = <<>>
                      /\ \A i \in DOMAIN N[p].reactions :
                           /\ N[p].reactions[i] \in 1..Len(R)
                           /\ R[N[p].reactions[i]].on = p
                      /\ \A i, j \in DOMAIN N[p].reactions :
                           i < j => N[p].reactions[i] < N[p].reactions[j]
    BY <1>7 DEF PromisesOK
  <2>1. CASE p = h
    BY <1>7, <1>8, <2>1
  <2>2. CASE p # h
    <3>1. N[p] = P[p]
      BY <1>7, <2>2
    <3> QED BY <1>1, <3>1 DEF PromisesOK
  <2> QED BY <2>1, <2>2
<1>18. QueueOK(N, R, K)
  <2> SUFFICES ASSUME NEW i \in DOMAIN K
               PROVE  /\ K[i].kind = "reaction" =>
                           /\ K[i].of \in 1..Len(R)
                           /\ N[R[K[i].of].on].state # "pending"
                           /\ K[i].outcome = N[R[K[i].of].on].state
                           /\ K[i].arg = N[R[K[i].of].on].result
                      /\ K[i].kind = "thenable" =>
                           K[i].of \in 1..Len(P) /\ K[i].arg \in Thenables \cup 1..Len(P)
    BY <1>7 DEF QueueOK
  <2>1. CASE i \in DOMAIN Q
    <3>1. K[i] = Q[i]
      BY <1>11, <2>1
    <3>2. Q[i].kind = "thenable" =>
            Q[i].of \in 1..Len(P) /\ Q[i].arg \in Thenables \cup 1..Len(P)
      BY <1>1, <2>1 DEF QueueOK
    <3>3. ASSUME Q[i].kind = "reaction"
          PROVE  /\ Q[i].of \in 1..Len(R)
                 /\ N[R[Q[i].of].on].state # "pending"
                 /\ Q[i].outcome = N[R[Q[i].of].on].state
                 /\ Q[i].arg = N[R[Q[i].of].on].result
      <4>1. Q[i].of \in 1..Len(R) /\ R[Q[i].of].on # h
        BY <1>1, <1>15, <2>1, <3>3 DEF QueueOK
      <4>2. N[R[Q[i].of].on] = P[R[Q[i].of].on]
        BY <1>1, <1>7, <4>1 DEF ReactionsOK
      <4> QED BY <1>1, <2>1, <3>3, <4>1, <4>2 DEF QueueOK
    <3> QED BY <3>1, <3>2, <3>3
  <2>2. CASE \E k \in DOMAIN w : i = Len(Q) + k
    <3>1. PICK k \in DOMAIN w : i = Len(Q) + k
      BY <2>2
    <3>2. K[i] = M[k] /\ R[w[k]].on = h /\ w[k] \in 1..Len(R)
      BY <1>11, <1>13, <3>1
    <3> QED BY <1>7, <1>8, <1>10, <3>1, <3>2, SMTT(30)
  <2> QED BY <1>12, <2>1, <2>2
<1>19. StartedOK(N, R, B)
  <2> SUFFICES ASSUME NEW i \in DOMAIN B
               PROVE  B[i] \in 1..Len(R) /\ N[R[B[i]].on].state # "pending"
    BY DEF StartedOK
  <2>1. B[i] \in 1..Len(R) /\ P[R[B[i]].on].state # "pending" /\ R[B[i]].on # h
    BY <1>1, <1>15 DEF StartedOK
  <2>2. N[R[B[i]].on] = P[R[B[i]].on]
    BY <1>1, <1>7, <2>1 DEF ReactionsOK
  <2> QED BY <2>1, <2>2
<1>20. Custody(N, C, K, S, A, 0)
  <2>1. \A p : None(M, ThenableJobs(p))
    BY <1>9, <1>10 DEF None, ThenableJobs
  <2>2. \A p : /\ None(K, ThenableJobs(p)) <=> None(Q, ThenableJobs(p))
               /\ One(K, ThenableJobs(p)) <=> One(Q, ThenableJobs(p))
    BY <1>2, <1>9, <2>1, ConcatPositions
  <2>3. Sole(N, C, K, S, A, h)
    BY <1>3, <1>7, <1>8, <2>2 DEF Free, Sole
  <2>4. \A p \in 1..Len(P) : p # h => Sole(N, C, K, S, A, p)
    <3> TAKE p \in 1..Len(P)
    <3> HAVE p # h
    <3>1. Sole(P, C, Q, S, A, p) /\ N[p] = P[p]
      BY <1>1, <1>7 DEF Custody
    <3> QED BY <2>2, <3>1 DEF Sole
  <2> QED BY <1>2, <1>7, <2>3, <2>4 DEF Custody
<1>21. Placed(N, R, K, B)
  <2> SUFFICES ASSUME NEW r \in 1..Len(R)
               PROVE  LET u == N[R[r].on].reactions IN
                      \/ One(u, {r}) /\ None(K, ReactionJobs(r)) /\ None(B, {r})
                      \/ None(u, {r}) /\ One(K, ReactionJobs(r)) /\ None(B, {r})
                      \/ None(u, {r}) /\ None(K, ReactionJobs(r)) /\ One(B, {r})
    BY DEF Placed
  <2>1. CASE R[r].on = h
    <3>1. None(Q, ReactionJobs(r)) /\ None(B, {r})
      BY <1>15, <2>1 DEF None, ReactionJobs
    <3>2. One(w, {r})
      BY <1>1, <2>1, <3>1, NotBoth DEF Placed, w
    <3>3. \A i \in DOMAIN w : w[i] \in {r} <=> M[i] \in ReactionJobs(r)
      BY <1>9, <1>10 DEF ReactionJobs
    <3>4. One(M, ReactionJobs(r))
      BY <1>9, <3>2, <3>3, SamePositions
    <3>5. One(K, ReactionJobs(r))
      BY <1>2, <1>9, <3>1, <3>4, ConcatPositions
    <3>6. None(N[R[r].on].reactions, {r})
      BY <1>7, <1>8, <2>1 DEF None
    <3> QED BY <3>1, <3>5, <3>6
  <2>2. CASE R[r].on # h
    <3>1. None(M, ReactionJobs(r))
      BY <1>9, <1>10, <1>13, <2>2 DEF None, ReactionJobs
    <3>2. /\ None(K, ReactionJobs(r)) <=> None(Q, ReactionJobs(r))
          /\ One(K, ReactionJobs(r)) <=> One(Q, ReactionJobs(r))
      BY <1>2, <1>9, <3>1, ConcatPositions
    <3>3. N[R[r].on] = P[R[r].on]
      BY <1>1, <1>7, <2>2 DEF ReactionsOK
    <3> QED BY <1>1, <3>2, <3>3 DEF Placed
  <2> QED BY <2>1, <2>2
<1>22. Ordered(R, K, B)
  <2>1. \A i, j \in DOMAIN B : i < j /\ R[B[i]].on = R[B[j]].on => B[i] < B[j]
    BY <1>1 DEF Ordered
  <2>2. ASSUME NEW i \in DOMAIN K, NEW j \in DOMAIN K, i < j,
               K[i].kind = "reaction", K[j].kind = "reaction",
               R[K[i].of].on = R[K[j].of].on
        PROVE  K[i].of < K[j].of
    <3>1. CASE i \in DOMAIN Q /\ j \in DOMAIN Q
      BY <1>1, <1>11, <2>2, <3>1 DEF Ordered
    <3>2. CASE i \in DOMAIN Q /\ \E l \in DOMAIN w : j = Len(Q) + l
      <4>1. PICK l \in DOMAIN w : j = Len(Q) + l
        BY <3>2
      <4>2. R[K[j].of].on = h
        BY <1>10, <1>11, <1>13, <4>1, SMTT(30)
      <4> QED BY <1>11, <1>15, <2>2, <3>2, <4>2
    <3>3. CASE (\E k \in DOMAIN w : i = Len(Q) + k) /\ j \in DOMAIN Q
      <4>1. PICK k \in DOMAIN w : i = Len(Q) + k
        BY <3>3
      <4>2. i > j
        BY <1>2, <1>9, <3>3, <4>1
      <4> QED BY <1>2, <1>9, <2>2, <3>3, <4>1
    <3>4. CASE (\E k \in DOMAIN w : i = Len(Q) + k) /\ \E l \in DOMAIN w : j = Len(Q) + l
      <4>1. PICK k \in DOMAIN w, l \in DOMAIN w : i = Len(Q) + k /\ j = Len(Q) + l
        BY <3>4
      <4>2. k < l
        BY <1>2, <1>9, <2>2, <4>1
      <4> QED BY <1>10, <1>11, <1>14, <4>1, <4>2, SMTT(30)
    <3> QED BY <1>12, <3>1, <3>2, <3>3, <3>4
  <2>3. ASSUME NEW i \in DOMAIN B, NEW j \in DOMAIN K, K[j].kind = "reaction",
               R[B[i]].on = R[K[j].of].on
        PROVE  B[i] < K[j].of
    <3>1. CASE j \in DOMAIN Q
      BY <1>1, <1>11, <2>3, <3>1 DEF Ordered
    <3>2. CASE \E l \in DOMAIN w : j = Len(Q) + l
      <4>1. PICK l \in DOMAIN w : j = Len(Q) + l
        BY <3>2
      <4>2. R[K[j].of].on = h
        BY <1>10, <1>11, <1>13, <4>1, SMTT(30)
      <4> QED BY <1>15, <2>3, <4>2
    <3> QED BY <1>12, <3>1, <3>2
  <2> QED BY <2>1, <2>2, <2>3 DEF Ordered
<1>23. InHand(N, C, R, K, S, B, A, 0, d)
  BY <1>1, <1>16, <1>17, <1>18, <1>19, <1>20, <1>21, <1>22 DEF InHand
<1> QED BY <1>4, <1>23 DEF N, n, K, M, w

\* The read of "then" begins: the promise in hand is left to it.
LEMMA PushGet ==
  ASSUME NEW P, NEW C, NEW R, NEW Q, NEW S, NEW B, NEW A, NEW h, NEW d,
         InHand(P, C, R, Q, S, B, A, h, d), h # 0,
         NEW c \in 1..Len(C), C[c].used, C[c].promise = h,
         NEW v \in Thenables \cup 1..Len(P), Len(S) < MaxDepth
  PROVE  InHand(P, C, R, Q, <<Frame("get", c, v)>> \o S, B, A, 0, d)
<1> PICK f, t : f = Frame("get", c, v) /\ t = <<f>> \o S
  OBVIOUS
<1>1. Len(C) \in Nat /\ Len(P) \in Nat /\ S \in Seq(FrameRecords)
  BY Entries DEF InHand, Lists
<1>2. f \in FrameRecords /\ f.kind = "get" /\ f.cell = c /\ f.value = v
  BY <1>1 DEF Frame, FrameRecords, AllValues
<1>3. Lists(P, C, R, Q, t, B, A) /\ StackOK(P, C, R, t, B) /\ AbandonedOK(C, R, t, B, A)
  <2>1. Lists(P, C, R, Q, S, B, A) /\ StackOK(P, C, R, S, B) /\ AbandonedOK(C, R, S, B, A)
    BY DEF InHand
  <2>2. /\ f.value \in Plain \cup Thenables \cup 1..Len(P)
        /\ f.kind # "script" => f.cell \in 1..Len(C)
        /\ f.kind = "callee" => C[f.cell].guest
        /\ f.kind = "get" => C[f.cell].used /\ f.value \in Thenables \cup 1..Len(P)
        /\ f.kind # "handler"
    BY <1>2
  <2>3. /\ Lists(P, C, R, Q, <<f>> \o S, B, A)
        /\ StackOK(P, C, R, <<f>> \o S, B) /\ AbandonedOK(C, R, <<f>> \o S, B, A)
    BY <1>2, <2>1, <2>2, StackPush
  <2> QED BY <2>3
<1>4. f \in Gets(C, h) /\ \A p : p # h => f \notin Gets(C, p)
  BY <1>2 DEF Gets
<1>5. \A k : None(t, Handlers(k)) <=> None(S, Handlers(k))
  <2>1. \A k : f \notin Handlers(k)
    BY <1>2 DEF Handlers
  <2> QED BY <1>1, <1>2, <2>1, PushPositions
<1>6. Derived(C, R, t, B, A, d)
  BY <1>5 DEF InHand, Derived
<1>7. Custody(P, C, Q, t, A, 0)
  <2>1. h \in 1..Len(P) /\ Free(P, C, Q, S, A, h)
    BY <1>1 DEF InHand, Custody
  <2>2. One(t, Gets(C, h))
    BY <1>1, <1>2, <1>4, <2>1, PushPositions DEF Free
  <2>3. Sole(P, C, Q, t, A, h)
    BY <2>1, <2>2 DEF Free, Sole
  <2>4. \A p : p # h => /\ None(t, Gets(C, p)) <=> None(S, Gets(C, p))
                        /\ One(t, Gets(C, p)) <=> One(S, Gets(C, p))
    BY <1>1, <1>2, <1>4, PushPositions
  <2>5. \A p \in 1..Len(P) : p # h => Sole(P, C, Q, t, A, p)
    <3> TAKE p \in 1..Len(P)
    <3> HAVE p # h
    <3>1. Sole(P, C, Q, S, A, p)
      BY DEF InHand, Custody
    <3> QED BY <2>4, <3>1 DEF Sole
  <2>6. ASSUME NEW p \in 1..Len(P) PROVE Sole(P, C, Q, t, A, p)
    BY <2>3, <2>5
  <2>7. 0 \in 0..Len(P) /\ \A p \in 1..Len(P) : p # 0
    BY <1>1
  <2> QED BY <2>6, <2>7 DEF Custody
<1> QED BY <1>3, <1>6, <1>7 DEF InHand

\* The read of "then" is over: its promise is in hand.
LEMMA PopGet ==
  ASSUME NEW P, NEW C, NEW R, NEW Q, NEW S, NEW B, NEW A, NEW d,
         InHand(P, C, R, Q, S, B, A, 0, d),
         S # <<>>, Head(S).kind = "get"
  PROVE  /\ C[Head(S).cell].promise # 0
         /\ Head(S).value \in Thenables \cup 1..Len(P)
         /\ InHand(P, C, R, Q, Tail(S), B, A, C[Head(S).cell].promise, d)
<1> PICK f, t, h : f = Head(S) /\ t = Tail(S) /\ h = C[Head(S).cell].promise
  OBVIOUS
<1>1. Len(C) \in Nat /\ Len(P) \in Nat /\ S \in Seq(FrameRecords)
  BY Entries DEF InHand, Lists
<1>2. f \in FrameRecords /\ f.kind = "get" /\ f = S[1] /\ 1 \in DOMAIN S
  BY <1>1, HeadTailProperties
<1>3. Lists(P, C, R, Q, t, B, A) /\ StackOK(P, C, R, t, B) /\ AbandonedOK(C, R, t, B, A)
  BY StackPop DEF InHand
<1>4. f.cell \in 1..Len(C) /\ f.value \in Thenables \cup 1..Len(P)
  BY <1>2 DEF InHand, StackOK
<1>5. h \in 1..Len(P) /\ h # 0
  BY <1>1, <1>4 DEF InHand, CellsOK
<1>6. f \in Gets(C, h) /\ \A p : p # h => f \notin Gets(C, p)
  BY <1>2 DEF Gets
<1>7. \A k : None(t, Handlers(k)) <=> None(S, Handlers(k))
  <2>1. \A k : f \notin Handlers(k)
    BY <1>2 DEF Handlers
  <2> QED BY <1>1, <2>1, PopPositions
<1>8. Derived(C, R, t, B, A, d)
  BY <1>7 DEF InHand, Derived
<1>9. Custody(P, C, Q, t, A, h)
  <2>1. ~None(S, Gets(C, h))
    BY <1>1, <1>6, PopPositions
  <2>2. Sole(P, C, Q, S, A, h)
    BY <1>5 DEF InHand, Custody
  <2>3. None(t, Gets(C, h))
    BY <1>1, <1>6, <2>1, <2>2, PopPositions DEF Sole
  <2>4. Free(P, C, Q, t, A, h)
    BY <2>1, <2>2, <2>3 DEF Sole, Free
  <2>5. \A p : p # h => /\ None(t, Gets(C, p)) <=> None(S, Gets(C, p))
                        /\ One(t, Gets(C, p)) <=> One(S, Gets(C, p))
    BY <1>1, <1>6, PopPositions
  <2>6. \A p \in 1..Len(P) : p # h => Sole(P, C, Q, t, A, p)
    <3> TAKE p \in 1..Len(P)
    <3> HAVE p # h
    <3>1. Sole(P, C, Q, S, A, p)
      BY <1>1 DEF InHand, Custody
    <3> QED BY <2>5, <3>1 DEF Sole
  <2> QED BY <1>1, <1>5, <2>4, <2>6 DEF Custody
<1> QED BY <1>3, <1>4, <1>5, <1>8, <1>9 DEF InHand

-----------------------------------------------------------------------------
(* Moves of the queue.                                                      *)

\* The queue loses its oldest job, or gains a thenable job, or both: what of
\* the invariant follows whatever the job is.
LEMMA QueuePop ==
  ASSUME NEW P, NEW C, NEW R, NEW Q, NEW S, NEW B, NEW A,
         Lists(P, C, R, Q, S, B, A), QueueOK(P, R, Q), Ordered(R, Q, B), Q # <<>>
  PROVE  /\ Lists(P, C, R, Tail(Q), S, B, A) /\ QueueOK(P, R, Tail(Q))
         /\ Ordered(R, Tail(Q), B)
         /\ Head(Q) = Q[1] /\ 1 \in DOMAIN Q /\ Head(Q) \in JobRecords
         /\ \A i \in DOMAIN Tail(Q) : i + 1 \in DOMAIN Q /\ Tail(Q)[i] = Q[i + 1]
<1>1. Q \in Seq(JobRecords)
  BY DEF Lists
<1>2. /\ Tail(Q) \in Seq(JobRecords) /\ Head(Q) = Q[1] /\ 1 \in DOMAIN Q
      /\ Head(Q) \in JobRecords
      /\ \A i \in DOMAIN Tail(Q) : i + 1 \in DOMAIN Q /\ Tail(Q)[i] = Q[i + 1] /\ i \in Nat
  BY <1>1, HeadTailProperties
<1> PICK t : t = Tail(Q)
  OBVIOUS
<1>3. \A i \in DOMAIN t : \E k \in DOMAIN Q : k = i + 1 /\ t[i] = Q[k] /\ i \in Nat
  BY <1>2
<1>4. QueueOK(P, R, t)
  <2>1. \A i \in DOMAIN t : \E k \in DOMAIN Q : t[i] = Q[k]
    BY <1>3
  <2> QED BY <2>1 DEF QueueOK
<1>5. Ordered(R, t, B)
  <2>1. ASSUME NEW i \in DOMAIN t, NEW j \in DOMAIN t, i < j,
               t[i].kind = "reaction", t[j].kind = "reaction",
               R[t[i].of].on = R[t[j].of].on
        PROVE  t[i].of < t[j].of
    <3>1. PICK k \in DOMAIN Q : k = i + 1 /\ t[i] = Q[k] /\ i \in Nat
      BY <1>3
    <3>2. PICK l \in DOMAIN Q : l = j + 1 /\ t[j] = Q[l] /\ j \in Nat
      BY <1>3
    <3>3. k < l
      BY <2>1, <3>1, <3>2
    <3> QED BY <2>1, <3>1, <3>2, <3>3 DEF Ordered
  <2>2. ASSUME NEW i \in DOMAIN B, NEW j \in DOMAIN t, t[j].kind = "reaction",
               R[B[i]].on = R[t[j].of].on
        PROVE  B[i] < t[j].of
    <3>1. PICK l \in DOMAIN Q : t[j] = Q[l]
      BY <1>3
    <3> QED BY <2>2, <3>1 DEF Ordered
  <2> QED BY <2>1, <2>2 DEF Ordered
<1> QED BY <1>2, <1>4, <1>5 DEF Lists

\* The promise in hand is left to a thenable job.
LEMMA QueueThenable ==
  ASSUME NEW P, NEW C, NEW R, NEW Q, NEW S, NEW B, NEW A, NEW h, NEW d,
         InHand(P, C, R, Q, S, B, A, h, d), h # 0,
         NEW v \in Thenables \cup 1..Len(P)
  PROVE  InHand(P, C, R, Append(Q, ThenableJob(h, v)), S, B, A, 0, d)
<1> PICK j, t : j = ThenableJob(h, v) /\ t = Append(Q, j)
  OBVIOUS
<1>1. /\ Len(P) \in Nat /\ Q \in Seq(JobRecords) /\ Len(Q) \in Nat
      /\ DOMAIN Q = 1..Len(Q)
  BY Entries DEF InHand, Lists
<1>2. h \in 1..Len(P) /\ Free(P, C, Q, S, A, h)
  BY <1>1 DEF InHand, Custody
<1>3. j \in JobRecords /\ j.kind = "thenable" /\ j.of = h /\ j.arg = v
  BY <1>1, <1>2 DEF ThenableJob, JobRecords, AllValues
<1>4. /\ t \in Seq(JobRecords) /\ t[Len(Q) + 1] = j
      /\ \A i \in DOMAIN t : i \in DOMAIN Q \/ i = Len(Q) + 1
      /\ \A i \in DOMAIN Q : t[i] = Q[i]
  BY <1>1, <1>3
<1>5. QueueOK(P, R, t)
  <2>1. \A i \in DOMAIN t : (i \in DOMAIN Q /\ t[i] = Q[i]) \/ t[i] = j
    BY <1>4
  <2>2. QueueOK(P, R, Q) /\ h \in 1..Len(P)
    BY <1>2 DEF InHand
  <2> SUFFICES ASSUME NEW i \in DOMAIN t
               PROVE  /\ t[i].kind = "reaction" =>
                           /\ t[i].of \in 1..Len(R)
                           /\ P[R[t[i].of].on].state # "pending"
                           /\ t[i].outcome = P[R[t[i].of].on].state
                           /\ t[i].arg = P[R[t[i].of].on].result
                      /\ t[i].kind = "thenable" =>
                           t[i].of \in 1..Len(P) /\ t[i].arg \in Thenables \cup 1..Len(P)
    BY DEF QueueOK
  <2>3. CASE i \in DOMAIN Q /\ t[i] = Q[i]
    BY <2>2, <2>3 DEF QueueOK
  <2>4. CASE t[i] = j
    BY <1>3, <2>2, <2>4
  <2> QED BY <2>1, <2>3, <2>4
<1>6. Ordered(R, t, B)
  <2>1. \A i \in DOMAIN t : t[i].kind = "reaction" => i \in DOMAIN Q /\ t[i] = Q[i]
    BY <1>3, <1>4
  <2> QED BY <2>1 DEF InHand, Ordered
<1>7. Placed(P, R, t, B)
  <2>1. \A r : j \notin ReactionJobs(r)
    BY <1>3 DEF ReactionJobs
  <2>2. \A r : /\ None(t, ReactionJobs(r)) <=> None(Q, ReactionJobs(r))
               /\ One(t, ReactionJobs(r)) <=> One(Q, ReactionJobs(r))
    BY <1>1, <1>3, <2>1, AppendPositions
  <2> QED BY <2>2 DEF InHand, Placed
<1>8. Custody(P, C, t, S, A, 0)
  <2>1. j \in ThenableJobs(h) /\ \A p : p # h => j \notin ThenableJobs(p)
    BY <1>3 DEF ThenableJobs
  <2>2. One(t, ThenableJobs(h))
    BY <1>1, <1>2, <1>3, <2>1, AppendPositions DEF Free
  <2>3. Sole(P, C, t, S, A, h)
    BY <1>2, <2>2 DEF Free, Sole
  <2>4. \A p : p # h => /\ None(t, ThenableJobs(p)) <=> None(Q, ThenableJobs(p))
                        /\ One(t, ThenableJobs(p)) <=> One(Q, ThenableJobs(p))
    BY <1>1, <1>3, <2>1, AppendPositions
  <2> QED BY <1>1, <2>3, <2>4 DEF InHand, Custody, Sole
<1> QED BY <1>4, <1>5, <1>6, <1>7, <1>8 DEF InHand, Lists

\* A thenable job is taken: its promise is in hand.
LEMMA TakeThenable ==
  ASSUME NEW P, NEW C, NEW R, NEW Q, NEW S, NEW B, NEW A, NEW d,
         InHand(P, C, R, Q, S, B, A, 0, d),
         Q # <<>>, Head(Q).kind = "thenable"
  PROVE  /\ Head(Q).of # 0
         /\ InHand(P, C, R, Tail(Q), S, B, A, Head(Q).of, d)
<1> PICK j, t, h : j = Head(Q) /\ t = Tail(Q) /\ h = Head(Q).of
  OBVIOUS
<1>1. Len(P) \in Nat /\ Q \in Seq(JobRecords)
  BY Entries DEF InHand, Lists
<1>2. /\ Lists(P, C, R, t, S, B, A) /\ QueueOK(P, R, t) /\ Ordered(R, t, B)
      /\ j = Q[1] /\ 1 \in DOMAIN Q /\ j \in JobRecords
  BY QueuePop DEF InHand
<1>3. h \in 1..Len(P) /\ h # 0
  BY <1>1, <1>2, SMTT(30) DEF InHand, QueueOK
<1>4. Placed(P, R, t, B)
  <2>1. \A r : j \notin ReactionJobs(r)
    BY DEF ReactionJobs
  <2>2. \A r : /\ None(t, ReactionJobs(r)) <=> None(Q, ReactionJobs(r))
               /\ One(t, ReactionJobs(r)) <=> One(Q, ReactionJobs(r))
    BY <1>1, <2>1, PopPositions
  <2> QED BY <2>2 DEF InHand, Placed
<1>5. Custody(P, C, t, S, A, h)
  <2>1. j \in ThenableJobs(h) /\ \A p : p # h => j \notin ThenableJobs(p)
    BY <1>2 DEF ThenableJobs
  <2>2. ~None(Q, ThenableJobs(h))
    BY <1>1, <2>1, PopPositions
  <2>3. Sole(P, C, Q, S, A, h)
    BY <1>3 DEF InHand, Custody
  <2>4. None(t, ThenableJobs(h))
    BY <1>1, <2>1, <2>2, <2>3, PopPositions DEF Sole
  <2>5. Free(P, C, t, S, A, h)
    BY <2>2, <2>3, <2>4 DEF Sole, Free
  <2>6. \A p : p # h => /\ None(t, ThenableJobs(p)) <=> None(Q, ThenableJobs(p))
                        /\ One(t, ThenableJobs(p)) <=> One(Q, ThenableJobs(p))
    BY <1>1, <2>1, PopPositions
  <2>7. \A p \in 1..Len(P) : p # h => Sole(P, C, t, S, A, p)
    <3> TAKE p \in 1..Len(P)
    <3> HAVE p # h
    <3>1. Sole(P, C, Q, S, A, p)
      BY <1>1 DEF InHand, Custody
    <3> QED BY <2>6, <3>1 DEF Sole
  <2> QED BY <1>1, <1>3, <2>5, <2>7 DEF Custody
<1> QED BY <1>2, <1>3, <1>4, <1>5 DEF InHand

-----------------------------------------------------------------------------
(* Moves that create.                                                       *)

\* A pair is made for the promise in hand.
LEMMA AddPair ==
  ASSUME NEW P, NEW C, NEW R, NEW Q, NEW S, NEW B, NEW A, NEW h, NEW d,
         InHand(P, C, R, Q, S, B, A, h, d), h # 0, NEW g \in BOOLEAN
  PROVE  InHand(P, Append(C, NewCell(h, g)), R, Q, S, B, A, 0, d)
<1> PICK e, D : e = NewCell(h, g) /\ D = Append(C, e)
  OBVIOUS
<1>1. /\ Lists(P, C, R, Q, S, B, A) /\ PromisesOK(P, R) /\ CellsOK(P, C)
      /\ ReactionsOK(P, C, R) /\ QueueOK(P, R, Q) /\ StackOK(P, C, R, S, B)
      /\ StartedOK(P, R, B) /\ AbandonedOK(C, R, S, B, A) /\ Custody(P, C, Q, S, A, h)
      /\ Placed(P, R, Q, B) /\ Derived(C, R, S, B, A, d) /\ Ordered(R, Q, B)
  BY DEF InHand
<1>2. /\ Len(P) \in Nat /\ C \in Seq(CellRecords) /\ Len(C) \in Nat
      /\ S \in Seq(FrameRecords) /\ A \subseteq 1..Len(C)
  BY <1>1, Entries DEF Lists
<1>3. h \in 1..Len(P) /\ Free(P, C, Q, S, A, h)
  BY <1>1, <1>2 DEF Custody
<1>4. e \in CellRecords /\ e.promise = h /\ ~e.used /\ e.guest = g
  BY <1>2, <1>3 DEF NewCell, CellRecords
<1>5. /\ D \in Seq(CellRecords) /\ Len(D) = Len(C) + 1 /\ D[Len(C) + 1] = e
      /\ \A c \in 1..Len(C) : D[c] = C[c] /\ c \in 1..Len(D)
      /\ \A c \in 1..Len(D) : c \in 1..Len(C) \/ c = Len(C) + 1
  BY <1>2, <1>4
<1>6. Lists(P, D, R, Q, S, B, A)
  BY <1>1, <1>5 DEF Lists
<1>7. CellsOK(P, D)
  BY <1>1, <1>3, <1>4, <1>5 DEF CellsOK
<1>8. ReactionsOK(P, D, R)
  BY <1>1, <1>5 DEF ReactionsOK
<1>9. StackOK(P, D, R, S, B)
  BY <1>1, <1>5 DEF StackOK
<1>10. AbandonedOK(D, R, S, B, A)
  BY <1>1, <1>2, <1>5 DEF AbandonedOK
<1>11. Derived(D, R, S, B, A, d)
  <2>1. \A r \in 1..Len(R) : D[R[r].cell] = C[R[r].cell]
    BY <1>1, <1>5 DEF ReactionsOK
  <2> QED BY <1>1, <2>1 DEF Derived
<1>12. Custody(P, D, Q, S, A, 0)
  <2>1. \A p : /\ None(S, Gets(C, p)) <=> None(S, Gets(D, p))
               /\ One(S, Gets(C, p)) <=> One(S, Gets(D, p))
    BY <1>1, <1>2, <1>5, SameGets
  <2>2. \A p : Lost(D, A, p) = Lost(C, A, p)
    BY <1>2, <1>5 DEF Lost
  <2>3. e \in UnusedPairs(h) /\ \A p : p # h => e \notin UnusedPairs(p)
    BY <1>4 DEF UnusedPairs
  <2>4. One(D, UnusedPairs(h))
    BY <1>2, <1>3, <1>4, <2>3, AppendPositions DEF Free
  <2>5. Sole(P, D, Q, S, A, h)
    BY <1>3, <2>1, <2>2, <2>4 DEF Free, Sole
  <2>6. \A p : p # h => /\ None(D, UnusedPairs(p)) <=> None(C, UnusedPairs(p))
                        /\ One(D, UnusedPairs(p)) <=> One(C, UnusedPairs(p))
    BY <1>2, <1>4, <2>3, AppendPositions
  <2>7. \A p \in 1..Len(P) : p # h => Sole(P, D, Q, S, A, p)
    <3> TAKE p \in 1..Len(P)
    <3> HAVE p # h
    <3>1. Sole(P, C, Q, S, A, p)
      BY <1>1 DEF Custody
    <3> QED BY <2>1, <2>2, <2>6, <3>1 DEF Sole
  <2> QED BY <1>2, <2>5, <2>7 DEF Custody
<1> QED BY <1>1, <1>6, <1>7, <1>8, <1>9, <1>10, <1>11, <1>12 DEF InHand

\* A promise is created: it is in hand.
LEMMA AddPromise ==
  ASSUME NEW P, NEW C, NEW R, NEW Q, NEW S, NEW B, NEW A, NEW d,
         InHand(P, C, R, Q, S, B, A, 0, d)
  PROVE  InHand(Append(P, NewPromiseData), C, R, Q, S, B, A, Len(P) + 1, d)
<1> PICK e, N, n : e = NewPromiseData /\ N = Append(P, e) /\ n = Len(P) + 1
  OBVIOUS
<1>1. /\ Lists(P, C, R, Q, S, B, A) /\ PromisesOK(P, R) /\ CellsOK(P, C)
      /\ ReactionsOK(P, C, R) /\ QueueOK(P, R, Q) /\ StackOK(P, C, R, S, B)
      /\ StartedOK(P, R, B) /\ AbandonedOK(C, R, S, B, A) /\ Custody(P, C, Q, S, A, 0)
      /\ Placed(P, R, Q, B) /\ Derived(C, R, S, B, A, d) /\ Ordered(R, Q, B)
  BY DEF InHand
<1>2. /\ Len(P) \in Nat /\ P \in Seq(PromiseRecords) /\ A \subseteq 1..Len(C)
      /\ DOMAIN C = 1..Len(C)
  BY <1>1, Entries DEF Lists
<1>3. /\ e \in PromiseRecords /\ e.state = "pending" /\ e.result \in Plain
      /\ e.reactions = <<>> /\ DOMAIN e.reactions = {}
  BY PromiseAssumption DEF NewPromiseData, PromiseRecords, AllValues
<1>4. /\ N \in Seq(PromiseRecords) /\ Len(N) = n /\ N[n] = e /\ n # 0 /\ n \notin 1..Len(P)
      /\ n \in 0..n
      /\ \A p \in 1..Len(P) : N[p] = P[p] /\ p \in 1..Len(N)
      /\ \A p \in 1..Len(N) : p \in 1..Len(P) \/ p = n
  BY <1>2, <1>3
<1>5. Lists(N, C, R, Q, S, B, A) /\ CellsOK(N, C) /\ ReactionsOK(N, C, R)
  BY <1>1, <1>4 DEF Lists, CellsOK, ReactionsOK
<1>6. PromisesOK(N, R)
  <2> SUFFICES ASSUME NEW p \in 1..Len(N)
               PROVE  /\ N[p].result \in Plain \cup Thenables \cup 1..Len(N)
                      /\ N[p].state # "pending" => N[p].reactions = <<>>
                      /\ \A i \in DOMAIN N[p].reactions :
                           /\ N[p].reactions[i] \in 1..Len(R)
                           /\ R[N[p].reactions[i]].on = p
                      /\ \A i, j \in DOMAIN N[p].reactions :
                           i < j => N[p].reactions[i] < N[p].reactions[j]
    BY DEF PromisesOK
  <2>1. CASE p = n
    BY <1>3, <1>4, <2>1
  <2>2. CASE p \in 1..Len(P)
    <3>1. N[p] = P[p]
      BY <1>4, <2>2
    <3>2. \A x \in 1..Len(P) : x \in 1..Len(N)
      BY <1>4
    <3> QED BY <1>1, <2>2, <3>1, <3>2 DEF PromisesOK
  <2> QED BY <1>4, <2>1, <2>2
<1>7. QueueOK(N, R, Q)
  <2>1. \A r \in 1..Len(R) : N[R[r].on] = P[R[r].on]
    BY <1>1, <1>4 DEF ReactionsOK
  <2> QED BY <1>1, <1>4, <2>1 DEF QueueOK
<1>8. StackOK(N, C, R, S, B)
  BY <1>1, <1>4 DEF StackOK
<1>9. StartedOK(N, R, B)
  BY <1>1, <1>4 DEF StartedOK, ReactionsOK
<1>10. Placed(N, R, Q, B)
  <2>1. \A r \in 1..Len(R) : N[R[r].on] = P[R[r].on]
    BY <1>1, <1>4 DEF ReactionsOK
  <2> QED BY <1>1, <2>1 DEF Placed
<1>11. Custody(N, C, Q, S, A, n)
  <2>1. None(C, UnusedPairs(n)) /\ Lost(C, A, n) = {}
    BY <1>1, <1>2, <1>4, ZenonT(30) DEF CellsOK, None, UnusedPairs, Lost
  <2>2. None(S, Gets(C, n))
    BY <1>1, <1>4 DEF CellsOK, StackOK, None, Gets
  <2>3. None(Q, ThenableJobs(n))
    BY <1>1, <1>4 DEF QueueOK, None, ThenableJobs
  <2>4. Free(N, C, Q, S, A, n)
    BY <1>3, <1>4, <2>1, <2>2, <2>3 DEF Free
  <2>5. \A p \in 1..Len(P) : Sole(N, C, Q, S, A, p)
    BY <1>1, <1>4 DEF Custody, Sole
  <2> QED BY <1>4, <2>4, <2>5 DEF Custody
<1> QED BY <1>1, <1>5, <1>6, <1>7, <1>8, <1>9, <1>10, <1>11 DEF InHand

\* A reaction whose pair is unused and belongs to nobody.
Unowned(P, C, R, A, e) ==
  /\ e \in ReactionRecords /\ e.on \in 1..Len(P) /\ e.cell \in 1..Len(C)
  /\ ~C[e.cell].used /\ ~C[e.cell].guest /\ e.cell \notin A
  /\ \A r \in 1..Len(R) : R[r].cell # e.cell

\* `then' registers a reaction on p with the unused pair c of its own: what
\* follows whether the reaction waits or is queued.
LEMMA RegisterOnly ==
  ASSUME NEW P, NEW C, NEW R, NEW Q, NEW S, NEW B, NEW A, NEW d,
         InHand(P, C, R, Q, S, B, A, 0, d),
         NEW e, Unowned(P, C, R, A, e), NEW T, T = Append(R, e)
  PROVE  /\ Lists(P, C, T, Q, S, B, A) /\ PromisesOK(P, T) /\ ReactionsOK(P, C, T)
         /\ QueueOK(P, T, Q) /\ StackOK(P, C, T, S, B) /\ StartedOK(P, T, B)
         /\ AbandonedOK(C, T, S, B, A) /\ Derived(C, T, S, B, A, d) /\ Ordered(T, Q, B)
         /\ Len(T) = Len(R) + 1 /\ Len(R) \in Nat /\ T[Len(R) + 1].on = e.on
         /\ \A r \in 1..Len(R) : T[r] = R[r] /\ r \in 1..Len(T)
         /\ \A r \in 1..Len(T) : r \in 1..Len(R) \/ r = Len(R) + 1
<1> PICK n, p, c : n = Len(R) + 1 /\ p = e.on /\ c = e.cell
  OBVIOUS
<1>1. /\ Lists(P, C, R, Q, S, B, A) /\ PromisesOK(P, R) /\ CellsOK(P, C)
      /\ ReactionsOK(P, C, R) /\ QueueOK(P, R, Q) /\ StackOK(P, C, R, S, B)
      /\ StartedOK(P, R, B) /\ AbandonedOK(C, R, S, B, A)
      /\ Placed(P, R, Q, B) /\ Derived(C, R, S, B, A, d) /\ Ordered(R, Q, B)
  BY DEF InHand
<1>2. R \in Seq(ReactionRecords) /\ Len(R) \in Nat /\ Len(P) \in Nat /\ Len(C) \in Nat
  BY <1>1, Entries DEF Lists
<1>3. /\ p \in 1..Len(P) /\ c \in 1..Len(C) /\ ~C[c].used /\ ~C[c].guest /\ c \notin A
      /\ \A r \in 1..Len(R) : R[r].cell # c
      /\ e.on = p /\ e.cell = c /\ e \in ReactionRecords
  BY DEF Unowned
<1>4. /\ T \in Seq(ReactionRecords) /\ Len(T) = n /\ T[n] = e /\ n \notin 1..Len(R)
      /\ n # 0
      /\ \A r \in 1..Len(R) : T[r] = R[r] /\ r \in 1..Len(T)
      /\ \A r \in 1..Len(T) : r \in 1..Len(R) \/ r = n
  BY <1>2, <1>3
<1>5. Lists(P, C, T, Q, S, B, A)
  BY <1>1, <1>4 DEF Lists
<1>6. PromisesOK(P, T)
  <2> SUFFICES ASSUME NEW x \in 1..Len(P)
               PROVE  /\ P[x].result \in Plain \cup Thenables \cup 1..Len(P)
                      /\ P[x].state # "pending" => P[x].reactions = <<>>
                      /\ \A i \in DOMAIN P[x].reactions :
                           /\ P[x].reactions[i] \in 1..Len(T)
                           /\ T[P[x].reactions[i]].on = x
                      /\ \A i, j \in DOMAIN P[x].reactions :
                           i < j => P[x].reactions[i] < P[x].reactions[j]
    BY DEF PromisesOK
  <2> QED BY <1>1, <1>4 DEF PromisesOK
<1>7. ReactionsOK(P, C, T)
  <2>1. ASSUME NEW r \in 1..Len(T)
        PROVE  T[r].on \in 1..Len(P) /\ T[r].cell \in 1..Len(C) /\ ~C[T[r].cell].guest
    <3>1. CASE r = n
      BY <1>3, <1>4, <3>1
    <3>2. CASE r \in 1..Len(R)
      BY <1>1, <1>4, <3>2 DEF ReactionsOK
    <3> QED BY <1>4, <3>1, <3>2
  <2>2. ASSUME NEW r \in 1..Len(T), NEW q \in 1..Len(T), T[r].cell = T[q].cell
        PROVE  r = q
    BY <1>1, <1>3, <1>4, <2>2 DEF ReactionsOK
  <2> QED BY <2>1, <2>2 DEF ReactionsOK
<1>8. QueueOK(P, T, Q)
  BY <1>1, <1>4 DEF QueueOK
<1>9. StackOK(P, C, T, S, B)
  <2>1. \A k : (\E r \in 1..Len(R) : R[r].cell = k /\ ~None(B, {r})) =>
                  \E r \in 1..Len(T) : T[r].cell = k /\ ~None(B, {r})
    BY <1>4
  <2> QED BY <1>1, <2>1 DEF StackOK
<1>10. StartedOK(P, T, B)
  BY <1>1, <1>4 DEF StartedOK
<1>11. AbandonedOK(C, T, S, B, A)
  <2>1. \A k : (\E r \in 1..Len(R) : R[r].cell = k /\ ~None(B, {r})) =>
                  \E r \in 1..Len(T) : T[r].cell = k /\ ~None(B, {r})
    BY <1>4
  <2> QED BY <1>1, <2>1 DEF AbandonedOK
<1>12. Derived(C, T, S, B, A, d)
  <2>1. d \in 0..Len(R) /\ d # n /\ d \in 0..Len(T)
    BY <1>1, <1>2, <1>4 DEF Derived
  <2>2. None(B, {n})
    BY <1>1, <1>4 DEF StartedOK, None
  <2> SUFFICES ASSUME NEW r \in 1..Len(T)
               PROVE  LET k == T[r].cell IN
                      IF r = d
                      THEN ~None(B, {r}) /\ None(S, Handlers(k)) /\ ~C[k].used /\ k \notin A
                      ELSE /\ C[k].used => ~None(B, {r}) /\ None(S, Handlers(k))
                           /\ ~None(B, {r}) /\ None(S, Handlers(k)) => C[k].used \/ k \in A
    BY <2>1 DEF Derived
  <2>3. CASE r = n
    BY <1>3, <1>4, <2>1, <2>2, <2>3
  <2>4. CASE r \in 1..Len(R)
    <3>1. T[r] = R[r]
      BY <1>4, <2>4
    <3> QED BY <1>1, <2>4, <3>1 DEF Derived
  <2> QED BY <1>4, <2>3, <2>4
<1>13. Ordered(T, Q, B)
  <2>1. \A i \in DOMAIN B : T[B[i]] = R[B[i]]
    BY <1>1, <1>4 DEF StartedOK
  <2>2. \A i \in DOMAIN Q : Q[i].kind = "reaction" => T[Q[i].of] = R[Q[i].of]
    BY <1>1, <1>4 DEF QueueOK
  <2> QED BY <1>1, <2>1, <2>2 DEF Ordered
<1> QED BY <1>2, <1>3, <1>4, <1>5, <1>6, <1>7, <1>8, <1>9, <1>10, <1>11, <1>12, <1>13

\* The reaction waits on a pending promise.
LEMMA RegisterWaiting ==
  ASSUME NEW P, NEW C, NEW R, NEW Q, NEW S, NEW B, NEW A, NEW d,
         InHand(P, C, R, Q, S, B, A, 0, d),
         NEW e, Unowned(P, C, R, A, e), NEW p, p = e.on, P[p].state = "pending"
  PROVE  InHand([P EXCEPT ![p].reactions = Append(@, Len(R) + 1)], C,
                Append(R, e), Q, S, B, A, 0, d)
<1>a. PICK T, n : T = Append(R, e) /\ n = Len(R) + 1
  OBVIOUS
<1>0. p \in 1..Len(P) /\ e \in ReactionRecords
  BY DEF Unowned
<1> DEFINE u == [P[p] EXCEPT !.reactions = Append(@, n)]
           N == [P EXCEPT ![p] = u]
<1>1. /\ Lists(P, C, T, Q, S, B, A) /\ PromisesOK(P, T) /\ ReactionsOK(P, C, T)
      /\ QueueOK(P, T, Q) /\ StackOK(P, C, T, S, B) /\ StartedOK(P, T, B)
      /\ AbandonedOK(C, T, S, B, A) /\ Derived(C, T, S, B, A, d) /\ Ordered(T, Q, B)
      /\ Len(T) = n /\ Len(R) \in Nat /\ T[n].on = p
      /\ \A r \in 1..Len(R) : T[r] = R[r] /\ r \in 1..Len(T)
      /\ \A r \in 1..Len(T) : r \in 1..Len(R) \/ r = n
  <2>1. /\ Lists(P, C, T, Q, S, B, A) /\ PromisesOK(P, T) /\ ReactionsOK(P, C, T)
        /\ QueueOK(P, T, Q) /\ StackOK(P, C, T, S, B) /\ StartedOK(P, T, B)
    BY <1>a, RegisterOnly
  <2>2. AbandonedOK(C, T, S, B, A) /\ Derived(C, T, S, B, A, d) /\ Ordered(T, Q, B)
    BY <1>a, RegisterOnly
  <2>3. Len(T) = Len(R) + 1 /\ Len(R) \in Nat /\ T[Len(R) + 1].on = e.on
    BY <1>a, RegisterOnly
  <2>4. \A r \in 1..Len(R) : T[r] = R[r] /\ r \in 1..Len(T)
    BY <1>a, RegisterOnly
  <2>5. \A r \in 1..Len(T) : r \in 1..Len(R) \/ r = Len(R) + 1
    BY <1>a, RegisterOnly
  <2> QED BY <1>a, <2>1, <2>2, <2>3, <2>4, <2>5
<1>2. CellsOK(P, C) /\ Custody(P, C, Q, S, A, 0) /\ Placed(P, R, Q, B) /\ PromisesOK(P, R)
      /\ StartedOK(P, R, B) /\ QueueOK(P, R, Q) /\ ReactionsOK(P, C, R)
  BY DEF InHand
<1>3. P \in Seq(PromiseRecords) /\ P[p] \in PromiseRecords /\ Len(P) \in Nat
  BY <1>0, <1>1, Entries DEF Lists
<1>b. PICK z : z = P[p].reactions
  OBVIOUS
<1>c. PICK y : y = Append(z, n)
  OBVIOUS
<1>4. z \in Seq(Nat) /\ n \in Nat /\ n \in 1..Len(T) /\ n \notin 1..Len(R)
  BY <1>a, <1>b, <1>0, <1>1, <1>3 DEF PromiseRecords
<1>5. /\ u \in PromiseRecords /\ u.state = P[p].state /\ u.result = P[p].result
      /\ u.reactions = y
  <2>1. PICK k \in PromiseRecords : k = P[p]
    BY <1>3
  <2>2. Append(k.reactions, n) \in Seq(Nat)
    BY <1>b, <1>4, <2>1
  <2>3. LET v == [k EXCEPT !.reactions = Append(@, n)]
        IN  v \in PromiseRecords /\ v.state = k.state /\ v.result = k.result
            /\ v.reactions = Append(k.reactions, n)
    BY <2>2 DEF PromiseRecords
  <2> QED BY <1>b, <1>c, <2>1, <2>3
<1> HIDE DEF u
<1>6. /\ N \in Seq(PromiseRecords) /\ Len(N) = Len(P) /\ N[p] = u
      /\ \A x \in 1..Len(P) : x # p => N[x] = P[x]
  BY <1>0, <1>3, <1>5
<1> HIDE DEF N
<1>7. \A x \in 1..Len(P) : N[x].state = P[x].state /\ N[x].result = P[x].result
  BY <1>5, <1>6
<1>8. Lists(N, C, T, Q, S, B, A) /\ CellsOK(N, C) /\ ReactionsOK(N, C, T)
      /\ StackOK(N, C, T, S, B)
  BY <1>1, <1>2, <1>6 DEF Lists, CellsOK, ReactionsOK, StackOK
<1>9. QueueOK(N, T, Q)
  <2>1. \A r \in 1..Len(T) : /\ N[T[r].on].state = P[T[r].on].state
                             /\ N[T[r].on].result = P[T[r].on].result
    BY <1>1, <1>7 DEF ReactionsOK
  <2> QED BY <1>1, <1>6, <2>1 DEF QueueOK
<1>10. StartedOK(N, T, B)
  BY <1>1, <1>7 DEF StartedOK, ReactionsOK
<1>11. Custody(N, C, Q, S, A, 0)
  <2> SUFFICES ASSUME NEW x \in 1..Len(P) PROVE Sole(N, C, Q, S, A, x)
    BY <1>3, <1>6 DEF Custody
  <2>1. Sole(P, C, Q, S, A, x)
    BY <1>2, <1>3 DEF Custody
  <2> QED BY <1>7, <2>1 DEF Sole
<1>12. /\ DOMAIN y = 1..(Len(z) + 1) /\ DOMAIN z = 1..Len(z) /\ Len(z) \in Nat
       /\ y[Len(z) + 1] = n
       /\ \A i \in DOMAIN z : y[i] = z[i]
       /\ \A i \in DOMAIN y : i \in DOMAIN z \/ i = Len(z) + 1
  BY <1>c, <1>4, AppendEntries
<1>16. /\ \A i \in DOMAIN z : z[i] \in 1..Len(R) /\ R[z[i]].on = p
       /\ \A i, j \in DOMAIN z : i < j => z[i] < z[j]
  BY <1>b, <1>0, <1>2 DEF PromisesOK
<1>13. PromisesOK(N, T)
  <2> SUFFICES ASSUME NEW x \in 1..Len(P)
               PROVE  /\ N[x].result \in Plain \cup Thenables \cup 1..Len(P)
                      /\ N[x].state # "pending" => N[x].reactions = <<>>
                      /\ \A i \in DOMAIN N[x].reactions :
                           /\ N[x].reactions[i] \in 1..Len(T)
                           /\ T[N[x].reactions[i]].on = x
                      /\ \A i, j \in DOMAIN N[x].reactions :
                           i < j => N[x].reactions[i] < N[x].reactions[j]
    BY <1>6 DEF PromisesOK
  <2>1. CASE x # p
    <3>1. N[x] = P[x]
      BY <1>6, <2>1
    <3> QED BY <1>1, <3>1 DEF PromisesOK
  <2>2. CASE x = p
    <3>1. N[x].result \in Plain \cup Thenables \cup 1..Len(P) /\ N[x].state = "pending"
      BY <1>1, <1>7, <2>2 DEF PromisesOK
    <3>2. \A i \in DOMAIN y :
            y[i] \in 1..Len(T) /\ T[y[i]].on = x
      <4> TAKE i \in DOMAIN y
      <4>1. CASE i = Len(z) + 1
        BY <1>1, <1>4, <1>12, <2>2, <4>1
      <4>2. CASE i \in DOMAIN z
        <5>1. PICK q \in 1..Len(R) : q = y[i] /\ R[q].on = p
          BY <1>12, <1>16, <4>2
        <5>2. q \in 1..Len(T) /\ T[q] = R[q]
          BY <1>1
        <5> QED BY <2>2, <5>1, <5>2
      <4> QED BY <1>12, <4>1, <4>2
    <3>3. ASSUME NEW i \in DOMAIN y, NEW j \in DOMAIN y, i < j
          PROVE  y[i] < y[j]
      <4>1. i \in DOMAIN z
        BY <1>12, <3>3
      <4>2. y[i] \in 1..Len(R)
        BY <1>12, <1>16, <4>1
      <4>3. CASE j \in DOMAIN z
        BY <1>12, <1>16, <3>3, <4>1, <4>3
      <4>4. CASE j = Len(z) + 1
        BY <1>a, <1>1, <1>12, <4>2, <4>4
      <4> QED BY <1>12, <4>3, <4>4
    <3> QED BY <1>5, <1>6, <2>2, <3>1, <3>2, <3>3
  <2> QED BY <2>1, <2>2
<1>14. Placed(N, T, Q, B)
  <2> SUFFICES ASSUME NEW r \in 1..Len(T)
               PROVE  LET v == N[T[r].on].reactions IN
                      \/ One(v, {r}) /\ None(Q, ReactionJobs(r)) /\ None(B, {r})
                      \/ None(v, {r}) /\ One(Q, ReactionJobs(r)) /\ None(B, {r})
                      \/ None(v, {r}) /\ None(Q, ReactionJobs(r)) /\ One(B, {r})
    BY DEF Placed
  <2>1. CASE r = n
    <3>1. None(z, {n})
      BY <1>4, <1>16 DEF None
    <3>2. One(y, {n})
      BY <1>4, <3>1, <1>c, AppendPositions
    <3>3. None(Q, ReactionJobs(n))
      BY <1>2, <1>4 DEF QueueOK, None, ReactionJobs
    <3>4. None(B, {n})
      BY <1>2, <1>4 DEF StartedOK, None
    <3> QED BY <1>1, <1>5, <1>6, <2>1, <3>2, <3>3, <3>4
  <2>2. CASE r \in 1..Len(R)
    <3>1. T[r] = R[r] /\ R[r].on \in 1..Len(P) /\ n \notin {r}
      BY <1>1, <1>2, <1>4, <2>2 DEF ReactionsOK
    <3>2. /\ None(N[R[r].on].reactions, {r}) <=> None(P[R[r].on].reactions, {r})
          /\ One(N[R[r].on].reactions, {r}) <=> One(P[R[r].on].reactions, {r})
      <4>1. CASE R[r].on = p
        <5> PICK X : X = {r}
          OBVIOUS
        <5>1. n \notin X
          BY <3>1
        <5>2. /\ None(y, X) <=> None(z, X)
              /\ One(y, X) <=> One(z, X)
          BY <1>4, <5>1, <1>c, AppendPositions
        <5> QED BY <1>b, <1>5, <1>6, <4>1, <5>2
      <4>2. CASE R[r].on # p
        BY <1>6, <3>1, <4>2
      <4> QED BY <4>1, <4>2
    <3> QED BY <1>2, <2>2, <3>1, <3>2 DEF Placed
  <2> QED BY <1>1, <2>1, <2>2
<1>15. InHand(N, C, T, Q, S, B, A, 0, d)
  BY <1>1, <1>8, <1>9, <1>10, <1>11, <1>13, <1>14 DEF InHand
<1> QED BY <1>a, <1>15 DEF N, u

\* The reaction of a settled promise is queued at once.
LEMMA RegisterQueued ==
  ASSUME NEW P, NEW C, NEW R, NEW Q, NEW S, NEW B, NEW A, NEW d,
         InHand(P, C, R, Q, S, B, A, 0, d),
         NEW e, Unowned(P, C, R, A, e), NEW p, p = e.on, P[p].state # "pending"
  PROVE  InHand(P, C, Append(R, e),
                Append(Q, ReactionJob(Len(R) + 1, P[p].state, P[p].result)), S, B, A, 0, d)
<1>a. PICK T, n, j : /\ T = Append(R, e) /\ n = Len(R) + 1
                     /\ j = ReactionJob(n, P[p].state, P[p].result)
  OBVIOUS
<1>b. PICK K : K = Append(Q, j)
  OBVIOUS
<1>0. p \in 1..Len(P) /\ e \in ReactionRecords
  BY DEF Unowned
<1>1. /\ Lists(P, C, T, Q, S, B, A) /\ PromisesOK(P, T) /\ ReactionsOK(P, C, T)
      /\ QueueOK(P, T, Q) /\ StackOK(P, C, T, S, B) /\ StartedOK(P, T, B)
      /\ AbandonedOK(C, T, S, B, A) /\ Derived(C, T, S, B, A, d) /\ Ordered(T, Q, B)
      /\ Len(T) = n /\ Len(R) \in Nat /\ T[n].on = p
      /\ \A r \in 1..Len(R) : T[r] = R[r] /\ r \in 1..Len(T)
      /\ \A r \in 1..Len(T) : r \in 1..Len(R) \/ r = n
  <2>1. /\ Lists(P, C, T, Q, S, B, A) /\ PromisesOK(P, T) /\ ReactionsOK(P, C, T)
        /\ QueueOK(P, T, Q) /\ StackOK(P, C, T, S, B) /\ StartedOK(P, T, B)
    BY <1>a, RegisterOnly
  <2>2. AbandonedOK(C, T, S, B, A) /\ Derived(C, T, S, B, A, d) /\ Ordered(T, Q, B)
    BY <1>a, RegisterOnly
  <2>3. Len(T) = Len(R) + 1 /\ Len(R) \in Nat /\ T[Len(R) + 1].on = e.on
    BY <1>a, RegisterOnly
  <2>4. \A r \in 1..Len(R) : T[r] = R[r] /\ r \in 1..Len(T)
    BY <1>a, RegisterOnly
  <2>5. \A r \in 1..Len(T) : r \in 1..Len(R) \/ r = Len(R) + 1
    BY <1>a, RegisterOnly
  <2> QED BY <1>a, <2>1, <2>2, <2>3, <2>4, <2>5
<1>2. CellsOK(P, C) /\ Custody(P, C, Q, S, A, 0) /\ Placed(P, R, Q, B) /\ PromisesOK(P, R)
      /\ StartedOK(P, R, B) /\ QueueOK(P, R, Q) /\ ReactionsOK(P, C, R)
  BY DEF InHand
<1>3. /\ P[p] \in PromiseRecords /\ Len(P) \in Nat /\ Q \in Seq(JobRecords)
      /\ Len(Q) \in Nat /\ DOMAIN Q = 1..Len(Q)
  BY <1>0, <1>1, Entries DEF Lists
<1>4. n \in Nat /\ n \in 1..Len(T) /\ n \notin 1..Len(R)
  BY <1>a, <1>1
<1>5. /\ j \in JobRecords /\ j.kind = "reaction" /\ j.of = n
      /\ j.outcome = P[p].state /\ j.arg = P[p].result
  BY <1>a, <1>3, <1>4 DEF ReactionJob, JobRecords, PromiseRecords
<1>6. /\ K \in Seq(JobRecords) /\ K[Len(Q) + 1] = j
      /\ DOMAIN K = 1..(Len(Q) + 1)
      /\ \A i \in DOMAIN K : i \in DOMAIN Q \/ i = Len(Q) + 1
      /\ \A i \in DOMAIN Q : K[i] = Q[i]
  BY <1>b, <1>3, <1>5, AppendEntries
<1>7. QueueOK(P, T, K)
  <2> SUFFICES ASSUME NEW i \in DOMAIN K
               PROVE  /\ K[i].kind = "reaction" =>
                           /\ K[i].of \in 1..Len(T)
                           /\ P[T[K[i].of].on].state # "pending"
                           /\ K[i].outcome = P[T[K[i].of].on].state
                           /\ K[i].arg = P[T[K[i].of].on].result
                      /\ K[i].kind = "thenable" =>
                           K[i].of \in 1..Len(P) /\ K[i].arg \in Thenables \cup 1..Len(P)
    BY DEF QueueOK
  <2>1. CASE i \in DOMAIN Q
    BY <1>1, <1>6, <2>1 DEF QueueOK
  <2>2. CASE i = Len(Q) + 1
    <3>1. K[i] = j
      BY <1>6, <2>2
    <3> QED BY <1>1, <1>4, <1>5, <3>1
  <2> QED BY <1>6, <2>1, <2>2
<1>8. /\ \A i \in DOMAIN Q : Q[i].kind = "reaction" => Q[i].of \in 1..Len(R)
      /\ \A i \in DOMAIN B : B[i] \in 1..Len(R)
      /\ \A r \in 1..Len(R) : r < n
  <2>1. \A i \in DOMAIN Q : Q[i].kind = "reaction" => Q[i].of \in 1..Len(R)
    BY <1>2 DEF QueueOK
  <2>2. \A i \in DOMAIN B : B[i] \in 1..Len(R)
    BY <1>2 DEF StartedOK
  <2>3. \A r \in 1..Len(R) : r < n
    BY <1>a, <1>1
  <2> QED BY <2>1, <2>2, <2>3
<1>9. Ordered(T, K, B)
  <2>1. ASSUME NEW i \in DOMAIN K, NEW l \in DOMAIN K, i < l,
               K[i].kind = "reaction", K[l].kind = "reaction",
               T[K[i].of].on = T[K[l].of].on
        PROVE  K[i].of < K[l].of
    <3>1. i \in DOMAIN Q /\ K[i] = Q[i]
      BY <1>3, <1>6, <2>1
    <3>2. CASE l \in DOMAIN Q
      BY <1>1, <1>6, <2>1, <3>1, <3>2 DEF Ordered
    <3>3. CASE l = Len(Q) + 1
      BY <1>5, <1>6, <1>8, <2>1, <3>1, <3>3
    <3> QED BY <1>6, <3>2, <3>3
  <2>2. ASSUME NEW i \in DOMAIN B, NEW l \in DOMAIN K, K[l].kind = "reaction",
               T[B[i]].on = T[K[l].of].on
        PROVE  B[i] < K[l].of
    <3>1. CASE l \in DOMAIN Q
      BY <1>1, <1>6, <2>2, <3>1 DEF Ordered
    <3>2. CASE l = Len(Q) + 1
      BY <1>5, <1>6, <1>8, <3>2
    <3> QED BY <1>6, <3>1, <3>2
  <2>3. \A i, l \in DOMAIN B : i < l /\ T[B[i]].on = T[B[l]].on => B[i] < B[l]
    BY <1>1 DEF Ordered
  <2>4. \A i, l \in DOMAIN K :
          /\ i < l /\ K[i].kind = "reaction" /\ K[l].kind = "reaction"
          /\ T[K[i].of].on = T[K[l].of].on
          => K[i].of < K[l].of
    BY <2>1
  <2>5. \A i \in DOMAIN B, l \in DOMAIN K :
          K[l].kind = "reaction" /\ T[B[i]].on = T[K[l].of].on => B[i] < K[l].of
    BY <2>2
  <2> QED BY <2>3, <2>4, <2>5 DEF Ordered
<1>10. Custody(P, C, K, S, A, 0)
  <2>1. \A x : j \notin ThenableJobs(x)
    BY <1>5 DEF ThenableJobs
  <2>2. \A x : /\ None(K, ThenableJobs(x)) <=> None(Q, ThenableJobs(x))
               /\ One(K, ThenableJobs(x)) <=> One(Q, ThenableJobs(x))
    BY <1>3, <1>5, <2>1, <1>b, AppendPositions
  <2> SUFFICES ASSUME NEW x \in 1..Len(P) PROVE Sole(P, C, K, S, A, x)
    BY <1>3 DEF Custody
  <2>3. Sole(P, C, Q, S, A, x)
    BY <1>2, <1>3 DEF Custody
  <2> QED BY <2>2, <2>3 DEF Sole
<1>11. Placed(P, T, K, B)
  <2> SUFFICES ASSUME NEW r \in 1..Len(T)
               PROVE  LET v == P[T[r].on].reactions IN
                      \/ One(v, {r}) /\ None(K, ReactionJobs(r)) /\ None(B, {r})
                      \/ None(v, {r}) /\ One(K, ReactionJobs(r)) /\ None(B, {r})
                      \/ None(v, {r}) /\ None(K, ReactionJobs(r)) /\ One(B, {r})
    BY DEF Placed
  <2>1. j \in ReactionJobs(n) /\ \A x : x # n => j \notin ReactionJobs(x)
    BY <1>5 DEF ReactionJobs
  <2>2. CASE r = n
    <3>1. None(P[p].reactions, {n})
      BY <1>0, <1>2, <1>4 DEF PromisesOK, None
    <3>2. None(Q, ReactionJobs(n))
      BY <1>2, <1>4 DEF QueueOK, None, ReactionJobs
    <3>3. One(K, ReactionJobs(n))
      BY <1>3, <1>5, <2>1, <3>2, <1>b, AppendPositions
    <3>4. None(B, {n})
      BY <1>2, <1>4 DEF StartedOK, None
    <3> QED BY <1>1, <2>2, <3>1, <3>3, <3>4
  <2>3. CASE r \in 1..Len(R)
    <3>1. T[r] = R[r] /\ r # n
      BY <1>1, <1>4, <2>3
    <3>2. /\ None(K, ReactionJobs(r)) <=> None(Q, ReactionJobs(r))
          /\ One(K, ReactionJobs(r)) <=> One(Q, ReactionJobs(r))
      BY <1>3, <1>5, <2>1, <3>1, <1>b, AppendPositions
    <3> QED BY <1>2, <2>3, <3>1, <3>2 DEF Placed
  <2> QED BY <1>1, <2>2, <2>3
<1>12. InHand(P, C, T, K, S, B, A, 0, d)
  BY <1>1, <1>2, <1>6, <1>7, <1>9, <1>10, <1>11 DEF InHand, Lists
<1> QED BY <1>a, <1>b, <1>12

-----------------------------------------------------------------------------
(* Moves of a reaction.                                                     *)

\* A reaction job is taken: its reaction has started and is in hand.
LEMMA StartReaction ==
  ASSUME NEW P, NEW C, NEW R, NEW Q, NEW S, NEW B, NEW A, NEW r,
         InHand(P, C, R, Q, S, B, A, 0, 0), S = <<>>,
         Q # <<>>, Head(Q).kind = "reaction", r = Head(Q).of
  PROVE  /\ r \in 1..Len(R) /\ R[r].on \in 1..Len(P)
         /\ Head(Q).outcome = P[R[r].on].state /\ Head(Q).arg = P[R[r].on].result
         /\ P[R[r].on].state # "pending"
         /\ InHand(P, C, R, Tail(Q), S, Append(B, r), A, 0, r)
<1>a. PICK j, t, E : j = Head(Q) /\ t = Tail(Q) /\ E = Append(B, r)
  OBVIOUS
<1>1. /\ Lists(P, C, R, Q, S, B, A) /\ PromisesOK(P, R) /\ CellsOK(P, C)
      /\ ReactionsOK(P, C, R) /\ QueueOK(P, R, Q) /\ StackOK(P, C, R, S, B)
      /\ StartedOK(P, R, B) /\ AbandonedOK(C, R, S, B, A) /\ Custody(P, C, Q, S, A, 0)
      /\ Placed(P, R, Q, B) /\ Derived(C, R, S, B, A, 0) /\ Ordered(R, Q, B)
  BY DEF InHand
<1>2. /\ Len(P) \in Nat /\ Q \in Seq(JobRecords) /\ Len(R) \in Nat /\ B \in Seq(Nat)
      /\ Len(B) \in Nat
  BY <1>1, Entries DEF Lists
<1>3. /\ Lists(P, C, R, t, S, B, A) /\ QueueOK(P, R, t) /\ Ordered(R, t, B)
      /\ j = Q[1] /\ 1 \in DOMAIN Q /\ j \in JobRecords
      /\ \A i \in DOMAIN t : i + 1 \in DOMAIN Q /\ t[i] = Q[i + 1]
  BY <1>a, <1>1, QueuePop, SMTT(30)
<1>4. j.kind = "reaction" /\ j.of = r
  BY <1>a
<1>5. /\ r \in 1..Len(R) /\ R[r].on \in 1..Len(P)
      /\ j.outcome = P[R[r].on].state /\ j.arg = P[R[r].on].result
      /\ P[R[r].on].state # "pending"
  BY <1>1, <1>3, <1>4 DEF QueueOK, ReactionsOK
<1>6. r \in Nat
  BY <1>2, <1>5
<1>7. /\ E \in Seq(Nat) /\ DOMAIN B = 1..Len(B) /\ DOMAIN E = 1..(Len(B) + 1)
      /\ E[Len(B) + 1] = r
      /\ \A i \in DOMAIN B : E[i] = B[i]
      /\ \A i \in DOMAIN E : i \in DOMAIN B \/ i = Len(B) + 1
  BY <1>a, <1>2, <1>6, AppendEntries, SMTT(30)
<1>8. /\ \A q : /\ None(E, {q}) <=> None(B, {q}) /\ q # r
                /\ q # r => (One(E, {q}) <=> One(B, {q}))
      /\ None(B, {r}) => One(E, {r})
  <2>1. \A X : /\ None(E, X) <=> None(B, X) /\ r \notin X
               /\ r \notin X => (One(E, X) <=> One(B, X))
               /\ r \in X /\ None(B, X) => One(E, X)
    <3>1. \A e \in Nat : \A X :
            /\ None(Append(B, e), X) <=> None(B, X) /\ e \notin X
            /\ e \notin X => (One(Append(B, e), X) <=> One(B, X))
            /\ e \in X /\ None(B, X) => One(Append(B, e), X)
      BY <1>2, AppendPositions
    <3> QED BY <1>a, <1>6, <3>1
  <2>2. \A q : r \in {q} <=> q = r
    OBVIOUS
  <2> QED BY <2>1, <2>2
<1>9. Lists(P, C, R, t, S, E, A)
  BY <1>3, <1>7 DEF Lists
<1>10. StackOK(P, C, R, S, E)
  BY DEF StackOK
<1>11. StartedOK(P, R, E)
  <2> SUFFICES ASSUME NEW i \in DOMAIN E
               PROVE  E[i] \in 1..Len(R) /\ P[R[E[i]].on].state # "pending"
    BY DEF StartedOK
  <2>1. CASE i \in DOMAIN B
    BY <1>1, <1>7, <2>1 DEF StartedOK
  <2>2. CASE i = Len(B) + 1
    BY <1>5, <1>7, <2>2
  <2> QED BY <1>7, <2>1, <2>2
<1>12. AbandonedOK(C, R, S, E, A)
  BY <1>1, <1>8 DEF AbandonedOK
<1>13. j \in ReactionJobs(r) /\ \A q : q # r => j \notin ReactionJobs(q)
  BY <1>3, <1>4 DEF ReactionJobs
<1>14. /\ None(P[R[r].on].reactions, {r}) /\ One(Q, ReactionJobs(r)) /\ None(B, {r})
  <2>1. ~None(Q, ReactionJobs(r))
    BY <1>3, <1>13 DEF None
  <2> QED BY <1>1, <1>5, <2>1 DEF Placed
<1>15. Placed(P, R, t, E)
  <2>1. None(t, ReactionJobs(r))
    BY <1>a, <1>2, <1>13, <1>14, PopPositions
  <2>2. One(E, {r})
    BY <1>8, <1>14
  <2>3. \A q : q # r => /\ None(t, ReactionJobs(q)) <=> None(Q, ReactionJobs(q))
                        /\ One(t, ReactionJobs(q)) <=> One(Q, ReactionJobs(q))
    BY <1>a, <1>2, <1>13, PopPositions
  <2> SUFFICES ASSUME NEW q \in 1..Len(R)
               PROVE  LET w == P[R[q].on].reactions IN
                      \/ One(w, {q}) /\ None(t, ReactionJobs(q)) /\ None(E, {q})
                      \/ None(w, {q}) /\ One(t, ReactionJobs(q)) /\ None(E, {q})
                      \/ None(w, {q}) /\ None(t, ReactionJobs(q)) /\ One(E, {q})
    BY DEF Placed
  <2>4. CASE q = r
    BY <1>14, <2>1, <2>2, <2>4
  <2>5. CASE q # r
    BY <1>1, <1>8, <2>3, <2>5 DEF Placed
  <2> QED BY <2>4, <2>5
<1>16. Custody(P, C, t, S, A, 0)
  <2>1. \A p : j \notin ThenableJobs(p)
    BY <1>4 DEF ThenableJobs
  <2>2. \A p : /\ None(t, ThenableJobs(p)) <=> None(Q, ThenableJobs(p))
               /\ One(t, ThenableJobs(p)) <=> One(Q, ThenableJobs(p))
    BY <1>a, <1>2, <2>1, PopPositions
  <2> SUFFICES ASSUME NEW p \in 1..Len(P) PROVE Sole(P, C, t, S, A, p)
    BY <1>2 DEF Custody
  <2>3. Sole(P, C, Q, S, A, p)
    BY <1>1, <1>2 DEF Custody
  <2> QED BY <2>2, <2>3 DEF Sole
<1>19. \A q \in 1..Len(R) : q # 0
  OBVIOUS
<1>17. Derived(C, R, S, E, A, r)
  <2>1. \A k : None(S, Handlers(k))
    BY DEF None
  <2>2. ~C[R[r].cell].used
    <3>1. r \in 1..Len(R) /\ r # 0 /\ Derived(C, R, S, B, A, 0)
      BY <1>1, <1>5, <1>19
    <3>2. C[R[r].cell].used => ~None(B, {r})
      BY <3>1, DerivedElse
    <3> QED BY <1>14, <3>2
  <2>3. R[r].cell \notin A
    <3> SUFFICES ASSUME R[r].cell \in A PROVE FALSE
      OBVIOUS
    <3>1. PICK q \in 1..Len(R) : R[q].cell = R[r].cell /\ ~None(B, {q})
      BY <1>1, <2>2 DEF AbandonedOK
    <3>2. q = r
      BY <1>1, <1>5, <3>1 DEF ReactionsOK
    <3> QED BY <1>14, <3>1, <3>2
  <2>4. ~None(E, {r}) /\ r \in 0..Len(R)
    <3>1. ~None(E, {r})
      BY <1>8
    <3>2. r \in 0..Len(R)
      BY <1>2, <1>5
    <3> QED BY <3>1, <3>2
  <2> SUFFICES ASSUME NEW q \in 1..Len(R)
               PROVE  LET c == R[q].cell IN
                      IF q = r
                      THEN ~None(E, {q}) /\ None(S, Handlers(c)) /\ ~C[c].used /\ c \notin A
                      ELSE /\ C[c].used => ~None(E, {q}) /\ None(S, Handlers(c))
                           /\ ~None(E, {q}) /\ None(S, Handlers(c)) => C[c].used \/ c \in A
    BY <2>4 DEF Derived
  <2>5. CASE q = r
    BY <2>1, <2>2, <2>3, <2>4, <2>5
  <2>6. CASE q # r
    <3>1. /\ C[R[q].cell].used => ~None(B, {q}) /\ None(S, Handlers(R[q].cell))
          /\ ~None(B, {q}) /\ None(S, Handlers(R[q].cell)) =>
               C[R[q].cell].used \/ R[q].cell \in A
      BY <1>1, <1>19 DEF Derived
    <3> QED BY <1>8, <2>6, <3>1
  <2> QED BY <2>5, <2>6
<1>18. Ordered(R, t, E)
  <2>1. ASSUME NEW i \in DOMAIN E, NEW k \in DOMAIN E, i < k, R[E[i]].on = R[E[k]].on
        PROVE  E[i] < E[k]
    <3>1. i \in DOMAIN B
      BY <1>2, <1>7, <2>1
    <3>2. CASE k \in DOMAIN B
      BY <1>1, <1>7, <2>1, <3>1, <3>2 DEF Ordered
    <3>3. CASE k = Len(B) + 1
      <4>1. E[k] = r /\ E[i] = B[i]
        BY <1>7, <3>1, <3>3
      <4> QED BY <1>1, <1>3, <1>4, <2>1, <3>1, <4>1 DEF Ordered
    <3> QED BY <1>7, <3>2, <3>3
  <2>2. ASSUME NEW i \in DOMAIN t, NEW k \in DOMAIN t, i < k,
               t[i].kind = "reaction", t[k].kind = "reaction", R[t[i].of].on = R[t[k].of].on
        PROVE  t[i].of < t[k].of
    BY <1>3, <2>2 DEF Ordered
  <2>3. ASSUME NEW i \in DOMAIN E, NEW k \in DOMAIN t, t[k].kind = "reaction",
               R[E[i]].on = R[t[k].of].on
        PROVE  E[i] < t[k].of
    <3>1. CASE i \in DOMAIN B
      BY <1>3, <1>7, <2>3, <3>1 DEF Ordered
    <3>2. CASE i = Len(B) + 1
      <4>1. PICK m \in DOMAIN Q : t[k] = Q[m] /\ 1 < m
        <5>1. k + 1 \in DOMAIN Q /\ t[k] = Q[k + 1] /\ 1 < k + 1
          BY <1>3, Entries
        <5> QED BY <5>1
      <4>2. E[i] = Q[1].of /\ Q[1].kind = "reaction"
        BY <1>3, <1>4, <1>7, <3>2
      <4> QED BY <1>1, <1>3, <2>3, <4>1, <4>2 DEF Ordered
    <3> QED BY <1>7, <3>1, <3>2
  <2> QED BY <2>1, <2>2, <2>3 DEF Ordered
<1>20. InHand(P, C, R, t, S, E, A, 0, r)
  BY <1>1, <1>3, <1>9, <1>10, <1>11, <1>12, <1>15, <1>16, <1>17, <1>18 DEF InHand
<1> QED BY <1>a, <1>5, <1>20

\* The handler of the reaction in hand is called.
LEMMA PushHandler ==
  ASSUME NEW P, NEW C, NEW R, NEW Q, NEW S, NEW B, NEW A, NEW d,
         InHand(P, C, R, Q, S, B, A, 0, d), d # 0, S = <<>>,
         NEW v \in Plain \cup Thenables \cup 1..Len(P)
  PROVE  InHand(P, C, R, Q, <<Frame("handler", R[d].cell, v)>>, B, A, 0, 0)
<1>a. PICK f, t : f = Frame("handler", R[d].cell, v) /\ t = <<f>>
  OBVIOUS
<1>1. /\ Lists(P, C, R, Q, S, B, A) /\ PromisesOK(P, R) /\ CellsOK(P, C)
      /\ ReactionsOK(P, C, R) /\ QueueOK(P, R, Q)
      /\ StartedOK(P, R, B) /\ AbandonedOK(C, R, S, B, A) /\ Custody(P, C, Q, S, A, 0)
      /\ Placed(P, R, Q, B) /\ Derived(C, R, S, B, A, d) /\ Ordered(R, Q, B)
  BY DEF InHand
<1>2. Len(P) \in Nat /\ Len(C) \in Nat /\ Len(R) \in Nat
  BY <1>1, Entries
<1>3. /\ d \in 1..Len(R) /\ ~None(B, {d}) /\ ~C[R[d].cell].used /\ R[d].cell \notin A
  BY <1>1, <1>2, DerivedInHand
<1>4. R[d].cell \in 1..Len(C)
  BY <1>1, <1>3 DEF ReactionsOK
<1>5. f \in FrameRecords /\ f.kind = "handler" /\ f.cell = R[d].cell /\ f.value = v
  BY <1>a, <1>2, <1>4 DEF Frame, FrameRecords, AllValues
<1>6. t \in Seq(FrameRecords) /\ Len(t) = 1 /\ DOMAIN t = {1} /\ t[1] = f
  BY <1>a, <1>5
<1>7. Lists(P, C, R, Q, t, B, A)
  BY <1>1, <1>6, PromiseAssumption DEF Lists
<1>8. StackOK(P, C, R, t, B)
  BY <1>3, <1>4, <1>5, <1>6 DEF StackOK
<1>9. /\ \A p : None(t, Gets(C, p))
      /\ \A c : None(t, Handlers(c)) <=> c # R[d].cell
      /\ \A p : None(S, Gets(C, p)) /\ ~One(S, Gets(C, p))
      /\ \A c : None(S, Handlers(c))
  <2>1. \A p : None(t, Gets(C, p))
    BY <1>5, <1>6 DEF None, Gets
  <2>2. \A c : None(t, Handlers(c)) <=> c # R[d].cell
    BY <1>5, <1>6 DEF None, Handlers
  <2>3. \A X : None(S, X) /\ ~One(S, X)
    BY DEF None, One
  <2> QED BY <2>1, <2>2, <2>3
<1>10. AbandonedOK(C, R, t, B, A)
  BY <1>1, <1>3, <1>9 DEF AbandonedOK
<1>11. Custody(P, C, Q, t, A, 0)
  <2> SUFFICES ASSUME NEW p \in 1..Len(P) PROVE Sole(P, C, Q, t, A, p)
    BY <1>2 DEF Custody
  <2>1. Sole(P, C, Q, S, A, p)
    BY <1>1, <1>2 DEF Custody
  <2> QED BY <1>9, <2>1 DEF Sole
<1>12. Derived(C, R, t, B, A, 0)
  <2> SUFFICES ASSUME NEW q \in 1..Len(R)
               PROVE  LET c == R[q].cell IN
                      /\ C[c].used => ~None(B, {q}) /\ None(t, Handlers(c))
                      /\ ~None(B, {q}) /\ None(t, Handlers(c)) => C[c].used \/ c \in A
    <3>1. 0 \in 0..Len(R) /\ \A q \in 1..Len(R) : q # 0
      BY <1>2
    <3> QED BY <3>1 DEF Derived
  <2>1. CASE q = d
    BY <1>3, <1>9, <2>1
  <2>2. CASE q # d
    <3>1. R[q].cell # R[d].cell
      BY <1>1, <1>3, <2>2 DEF ReactionsOK
    <3>2. /\ C[R[q].cell].used => ~None(B, {q}) /\ None(S, Handlers(R[q].cell))
          /\ ~None(B, {q}) /\ None(S, Handlers(R[q].cell)) =>
               C[R[q].cell].used \/ R[q].cell \in A
      BY <1>1, <2>2, DerivedElse
    <3> QED BY <1>9, <3>1, <3>2
  <2> QED BY <2>1, <2>2
<1> QED BY <1>a, <1>1, <1>7, <1>8, <1>10, <1>11, <1>12 DEF InHand

\* The handler is over: its reaction is in hand.
LEMMA PopHandler ==
  ASSUME NEW P, NEW C, NEW R, NEW Q, NEW S, NEW B, NEW A,
         InHand(P, C, R, Q, S, B, A, 0, 0), S # <<>>, Head(S).kind = "handler"
  PROVE  \E d \in 1..Len(R) : /\ R[d].cell = Head(S).cell
                              /\ InHand(P, C, R, Q, Tail(S), B, A, 0, d)
<1>a. PICK f, t : f = Head(S) /\ t = Tail(S)
  OBVIOUS
<1>1. /\ Lists(P, C, R, Q, S, B, A) /\ PromisesOK(P, R) /\ CellsOK(P, C)
      /\ ReactionsOK(P, C, R) /\ QueueOK(P, R, Q) /\ StackOK(P, C, R, S, B)
      /\ StartedOK(P, R, B) /\ AbandonedOK(C, R, S, B, A) /\ Custody(P, C, Q, S, A, 0)
      /\ Placed(P, R, Q, B) /\ Derived(C, R, S, B, A, 0) /\ Ordered(R, Q, B)
  BY DEF InHand
<1>2. /\ Len(P) \in Nat /\ Len(R) \in Nat /\ S \in Seq(FrameRecords)
  BY <1>1, Entries DEF Lists
<1>3. /\ f = S[1] /\ 1 \in DOMAIN S /\ f \in FrameRecords /\ f.kind = "handler"
      /\ t \in Seq(FrameRecords) /\ Len(t) = Len(S) - 1
  BY <1>a, <1>2, HeadTailProperties
<1>4. t = <<>>
  <2>1. Len(S) = 1
    BY <1>1, <1>3, HandlerLast
  <2> QED BY <1>3, <2>1
<1>5. PICK d \in 1..Len(R) : R[d].cell = f.cell /\ ~None(B, {d})
  BY <1>1, <1>3 DEF StackOK
<1>6. ~None(S, Handlers(f.cell))
  BY <1>3 DEF None, Handlers
<1>7. ~C[f.cell].used /\ f.cell \notin A
  <2>1. ~C[f.cell].used
    BY <1>1, <1>2, <1>5, <1>6, DerivedElse
  <2> QED BY <1>1, <1>6, <2>1 DEF AbandonedOK
<1>8. Lists(P, C, R, Q, t, B, A) /\ StackOK(P, C, R, t, B) /\ AbandonedOK(C, R, t, B, A)
  BY <1>a, <1>1, StackPop
<1>9. \A X : None(t, X)
  BY <1>4 DEF None
<1>10. Custody(P, C, Q, t, A, 0)
  <2>1. \A p : f \notin Gets(C, p)
    BY <1>3 DEF Gets
  <2>2. \A p : /\ None(t, Gets(C, p)) <=> None(S, Gets(C, p))
               /\ One(t, Gets(C, p)) <=> One(S, Gets(C, p))
    BY <1>a, <1>2, <2>1, PopPositions
  <2> SUFFICES ASSUME NEW p \in 1..Len(P) PROVE Sole(P, C, Q, t, A, p)
    BY <1>2 DEF Custody
  <2>3. Sole(P, C, Q, S, A, p)
    BY <1>1, <1>2 DEF Custody
  <2> QED BY <2>2, <2>3 DEF Sole
<1>11. Derived(C, R, t, B, A, d)
  <2>0. d \in 0..Len(R)
    BY <1>2
  <2> SUFFICES ASSUME NEW q \in 1..Len(R)
               PROVE  LET c == R[q].cell IN
                      IF q = d
                      THEN ~None(B, {q}) /\ None(t, Handlers(c)) /\ ~C[c].used /\ c \notin A
                      ELSE /\ C[c].used => ~None(B, {q}) /\ None(t, Handlers(c))
                           /\ ~None(B, {q}) /\ None(t, Handlers(c)) => C[c].used \/ c \in A
    BY <2>0 DEF Derived
  <2>1. CASE q = d
    BY <1>5, <1>7, <1>9, <2>1
  <2>2. CASE q # d
    <3>1. R[q].cell # f.cell
      BY <1>1, <1>5, <2>2 DEF ReactionsOK
    <3>2. /\ C[R[q].cell].used => ~None(B, {q}) /\ None(S, Handlers(R[q].cell))
          /\ ~None(B, {q}) /\ None(S, Handlers(R[q].cell)) =>
               C[R[q].cell].used \/ R[q].cell \in A
      BY <1>1, <1>2, DerivedElse
    <3>3. f \notin Handlers(R[q].cell)
      BY <3>1 DEF Handlers
    <3>4. None(S, Handlers(R[q].cell))
      BY <1>a, <1>2, <1>9, <3>3, PopPositions
    <3> QED BY <1>9, <2>2, <3>2, <3>4
  <2> QED BY <2>1, <2>2
<1>12. InHand(P, C, R, Q, t, B, A, 0, d)
  BY <1>1, <1>8, <1>10, <1>11 DEF InHand
<1> QED BY <1>a, <1>5, <1>12

-----------------------------------------------------------------------------
(* A runtime failure.                                                       *)

\* The promise in hand is lost: no pair of it is left unused, and c names one
\* of them.
LEMMA LoseHeld ==
  ASSUME NEW P, NEW C, NEW R, NEW Q, NEW S, NEW B, NEW A, NEW h, NEW d,
         InHand(P, C, R, Q, S, B, A, h, d), h # 0,
         NEW c \in 1..Len(C), C[c].promise = h
  PROVE  InHand(P, C, R, Q, S, B, A \cup {c}, 0, d)
<1>a. PICK D : D = A \cup {c}
  OBVIOUS
<1>1. /\ Lists(P, C, R, Q, S, B, A) /\ AbandonedOK(C, R, S, B, A)
      /\ Custody(P, C, Q, S, A, h) /\ Derived(C, R, S, B, A, d)
  BY DEF InHand
<1>2. /\ Len(P) \in Nat /\ Len(R) \in Nat /\ DOMAIN C = 1..Len(C)
      /\ C[c] \in CellRecords
  BY <1>1, Entries DEF Lists
<1>3. h \in 1..Len(P) /\ Free(P, C, Q, S, A, h)
  BY <1>1, <1>2 DEF Custody
<1>4. C[c].used
  <2>1. C[c] \notin UnusedPairs(h)
    BY <1>2, <1>3 DEF Free, None
  <2> QED BY <1>2, <2>1 DEF UnusedPairs, CellRecords
<1>5. Lists(P, C, R, Q, S, B, D)
  BY <1>a, <1>1 DEF Lists
<1>6. AbandonedOK(C, R, S, B, D)
  BY <1>a, <1>1, <1>4 DEF AbandonedOK
<1>7. Lost(C, D, h) = {c} /\ \A p : p # h => Lost(C, D, p) = Lost(C, A, p)
  <2>1. Lost(C, A, h) = {}
    BY <1>3 DEF Free
  <2> QED BY <1>a, <1>4, <2>1 DEF Lost
<1>8. Custody(P, C, Q, S, D, 0)
  <2>1. Sole(P, C, Q, S, D, h)
    BY <1>a, <1>3, <1>7 DEF Free, Sole
  <2>2. \A p \in 1..Len(P) : p # h => Sole(P, C, Q, S, D, p)
    <3> TAKE p \in 1..Len(P)
    <3> HAVE p # h
    <3>1. Sole(P, C, Q, S, A, p)
      BY <1>1 DEF Custody
    <3> QED BY <1>a, <1>7, <3>1 DEF Sole
  <2>3. \A p \in 1..Len(P) : p # 0
    BY <1>2
  <2> QED BY <1>2, <2>1, <2>2, <2>3 DEF Custody
<1>9. Derived(C, R, S, B, D, d)
  <2>1. d \in 0..Len(R)
    BY <1>1 DEF Derived
  <2>2. ASSUME NEW r \in 1..Len(R), r = d
        PROVE  /\ ~None(B, {r}) /\ None(S, Handlers(R[r].cell))
               /\ ~C[R[r].cell].used /\ R[r].cell \notin D
    BY <1>a, <1>1, <1>4, <2>2 DEF Derived
  <2>3. ASSUME NEW r \in 1..Len(R), r # d
        PROVE  /\ C[R[r].cell].used => ~None(B, {r}) /\ None(S, Handlers(R[r].cell))
               /\ ~None(B, {r}) /\ None(S, Handlers(R[r].cell)) =>
                    C[R[r].cell].used \/ R[r].cell \in D
    BY <1>a, <1>1, <2>3, DerivedElse
  <2> QED BY <2>1, <2>2, <2>3 DEF Derived
<1> QED BY <1>a, <1>5, <1>6, <1>8, <1>9 DEF InHand

\* The reaction in hand is given up: its pair stays unused.
LEMMA LoseReaction ==
  ASSUME NEW P, NEW C, NEW R, NEW Q, NEW S, NEW B, NEW A, NEW r,
         InHand(P, C, R, Q, S, B, A, 0, r), r # 0
  PROVE  InHand(P, C, R, Q, S, B, A \cup {R[r].cell}, 0, 0)
<1>a. PICK c, D : c = R[r].cell /\ D = A \cup {c}
  OBVIOUS
<1>1. /\ Lists(P, C, R, Q, S, B, A) /\ ReactionsOK(P, C, R)
      /\ AbandonedOK(C, R, S, B, A) /\ Custody(P, C, Q, S, A, 0)
      /\ Derived(C, R, S, B, A, r)
  BY DEF InHand
<1>2. Len(P) \in Nat /\ Len(R) \in Nat
  BY <1>1, Entries DEF Lists
<1>3. /\ r \in 1..Len(R) /\ ~None(B, {r}) /\ None(S, Handlers(c)) /\ ~C[c].used
  BY <1>a, <1>1, <1>2, DerivedInHand
<1>4. c \in 1..Len(C)
  BY <1>a, <1>1, <1>3 DEF ReactionsOK
<1>5. Lists(P, C, R, Q, S, B, D)
  BY <1>a, <1>1, <1>4 DEF Lists
<1>6. AbandonedOK(C, R, S, B, D)
  BY <1>a, <1>1, <1>3 DEF AbandonedOK
<1>7. Custody(P, C, Q, S, D, 0)
  <2>1. \A p : Lost(C, D, p) = Lost(C, A, p)
    BY <1>a, <1>3 DEF Lost
  <2>2. \A p \in 1..Len(P) : Sole(P, C, Q, S, A, p) => Sole(P, C, Q, S, D, p)
    BY <1>a, <2>1 DEF Sole
  <2>3. \A p \in 1..Len(P) : p # 0
    BY <1>2
  <2> QED BY <1>1, <2>2, <2>3 DEF Custody
<1>8. Derived(C, R, S, B, D, 0)
  <2>1. 0 \in 0..Len(R) /\ \A q \in 1..Len(R) : q # 0
    BY <1>2
  <2>2. ASSUME NEW q \in 1..Len(R)
        PROVE  /\ C[R[q].cell].used => ~None(B, {q}) /\ None(S, Handlers(R[q].cell))
               /\ ~None(B, {q}) /\ None(S, Handlers(R[q].cell)) =>
                    C[R[q].cell].used \/ R[q].cell \in D
    <3>1. CASE q = r
      BY <1>a, <1>3, <3>1
    <3>2. CASE q # r
      <4>1. /\ C[R[q].cell].used => ~None(B, {q}) /\ None(S, Handlers(R[q].cell))
            /\ ~None(B, {q}) /\ None(S, Handlers(R[q].cell)) =>
                 C[R[q].cell].used \/ R[q].cell \in A
        BY <1>1, <3>2, DerivedElse
      <4> QED BY <1>a, <4>1
    <3> QED BY <3>1, <3>2
  <2> QED BY <2>1, <2>2 DEF Derived
<1> QED BY <1>a, <1>5, <1>6, <1>7, <1>8 DEF InHand

\* The innermost n frames are unwound.  A read of "then" among them loses its
\* promise for good; a handler leaves its pair unused.
LEMMA Unwind ==
  ASSUME NEW P, NEW C, NEW R, NEW Q, NEW S, NEW B, NEW A,
         InHand(P, C, R, Q, S, B, A, 0, 0), NEW n \in 1..Len(S)
  PROVE  InHand(P, C, R, Q, SubSeq(S, n + 1, Len(S)), B,
                A \cup {S[i].cell : i \in {j \in 1..n : S[j].kind \in {"get", "handler"}}},
                0, 0)
<1>a. PICK t, G : /\ t = SubSeq(S, n + 1, Len(S))
                  /\ G = {S[i].cell : i \in {j \in 1..n : S[j].kind \in {"get", "handler"}}}
  OBVIOUS
<1>b. PICK D : D = A \cup G
  OBVIOUS
<1>1. /\ Lists(P, C, R, Q, S, B, A) /\ PromisesOK(P, R) /\ CellsOK(P, C)
      /\ ReactionsOK(P, C, R) /\ QueueOK(P, R, Q) /\ StackOK(P, C, R, S, B)
      /\ StartedOK(P, R, B) /\ AbandonedOK(C, R, S, B, A) /\ Custody(P, C, Q, S, A, 0)
      /\ Placed(P, R, Q, B) /\ Derived(C, R, S, B, A, 0) /\ Ordered(R, Q, B)
  BY DEF InHand
<1>2. /\ Len(P) \in Nat /\ Len(R) \in Nat /\ S \in Seq(FrameRecords) /\ Len(S) \in Nat
      /\ DOMAIN S = 1..Len(S) /\ Len(S) <= MaxDepth /\ MaxDepth \in Nat
      /\ \A i \in 1..Len(S) : S[i] \in FrameRecords
  BY <1>1, Entries, PromiseAssumption DEF Lists
<1>3. /\ t \in Seq(FrameRecords) /\ Len(t) = Len(S) - n /\ DOMAIN t = 1..(Len(S) - n)
      /\ \A i \in DOMAIN t : t[i] = S[n + i]
  <2>1. \A i \in (n + 1)..Len(S) : S[i] \in FrameRecords
    BY <1>2
  <2>2. n + 1 \in Int /\ Len(S) \in Int
    BY <1>2
  <2>3. /\ SubSeq(S, n + 1, Len(S)) \in Seq(FrameRecords)
        /\ Len(SubSeq(S, n + 1, Len(S))) =
             IF n + 1 <= Len(S) THEN Len(S) - (n + 1) + 1 ELSE 0
        /\ \A i \in 1..(Len(S) - (n + 1) + 1) :
             SubSeq(S, n + 1, Len(S))[i] = S[n + 1 + i - 1]
    BY <2>1, <2>2, SubSeqProperties
  <2>4. /\ Len(S) - (n + 1) + 1 = Len(S) - n /\ n <= Len(S)
        /\ \A i \in 1..(Len(S) - n) : n + 1 + i - 1 = n + i
    BY <1>2
  <2>5. t \in Seq(FrameRecords)
    BY <1>a, <2>3
  <2>6. Len(t) = Len(S) - n
    <3>1. PICK l \in Nat : l = Len(S)
      BY <1>2
    <3>2. n \in Nat /\ n <= l
      BY <3>1
    <3>3. Len(t) = IF n + 1 <= l THEN l - (n + 1) + 1 ELSE 0
      BY <1>a, <2>3, <3>1
    <3>4. CASE n + 1 <= l
      BY <3>1, <3>2, <3>3, <3>4
    <3>5. CASE n = l
      BY <3>1, <3>2, <3>3, <3>5
    <3> QED BY <3>2, <3>4, <3>5
  <2>7. DOMAIN t = 1..(Len(S) - n)
    BY <2>5, <2>6
  <2> QED BY <1>a, <2>3, <2>4, <2>5, <2>6, <2>7
<1>4. \A i \in DOMAIN t : /\ n + i \in DOMAIN S /\ n + i \notin 1..n
                          /\ n + i = Len(S) => i = Len(t)
  BY <1>2, <1>3
<1>5. \A m \in DOMAIN S : m \in 1..n \/ \E i \in DOMAIN t : m = n + i /\ t[i] = S[m]
  <2> TAKE m \in DOMAIN S
  <2>1. m \in 1..Len(S)
    BY <1>2
  <2>2. CASE m > n
    <3>1. m - n \in DOMAIN t /\ m = n + (m - n)
      BY <1>2, <1>3, <2>1, <2>2
    <3> QED BY <1>3, <3>1
  <2> QED BY <1>2, <2>1, <2>2
<1>6. \A i \in 1..n : i \in DOMAIN S
  BY <1>2
<1>7. \A c : c \in G <=> \E i \in 1..n : S[i].kind \in {"get", "handler"} /\ c = S[i].cell
  BY <1>a
<1>8. /\ \A X : None(S, X) => None(t, X)
      /\ \A X : None(t, X) => None(S, X) \/ \E i \in 1..n : S[i] \in X
      /\ \A X : One(S, X) /\ ~None(t, X) => One(t, X) /\ \A i \in 1..n : S[i] \notin X
  <2>1. \A X : None(S, X) => None(t, X)
    BY <1>3, <1>4 DEF None
  <2>2. \A X : None(t, X) => None(S, X) \/ \E i \in 1..n : S[i] \in X
    BY <1>5 DEF None
  <2>3. ASSUME NEW X, One(S, X), ~None(t, X)
        PROVE  One(t, X) /\ \A i \in 1..n : S[i] \notin X
    <3>1. PICK m \in DOMAIN S : S[m] \in X /\ \A j \in DOMAIN S : S[j] \in X => j = m
      BY <2>3 DEF One
    <3>2. PICK i \in DOMAIN t : t[i] \in X
      BY <2>3 DEF None
    <3>3. n + i = m
      BY <1>3, <1>4, <3>1, <3>2
    <3>4. \A j \in DOMAIN t : t[j] \in X => j = i
      <4> TAKE j \in DOMAIN t
      <4> HAVE t[j] \in X
      <4>1. n + j = m
        BY <1>3, <1>4, <3>1
      <4> QED BY <1>2, <1>3, <3>3, <4>1
    <3>5. \A j \in 1..n : S[j] \notin X
      BY <1>4, <1>6, <3>1, <3>2, <3>3
    <3> QED BY <3>2, <3>4, <3>5 DEF One
  <2> QED BY <2>1, <2>2, <2>3
\* A handler among the unwound frames is the last frame of the stack.
<1>9. \A i \in 1..n : S[i].kind = "handler" => i = Len(S) /\ t = <<>>
  <2> TAKE i \in 1..n
  <2> HAVE S[i].kind = "handler"
  <2>1. i = Len(S)
    BY <1>1, <1>6, HandlerLast
  <2>2. Len(t) = 0
    BY <1>2, <1>3, <2>1
  <2> QED BY <1>3, <2>1, <2>2
<1>10. \A i \in 1..n : S[i].kind # "script" => S[i].cell \in 1..Len(C)
  BY <1>1, <1>6 DEF StackOK
<1>11. Lists(P, C, R, Q, t, B, D)
  <2>1. Len(t) <= MaxDepth
    BY <1>2, <1>3
  <2>2. D \subseteq 1..Len(C)
    <3>1. \A c \in G : c \in 1..Len(C)
      BY <1>7, <1>10
    <3> QED BY <1>b, <1>1, <3>1 DEF Lists
  <2> QED BY <1>1, <1>3, <2>1, <2>2 DEF Lists
<1>12. StackOK(P, C, R, t, B)
  <2> SUFFICES ASSUME NEW i \in DOMAIN t
               PROVE  /\ t[i].value \in Plain \cup Thenables \cup 1..Len(P)
                      /\ t[i].kind # "script" => t[i].cell \in 1..Len(C)
                      /\ t[i].kind = "callee" => C[t[i].cell].guest
                      /\ t[i].kind = "get" => /\ C[t[i].cell].used
                                              /\ t[i].value \in Thenables \cup 1..Len(P)
                      /\ t[i].kind = "handler" =>
                           /\ i = Len(t)
                           /\ \E r \in 1..Len(R) : R[r].cell = t[i].cell /\ ~None(B, {r})
    BY DEF StackOK
  <2> PICK k \in DOMAIN S : k = n + i /\ t[i] = S[k]
    BY <1>3, <1>4
  <2>1. k = Len(S) => i = Len(t)
    BY <1>4
  <2> QED BY <1>1, <2>1 DEF StackOK
\* The pairs that are abandoned now: of reads, which used them, and of a
\* handler, which did not.
<1>13. \A i \in 1..n : S[i].kind = "get" => C[S[i].cell].used
  BY <1>1, <1>6 DEF StackOK
<1>14. \A i \in 1..n : S[i].kind = "handler" =>
         /\ ~C[S[i].cell].used
         /\ \E r \in 1..Len(R) : R[r].cell = S[i].cell /\ ~None(B, {r})
  <2> TAKE i \in 1..n
  <2> HAVE S[i].kind = "handler"
  <2>1. PICK r \in 1..Len(R) : R[r].cell = S[i].cell /\ ~None(B, {r})
    BY <1>1, <1>6 DEF StackOK
  <2>2. ~None(S, Handlers(R[r].cell))
    <3>1. S[i] \in Handlers(R[r].cell)
      BY <1>2, <1>6, <2>1 DEF Handlers
    <3> QED BY <1>6, <3>1 DEF None
  <2>3. r # 0
    OBVIOUS
  <2>4. ~C[R[r].cell].used
    BY <1>1, <2>2, <2>3, DerivedElse
  <2> QED BY <2>1, <2>4
<1>15. AbandonedOK(C, R, t, B, D)
  <2> SUFFICES ASSUME NEW c \in D
               PROVE  \/ C[c].used
                      \/ /\ \E r \in 1..Len(R) : R[r].cell = c /\ ~None(B, {r})
                         /\ None(t, Handlers(c))
    BY DEF AbandonedOK
  <2>1. CASE c \in A
    BY <1>1, <1>8, <2>1 DEF AbandonedOK
  <2>2. CASE c \in G
    <3>1. PICK i \in 1..n : S[i].kind \in {"get", "handler"} /\ c = S[i].cell
      BY <1>7, <2>2
    <3>2. CASE S[i].kind = "get"
      BY <1>13, <3>1, <3>2
    <3>3. CASE S[i].kind = "handler"
      <4>1. None(t, Handlers(c))
        BY <1>9, <3>3 DEF None
      <4> QED BY <1>14, <3>1, <3>3, <4>1
    <3> QED BY <3>1, <3>2, <3>3
  <2> QED BY <1>b, <2>1, <2>2
<1>16. Derived(C, R, t, B, D, 0)
  <2> SUFFICES ASSUME NEW r \in 1..Len(R)
               PROVE  LET c == R[r].cell IN
                      /\ C[c].used => ~None(B, {r}) /\ None(t, Handlers(c))
                      /\ ~None(B, {r}) /\ None(t, Handlers(c)) => C[c].used \/ c \in D
    <3>1. 0 \in 0..Len(R) /\ \A r \in 1..Len(R) : r # 0
      BY <1>2
    <3> QED BY <3>1 DEF Derived
  <2>1. r # 0
    OBVIOUS
  <2>2. /\ C[R[r].cell].used => ~None(B, {r}) /\ None(S, Handlers(R[r].cell))
        /\ ~None(B, {r}) /\ None(S, Handlers(R[r].cell)) =>
             C[R[r].cell].used \/ R[r].cell \in A
    BY <1>1, <2>1, DerivedElse
  <2>3. (\E i \in 1..n : S[i] \in Handlers(R[r].cell)) => R[r].cell \in D
    BY <1>b, <1>7 DEF Handlers
  <2> QED BY <1>b, <1>8, <2>2, <2>3
<1>17. Custody(P, C, Q, t, D, 0)
  <2> SUFFICES ASSUME NEW p \in 1..Len(P) PROVE Sole(P, C, Q, t, D, p)
    <3>1. 0 \in 0..Len(P) /\ \A q \in 1..Len(P) : q # 0
      BY <1>2
    <3> QED BY <3>1 DEF Custody
  <2>1. Sole(P, C, Q, S, A, p)
    <3>1. p # 0
      OBVIOUS
    <3> QED BY <1>1, <3>1 DEF Custody
  <2>2. \A c : c \in Lost(C, D, p) <=>
               \/ c \in Lost(C, A, p)
               \/ \E i \in 1..n : S[i] \in Gets(C, p) /\ c = S[i].cell
    <3> TAKE c
    <3>1. ASSUME c \in Lost(C, D, p), c \notin Lost(C, A, p)
          PROVE  \E i \in 1..n : S[i] \in Gets(C, p) /\ c = S[i].cell
      <4>1. c \in G /\ C[c].promise = p /\ C[c].used
        BY <1>b, <3>1 DEF Lost
      <4>2. PICK i \in 1..n : S[i].kind \in {"get", "handler"} /\ c = S[i].cell
        BY <1>7, <4>1
      <4>3. S[i].kind = "get"
        BY <1>14, <4>1, <4>2
      <4>4. S[i] \in Gets(C, p)
        BY <1>2, <1>6, <4>1, <4>2, <4>3 DEF Gets
      <4> QED BY <4>2, <4>4
    <3>2. c \in Lost(C, A, p) => c \in Lost(C, D, p)
      BY <1>b DEF Lost
    <3>3. ASSUME NEW i \in 1..n, S[i] \in Gets(C, p), c = S[i].cell
          PROVE  c \in Lost(C, D, p)
      <4>1. S[i].kind = "get" /\ C[c].promise = p
        BY <3>3 DEF Gets
      <4>2. C[c].used /\ c \in G
        BY <1>7, <1>13, <3>3, <4>1
      <4> QED BY <1>b, <4>1, <4>2 DEF Lost
    <3> QED BY <3>1, <3>2, <3>3
  <2>3. CASE One(S, Gets(C, p))
    <3>1. /\ None(C, UnusedPairs(p)) /\ None(Q, ThenableJobs(p))
          /\ P[p].state = "pending" /\ Lost(C, A, p) = {}
      BY <2>1, <2>3, NotBoth DEF Sole
    <3>2. CASE ~None(t, Gets(C, p))
      <4>1. One(t, Gets(C, p)) /\ \A i \in 1..n : S[i] \notin Gets(C, p)
        BY <1>8, <2>3, <3>2
      <4>2. Lost(C, D, p) = {}
        BY <2>2, <3>1, <4>1
      <4> QED BY <3>1, <4>1, <4>2 DEF Sole
    <3>3. CASE None(t, Gets(C, p))
      <4>1. PICK i \in 1..n : S[i] \in Gets(C, p)
        BY <1>8, <2>3, <3>3, NotBoth
      <4>2. \A j \in 1..n : S[j] \in Gets(C, p) => j = i
        BY <1>6, <2>3, <4>1 DEF One
      <4>3. Lost(C, D, p) = {S[i].cell}
        BY <2>2, <3>1, <4>1, <4>2
      <4>4. S[i].cell \in D
        BY <4>3 DEF Lost
      <4> QED BY <3>1, <3>3, <4>3, <4>4 DEF Sole
    <3> QED BY <3>2, <3>3
  <2>4. CASE ~One(S, Gets(C, p))
    <3>1. None(S, Gets(C, p))
      BY <2>1, <2>4 DEF Sole
    <3>2. None(t, Gets(C, p))
      BY <1>8, <3>1
    <3>3. Lost(C, D, p) = Lost(C, A, p)
      BY <1>6, <2>2, <3>1 DEF None
    <3>4. A \subseteq D
      BY <1>b
    <3> QED BY <2>1, <2>4, <3>2, <3>3, <3>4 DEF Sole
  <2> QED BY <2>3, <2>4
<1>18. InHand(P, C, R, Q, t, B, D, 0, 0)
  BY <1>1, <1>11, <1>12, <1>15, <1>16, <1>17 DEF InHand
<1> QED BY <1>a, <1>b, <1>18

-----------------------------------------------------------------------------
(* The resolving functions, as sequences of moves.                          *)

\* fulfill_promise and reject_promise of the promise in hand.
LEMMA SettleKeeps ==
  ASSUME NEW C, NEW S, NEW B, NEW d, NEW h, NEW jobs,
         InHand(promise, C, reaction, jobs, S, B, abandoned, h, d), h # 0,
         NEW o \in {"fulfilled", "rejected"},
         NEW v \in Plain \cup Thenables \cup 1..Len(promise),
         Settle(h, o, v, jobs)
  PROVE  InHand(promise', C, reaction, queue', S, B, abandoned, 0, d)
<1>1. /\ promise[h].state = "pending"
      /\ InHand([promise EXCEPT ![h] = [state |-> o, result |-> v, reactions |-> <<>>]],
                C, reaction,
                jobs \o [i \in DOMAIN promise[h].reactions |->
                           ReactionJob(promise[h].reactions[i], o, v)],
                S, B, abandoned, 0, d)
  BY SettleHeld
<1> QED BY <1>1 DEF Settle, Pending

\* The pair c may be called: guest code has it, or its reaction is in hand.
Callable(c, d) ==
  \/ cell[c].guest /\ d = 0
  \/ d # 0 /\ reaction[d].cell = c

\* A reaction in hand has not used its pair.
LEMMA HeldIsUnused ==
  ASSUME NEW C, NEW S, NEW B, NEW Q, NEW c, NEW d,
         InHand(promise, C, reaction, Q, S, B, abandoned, 0, d), d # 0, reaction[d].cell = c
  PROVE  ~C[c].used
<1>1. Derived(C, reaction, S, B, abandoned, d) /\ Len(reaction) \in Nat
  BY Entries DEF InHand
<1> QED BY <1>1, DerivedInHand

LEMMA RejectKeeps ==
  ASSUME NEW c \in 1..Len(cell), NEW v \in Plain \cup Thenables \cup 1..Len(promise),
         NEW jobs, NEW frames, NEW B, NEW d, Callable(c, d),
         InHand(promise, cell, reaction, jobs, frames, B, abandoned, 0, d),
         CallReject(c, v, jobs, frames)
  PROVE  InHand(promise', cell', reaction, queue', stack', B, abandoned, 0, 0)
<1>1. CASE cell[c].used
  <2>1. d = 0
    BY <1>1, HeldIsUnused DEF Callable
  <2> QED BY <1>1, <2>1 DEF CallReject
<1>2. CASE ~cell[c].used
  <2>1. /\ cell' = [cell EXCEPT ![c].used = TRUE] /\ stack' = frames
        /\ Settle(cell[c].promise, "rejected", v, jobs)
    BY <1>2 DEF CallReject
  <2>2. PICK D, h : D = cell' /\ h = cell[c].promise
    OBVIOUS
  <2>3. InHand(promise, D, reaction, jobs, frames, B, abandoned, h, 0)
    BY <1>2, <2>1, <2>2, Commit DEF Callable
  <2>4. h # 0
    BY <2>2, Entries DEF InHand, CellsOK
  <2>5. InHand(promise', D, reaction, queue', frames, B, abandoned, 0, 0)
    BY <2>1, <2>2, <2>3, <2>4, SettleKeeps
  <2> QED BY <2>1, <2>2, <2>5
<1> QED BY <1>1, <1>2

LEMMA ResolveKeeps ==
  ASSUME NEW c \in 1..Len(cell), NEW v \in Plain \cup Thenables \cup 1..Len(promise),
         NEW jobs, NEW frames, NEW B, NEW d, Callable(c, d),
         InHand(promise, cell, reaction, jobs, frames, B, abandoned, 0, d),
         Len(frames) < MaxDepth \/ v \notin Candidates,
         CallResolve(c, v, jobs, frames)
  PROVE  InHand(promise', cell', reaction, queue', stack', B, abandoned, 0, 0)
<1>1. CASE cell[c].used
  <2>1. d = 0
    BY <1>1, HeldIsUnused DEF Callable
  <2> QED BY <1>1, <2>1 DEF CallResolve
<1>2. CASE ~cell[c].used
  <2>a. PICK D, h : D = [cell EXCEPT ![c].used = TRUE] /\ h = cell[c].promise
    OBVIOUS
  <2>1. InHand(promise, D, reaction, jobs, frames, B, abandoned, h, 0)
    BY <1>2, <2>a, Commit DEF Callable
  <2>2. h # 0 /\ h \in Candidates
    BY <2>a, Entries DEF InHand, CellsOK, Candidates, Promises
  <2>3. CASE v = h
    <3>1. cell' = D /\ stack' = frames /\ Settle(h, "rejected", CycleError, jobs)
      BY <1>2, <2>a, <2>2, <2>3 DEF CallResolve
    <3>2. CycleError \in Plain \cup Thenables \cup 1..Len(promise)
      BY PromiseAssumption
    <3>3. InHand(promise', D, reaction, queue', frames, B, abandoned, 0, 0)
      BY <2>1, <2>2, <3>1, <3>2, SettleKeeps
    <3> QED BY <3>1, <3>3
  <2>4. CASE v # h /\ v \in Candidates
    <3>1. /\ cell' = D /\ stack' = <<Frame("get", c, v)>> \o frames
          /\ queue' = jobs /\ promise' = promise
      BY <1>2, <2>a, <2>4 DEF CallResolve
    <3>2. v \in Thenables \cup 1..Len(promise) /\ Len(frames) < MaxDepth
      BY <2>4 DEF Candidates, Promises
    <3>3. c \in 1..Len(D) /\ D[c].used /\ D[c].promise = h
      <4>1. cell \in Seq(CellRecords)
        BY DEF InHand, Lists
      <4> QED BY <2>a, <4>1 DEF CellRecords
    <3>4. InHand(promise, D, reaction, jobs, <<Frame("get", c, v)>> \o frames, B,
                 abandoned, 0, 0)
      BY <2>1, <2>2, <3>2, <3>3, PushGet
    <3> QED BY <3>1, <3>4
  <2>5. CASE v # h /\ v \notin Candidates
    <3>1. cell' = D /\ stack' = frames /\ Settle(h, "fulfilled", v, jobs)
      BY <1>2, <2>a, <2>5 DEF CallResolve
    <3>2. InHand(promise', D, reaction, queue', frames, B, abandoned, 0, 0)
      BY <2>1, <2>2, <3>1, SettleKeeps
    <3> QED BY <3>1, <3>2
  <2> QED BY <2>3, <2>4, <2>5
<1> QED BY <1>1, <1>2

-----------------------------------------------------------------------------
(* The actions.                                                             *)

LEMMA InitHolds == Init => PromiseInv
<1> SUFFICES ASSUME Init PROVE PromiseInv
  OBVIOUS
<1>1. \A T : <<>> \in Seq(T)
  OBVIOUS
<1>2. Len(<<>>) = 0 /\ DOMAIN <<>> = {} /\ 1..0 = {} /\ 0 \in 0..0
  OBVIOUS
<1> QED
  BY <1>1, <1>2, PromiseAssumption
  DEF Init, PromiseInv, InHand, Lists, PromisesOK, CellsOK, ReactionsOK, QueueOK, StackOK,
      StartedOK, AbandonedOK, Custody, Placed, Derived, Ordered

\* Values that guest code may pass.
LEMMA GuestValues == Values = Plain \cup Thenables \cup 1..Len(promise)
BY DEF Values, Promises

LEMMA RunScriptKeeps ==
  ASSUME PromiseInv, RunScript
  PROVE  PromiseInv'
<1>a. PICK f : f = Frame("script", 0, CycleError)
  OBVIOUS
<1>1. f \in FrameRecords /\ f.kind = "script" /\ f.value \in Plain
  BY <1>a, PromiseAssumption DEF Frame, FrameRecords, AllValues
<1>2. stack = <<>> /\ Len(stack) < MaxDepth
  BY PromiseAssumption DEF RunScript
<1>3. InHand(promise, cell, reaction, queue, <<f>> \o stack, started, abandoned, 0, 0)
  BY <1>1, <1>2, PushCode DEF PromiseInv
<1>4. stack' = <<f>> \o stack
  BY <1>a, <1>1, <1>2 DEF RunScript
<1> QED BY <1>3, <1>4 DEF PromiseInv, RunScript

LEMMA NewPromiseKeeps ==
  ASSUME PromiseInv, NewPromise
  PROVE  PromiseInv'
<1>a. PICK N, n, D, k, f : /\ N = Append(promise, NewPromiseData) /\ n = Len(promise) + 1
                           /\ D = Append(cell, NewCell(n, TRUE)) /\ k = Len(cell) + 1
                           /\ f = Frame("callee", k, CycleError)
  OBVIOUS
<1>1. InHand(N, cell, reaction, queue, stack, started, abandoned, n, 0)
  BY <1>a, AddPromise DEF PromiseInv
<1>2. n # 0 /\ k \in 1..k /\ k \in Nat /\ cell \in Seq(CellRecords) /\ n \in Nat
  BY <1>a, Entries DEF PromiseInv, InHand, Lists
<1>3. InHand(N, D, reaction, queue, stack, started, abandoned, 0, 0)
  BY <1>a, <1>1, <1>2, AddPair
<1>4. Len(D) = k /\ D[k].guest
  <2>1. NewCell(n, TRUE) \in CellRecords /\ NewCell(n, TRUE).guest
    BY <1>2 DEF NewCell, CellRecords
  <2>2. PICK e \in CellRecords : e = NewCell(n, TRUE) /\ e.guest
    BY <2>1
  <2>3. D = Append(cell, e)
    BY <1>a, <2>2
  <2>4. Len(D) = Len(cell) + 1 /\ D[Len(cell) + 1] = e
    BY <1>2, <2>3, AppendEntries
  <2> QED BY <1>a, <2>2, <2>4
<1>5. f \in FrameRecords /\ f.kind = "callee" /\ f.cell = k /\ f.value \in Plain
  BY <1>a, <1>2, PromiseAssumption DEF Frame, FrameRecords, AllValues
<1>6. InHand(N, D, reaction, queue, <<f>> \o stack, started, abandoned, 0, 0)
  BY <1>2, <1>3, <1>4, <1>5, PushCode DEF NewPromise
<1> QED BY <1>a, <1>6 DEF PromiseInv, NewPromise

LEMMA ResolveActionKeeps ==
  ASSUME PromiseInv, NEW c \in Cells, NEW v \in Values, Resolve(c, v)
  PROVE  PromiseInv'
<1>1. PICK q, s, b : q = queue /\ s = stack /\ b = started
  OBVIOUS
<1>2. InHand(promise, cell, reaction, q, s, b, abandoned, 0, 0)
  BY <1>1 DEF PromiseInv
<1>3. CallResolve(c, v, q, s) /\ (Len(s) < MaxDepth \/ v \notin Candidates)
  BY <1>1 DEF Resolve
<1>4. c \in 1..Len(cell) /\ v \in Plain \cup Thenables \cup 1..Len(promise)
  BY GuestValues DEF Cells
<1>5. Callable(c, 0)
  BY DEF Callable, Resolve
<1>6. InHand(promise', cell', reaction, queue', stack', b, abandoned, 0, 0)
  BY <1>2, <1>3, <1>4, <1>5, ResolveKeeps
<1> QED BY <1>1, <1>6 DEF PromiseInv, Resolve

LEMMA RejectActionKeeps ==
  ASSUME PromiseInv, NEW c \in Cells, NEW v \in Values, Reject(c, v)
  PROVE  PromiseInv'
<1>1. PICK q, s, b : q = queue /\ s = stack /\ b = started
  OBVIOUS
<1>2. InHand(promise, cell, reaction, q, s, b, abandoned, 0, 0)
  BY <1>1 DEF PromiseInv
<1>3. CallReject(c, v, q, s)
  BY <1>1 DEF Reject
<1>4. c \in 1..Len(cell) /\ v \in Plain \cup Thenables \cup 1..Len(promise)
  BY GuestValues DEF Cells
<1>5. Callable(c, 0)
  BY DEF Callable, Reject
<1>6. InHand(promise', cell', reaction, queue', stack', b, abandoned, 0, 0)
  BY <1>2, <1>3, <1>4, <1>5, RejectKeeps
<1> QED BY <1>1, <1>6 DEF PromiseInv, Reject

LEMMA CodeReturnsKeeps ==
  ASSUME PromiseInv, CodeReturns
  PROVE  PromiseInv'
<1>1. InHand(promise, cell, reaction, queue, Tail(stack), started, abandoned, 0, 0)
  BY PopCode DEF PromiseInv, CodeReturns, GuestRuns, Top
<1> QED BY <1>1 DEF PromiseInv, CodeReturns, Below

LEMMA CodeThrowsKeeps ==
  ASSUME PromiseInv, NEW v \in Values, CodeThrows(v)
  PROVE  PromiseInv'
<1>1. PICK q, s, b, c : q = queue /\ s = Tail(stack) /\ b = started /\ c = Head(stack).cell
  OBVIOUS
<1>2. InHand(promise, cell, reaction, q, s, b, abandoned, 0, 0)
  BY <1>1, PopCode DEF PromiseInv, CodeThrows, GuestRuns, Top
<1>3. CallReject(c, v, q, s)
  BY <1>1 DEF CodeThrows, Top, Below
<1>4. c \in 1..Len(cell) /\ cell[c].guest
  <2>1. stack \in Seq(FrameRecords) /\ stack # <<>> /\ Head(stack).kind = "callee"
    BY DEF PromiseInv, InHand, Lists, CodeThrows, GuestRuns, Top
  <2>2. Head(stack) = stack[1] /\ 1 \in DOMAIN stack
    BY <2>1
  <2> QED BY <1>1, <2>1, <2>2 DEF PromiseInv, InHand, StackOK
<1>5. v \in Plain \cup Thenables \cup 1..Len(promise)
  BY GuestValues
<1>6. Callable(c, 0)
  BY <1>4 DEF Callable
<1>7. InHand(promise', cell', reaction, queue', stack', b, abandoned, 0, 0)
  BY <1>2, <1>3, <1>4, <1>5, <1>6, RejectKeeps
<1> QED BY <1>1, <1>7 DEF PromiseInv, CodeThrows

\* The read of "then" is over: what PopGet says of this stack.
LEMMA GetOver ==
  ASSUME PromiseInv, GuestRuns, Top.kind = "get"
  PROVE  /\ cell[Top.cell].promise # 0
         /\ Top.value \in Thenables \cup 1..Len(promise)
         /\ InHand(promise, cell, reaction, queue, Below, started, abandoned,
                   cell[Top.cell].promise, 0)
BY PopGet DEF PromiseInv, GuestRuns, Top, Below

LEMMA GetReturnsCallableKeeps ==
  ASSUME PromiseInv, GetReturnsCallable
  PROVE  PromiseInv'
<1>1. PICK h, v : h = cell[Top.cell].promise /\ v = Top.value
  OBVIOUS
<1>2. /\ h # 0 /\ v \in Thenables \cup 1..Len(promise)
      /\ InHand(promise, cell, reaction, queue, Below, started, abandoned, h, 0)
  BY <1>1, GetOver DEF GetReturnsCallable
<1>3. InHand(promise, cell, reaction, Append(queue, ThenableJob(h, v)), Below, started,
             abandoned, 0, 0)
  BY <1>2, QueueThenable
<1> QED BY <1>1, <1>3 DEF PromiseInv, GetReturnsCallable

LEMMA GetReturnsOtherKeeps ==
  ASSUME PromiseInv, GetReturnsOther
  PROVE  PromiseInv'
<1>1. PICK h, v, C, S, B, q : /\ h = cell[Top.cell].promise /\ v = Top.value /\ C = cell
                              /\ S = Below /\ B = started /\ q = queue
  OBVIOUS
<1>2. /\ h # 0 /\ v \in Thenables \cup 1..Len(promise)
      /\ InHand(promise, C, reaction, q, S, B, abandoned, h, 0)
  BY <1>1, GetOver DEF GetReturnsOther
<1>3. Settle(h, "fulfilled", v, q)
  BY <1>1 DEF GetReturnsOther
<1>4. InHand(promise', C, reaction, queue', S, B, abandoned, 0, 0)
  BY <1>2, <1>3, SettleKeeps
<1> QED BY <1>1, <1>4 DEF PromiseInv, GetReturnsOther

LEMMA GetThrowsKeeps ==
  ASSUME PromiseInv, NEW v \in Values, GetThrows(v)
  PROVE  PromiseInv'
<1>1. PICK h, C, S, B, q : /\ h = cell[Top.cell].promise /\ C = cell
                           /\ S = Below /\ B = started /\ q = queue
  OBVIOUS
<1>2. h # 0 /\ InHand(promise, C, reaction, q, S, B, abandoned, h, 0)
  BY <1>1, GetOver DEF GetThrows
<1>3. Settle(h, "rejected", v, q)
  BY <1>1 DEF GetThrows
<1>4. v \in Plain \cup Thenables \cup 1..Len(promise)
  BY GuestValues
<1>5. InHand(promise', C, reaction, queue', S, B, abandoned, 0, 0)
  BY <1>2, <1>3, <1>4, SettleKeeps
<1> QED BY <1>1, <1>5 DEF PromiseInv, GetThrows

\* A handler is over: what PopHandler says of this stack.
LEMMA HandlerOver ==
  ASSUME PromiseInv, GuestRuns, Top.kind = "handler"
  PROVE  /\ Top.cell \in 1..Len(cell) /\ Len(Below) < MaxDepth
         /\ \E d : /\ Callable(Top.cell, d)
                   /\ InHand(promise, cell, reaction, queue, Below, started, abandoned, 0, d)
<1>1. PICK d \in 1..Len(reaction) :
        /\ reaction[d].cell = Head(stack).cell
        /\ InHand(promise, cell, reaction, queue, Tail(stack), started, abandoned, 0, d)
  BY PopHandler DEF PromiseInv, GuestRuns, Top
<1>2. d # 0 /\ reaction[d].cell \in 1..Len(cell)
  BY DEF PromiseInv, InHand, ReactionsOK
<1>3. Len(Tail(stack)) < MaxDepth
  BY StackPop DEF PromiseInv, InHand, GuestRuns
<1> QED BY <1>1, <1>2, <1>3 DEF Callable, Top, Below

LEMMA HandlerReturnsKeeps ==
  ASSUME PromiseInv, NEW v \in Values, HandlerReturns(v)
  PROVE  PromiseInv'
<1>1. PICK c, q, s, b : c = Top.cell /\ q = queue /\ s = Below /\ b = started
  OBVIOUS
<1>2. PICK d : /\ Callable(c, d)
               /\ InHand(promise, cell, reaction, q, s, b, abandoned, 0, d)
  BY <1>1, HandlerOver DEF HandlerReturns
<1>3. c \in 1..Len(cell) /\ Len(s) < MaxDepth
  BY <1>1, HandlerOver DEF HandlerReturns
<1>4. CallResolve(c, v, q, s)
  BY <1>1 DEF HandlerReturns
<1>5. v \in Plain \cup Thenables \cup 1..Len(promise)
  BY GuestValues
<1>6. InHand(promise', cell', reaction, queue', stack', b, abandoned, 0, 0)
  BY <1>2, <1>3, <1>4, <1>5, ResolveKeeps
<1> QED BY <1>1, <1>6 DEF PromiseInv, HandlerReturns

LEMMA HandlerThrowsKeeps ==
  ASSUME PromiseInv, NEW v \in Values, HandlerThrows(v)
  PROVE  PromiseInv'
<1>1. PICK c, q, s, b : c = Top.cell /\ q = queue /\ s = Below /\ b = started
  OBVIOUS
<1>2. PICK d : /\ Callable(c, d)
               /\ InHand(promise, cell, reaction, q, s, b, abandoned, 0, d)
  BY <1>1, HandlerOver DEF HandlerThrows
<1>3. c \in 1..Len(cell)
  BY <1>1, HandlerOver DEF HandlerThrows
<1>4. CallReject(c, v, q, s)
  BY <1>1 DEF HandlerThrows
<1>5. v \in Plain \cup Thenables \cup 1..Len(promise)
  BY GuestValues
<1>6. InHand(promise', cell', reaction, queue', stack', b, abandoned, 0, 0)
  BY <1>2, <1>3, <1>4, <1>5, RejectKeeps
<1> QED BY <1>1, <1>6 DEF PromiseInv, HandlerThrows

LEMMA FaultKeeps ==
  ASSUME PromiseInv, NEW n \in 1..Len(stack), Fault(n)
  PROVE  PromiseInv'
<1>1. InHand(promise, cell, reaction, queue, SubSeq(stack, n + 1, Len(stack)), started,
             abandoned \cup
               {stack[i].cell : i \in {j \in 1..n : stack[j].kind \in {"get", "handler"}}},
             0, 0)
  BY Unwind DEF PromiseInv
<1> QED BY <1>1 DEF PromiseInv, Fault

\* A change of an entry and one element more at the end commute.
LEMMA AppendExcept ==
  ASSUME NEW T, NEW s \in Seq(T), NEW i \in 1..Len(s), NEW x \in T, NEW e \in T
  PROVE  Append([s EXCEPT ![i] = x], e) = [Append(s, e) EXCEPT ![i] = x]
<1>a. PICK t, u, a, b, n : /\ t = [s EXCEPT ![i] = x] /\ u = Append(s, e)
                           /\ a = Append(t, e) /\ b = [u EXCEPT ![i] = x]
                           /\ n = Len(s)
  OBVIOUS
<1>1. /\ t \in Seq(T) /\ Len(t) = n /\ n \in Nat /\ i \in 1..n
      /\ \A j \in 1..n : t[j] = IF j = i THEN x ELSE s[j]
  BY <1>a
<1>2. /\ a \in Seq(T) /\ Len(a) = n + 1 /\ a[n + 1] = e
      /\ \A j \in 1..n : a[j] = t[j]
  BY <1>a, <1>1, AppendEntries
<1>3. /\ u \in Seq(T) /\ Len(u) = n + 1 /\ u[n + 1] = e
      /\ \A j \in 1..n : u[j] = s[j]
  BY <1>a, AppendEntries
<1>4. /\ b \in Seq(T) /\ Len(b) = n + 1
      /\ \A j \in 1..(n + 1) : b[j] = IF j = i THEN x ELSE u[j]
  <2>1. DOMAIN u = 1..(n + 1) /\ i \in 1..(n + 1) /\ b = [u EXCEPT ![i] = x]
    BY <1>a, <1>1, <1>3
  <2> QED BY <1>1, <1>3, <2>1
<1>5. \A j \in 1..(n + 1) : a[j] = b[j]
  <2> TAKE j \in 1..(n + 1)
  <2>1. CASE j = n + 1
    BY <1>1, <1>2, <1>3, <1>4, <2>1
  <2>2. CASE j \in 1..n
    BY <1>1, <1>2, <1>3, <1>4, <2>2
  <2> QED BY <1>1, <2>1, <2>2
<1> QED BY <1>a, <1>2, <1>4, <1>5, SeqEqual

\* What a call of `then' makes of the lists, p pending or not.
LEMMA ThenKeeps ==
  ASSUME PromiseInv, NEW p \in Promises,
         NEW w \in SUBSET {"fulfilled", "rejected"}, Then(p, w)
  PROVE  PromiseInv'
<1>a. PICK N, n, D, k, e, r :
        /\ N = Append(promise, NewPromiseData) /\ n = Len(promise) + 1
        /\ D = Append(cell, NewCell(n, FALSE)) /\ k = Len(cell) + 1
        /\ e = [on |-> p, cell |-> k, handles |-> w] /\ r = Len(reaction) + 1
  OBVIOUS
<1>1. InHand(N, cell, reaction, queue, stack, started, abandoned, n, 0)
  BY <1>a, AddPromise DEF PromiseInv
<1>2. /\ n # 0 /\ n \in Nat /\ k \in Nat /\ cell \in Seq(CellRecords)
      /\ promise \in Seq(PromiseRecords) /\ Len(cell) \in Nat /\ Len(promise) \in Nat
  BY <1>a, Entries DEF PromiseInv, InHand, Lists
<1>3. InHand(N, D, reaction, queue, stack, started, abandoned, 0, 0)
  BY <1>a, <1>1, <1>2, AddPair
<1>4. Len(D) = k /\ ~D[k].used /\ ~D[k].guest
  <2>1. /\ NewCell(n, FALSE) \in CellRecords
        /\ ~NewCell(n, FALSE).used /\ ~NewCell(n, FALSE).guest
    BY <1>2 DEF NewCell, CellRecords
  <2>2. PICK x \in CellRecords : x = NewCell(n, FALSE) /\ ~x.used /\ ~x.guest
    BY <2>1
  <2>3. D = Append(cell, x)
    BY <1>a, <2>2
  <2>4. Len(D) = Len(cell) + 1 /\ D[Len(cell) + 1] = x
    BY <1>2, <2>3, AppendEntries
  <2> QED BY <1>a, <2>2, <2>4
<1>5. p \in 1..Len(promise) /\ p \in Nat /\ Len(N) = n /\ p \in 1..Len(N)
  BY <1>a, <1>2 DEF Promises
<1>6. N[p] = promise[p]
  <2>1. NewPromiseData \in PromiseRecords
    BY PromiseAssumption DEF NewPromiseData, PromiseRecords, AllValues
  <2>2. PICK x \in PromiseRecords : x = NewPromiseData
    BY <2>1
  <2>3. DOMAIN promise = 1..Len(promise) /\ \A i \in DOMAIN promise : Append(promise, x)[i] = promise[i]
    BY <1>2, AppendEntries
  <2> QED BY <1>a, <1>5, <2>2, <2>3
<1>7. Unowned(N, D, reaction, abandoned, e)
  <2>1. e.on = p /\ e.cell = k /\ e \in ReactionRecords
    BY <1>a, <1>2, <1>5 DEF ReactionRecords
  <2>2. k \notin 1..Len(cell) /\ k \in 1..Len(D)
    BY <1>a, <1>2, <1>4
  <2>3. k \notin abandoned /\ \A q \in 1..Len(reaction) : reaction[q].cell # k
    BY <2>2 DEF PromiseInv, InHand, Lists, ReactionsOK
  <2> QED BY <1>4, <1>5, <2>1, <2>2, <2>3 DEF Unowned
<1>8. /\ cell' = D /\ reaction' = Append(reaction, e)
      /\ UNCHANGED <<stack, started, abandoned>>
  BY <1>a DEF Then
<1>9. CASE Pending(p)
  <2>1. InHand([N EXCEPT ![p].reactions = Append(@, r)], D, Append(reaction, e), queue,
               stack, started, abandoned, 0, 0)
    <3>1. p = e.on /\ N[p].state = "pending"
      BY <1>a, <1>6, <1>9 DEF Pending
    <3> QED BY <1>a, <1>3, <1>7, <3>1, RegisterWaiting
  <2>2. promise' = [N EXCEPT ![p].reactions = Append(@, r)] /\ queue' = queue
    <3>1. promise' = Append([promise EXCEPT ![p].reactions = Append(@, r)], NewPromiseData)
      BY <1>a, <1>9 DEF Then
    <3>b. PICK u, z : /\ u = [promise[p] EXCEPT !.reactions = Append(@, r)]
                      /\ z = NewPromiseData
      OBVIOUS
    <3>2. u \in PromiseRecords
      <4>1. PICK m \in PromiseRecords : m = promise[p]
        BY <1>2, <1>5, Entries
      <4>2. r \in Nat
        BY <1>a, Entries DEF PromiseInv, InHand, Lists
      <4>3. Append(m.reactions, r) \in Seq(Nat)
        BY <4>2 DEF PromiseRecords
      <4>4. [m EXCEPT !.reactions = Append(@, r)] \in PromiseRecords
        BY <4>3 DEF PromiseRecords
      <4> QED BY <3>b, <4>1, <4>4
    <3>3. z \in PromiseRecords
      BY <3>b, PromiseAssumption DEF NewPromiseData, PromiseRecords, AllValues
    <3>4. Append([promise EXCEPT ![p] = u], z) = [Append(promise, z) EXCEPT ![p] = u]
      BY <1>2, <1>5, <3>2, <3>3, AppendExcept
    <3> QED BY <1>a, <1>6, <1>9, <3>b, <3>1, <3>4 DEF Then
  <2> QED BY <1>8, <2>1, <2>2 DEF PromiseInv
<1>10. CASE ~Pending(p)
  <2>1. InHand(N, D, Append(reaction, e),
               Append(queue, ReactionJob(r, N[p].state, N[p].result)),
               stack, started, abandoned, 0, 0)
    <3>1. p = e.on /\ N[p].state # "pending"
      BY <1>a, <1>6, <1>10 DEF Pending
    <3> QED BY <1>a, <1>3, <1>7, <3>1, RegisterQueued
  <2>2. /\ promise' = N
        /\ queue' = Append(queue, ReactionJob(r, promise[p].state, promise[p].result))
    BY <1>a, <1>10 DEF Then
  <2> QED BY <1>6, <1>8, <2>1, <2>2 DEF PromiseInv
<1> QED BY <1>9, <1>10

LEMMA StartThenableJobKeeps ==
  ASSUME PromiseInv, StartThenableJob
  PROVE  PromiseInv'
<1>a. PICK h, t, D, k, f : /\ h = Head(queue).of /\ t = Tail(queue)
                           /\ D = Append(cell, NewCell(h, TRUE)) /\ k = Len(cell) + 1
                           /\ f = Frame("callee", k, CycleError)
  OBVIOUS
<1>1. h # 0 /\ InHand(promise, cell, reaction, t, stack, started, abandoned, h, 0)
  BY <1>a, TakeThenable DEF PromiseInv, StartThenableJob
<1>2. k \in 1..k /\ k \in Nat /\ cell \in Seq(CellRecords) /\ h \in Nat
  BY <1>a, <1>1, Entries DEF InHand, Lists, Custody
<1>3. InHand(promise, D, reaction, t, stack, started, abandoned, 0, 0)
  BY <1>a, <1>1, AddPair
<1>4. Len(D) = k /\ D[k].guest
  <2>1. NewCell(h, TRUE) \in CellRecords /\ NewCell(h, TRUE).guest
    BY <1>2 DEF NewCell, CellRecords
  <2>2. PICK e \in CellRecords : e = NewCell(h, TRUE) /\ e.guest
    BY <2>1
  <2>3. D = Append(cell, e)
    BY <1>a, <2>2
  <2>4. Len(D) = Len(cell) + 1 /\ D[Len(cell) + 1] = e
    BY <1>2, <2>3, AppendEntries
  <2> QED BY <1>a, <2>2, <2>4
<1>5. f \in FrameRecords /\ f.kind = "callee" /\ f.cell = k /\ f.value \in Plain
  BY <1>a, <1>2, PromiseAssumption DEF Frame, FrameRecords, AllValues
<1>6. Len(stack) < MaxDepth
  BY PromiseAssumption DEF StartThenableJob
<1>7. InHand(promise, D, reaction, t, <<f>> \o stack, started, abandoned, 0, 0)
  BY <1>2, <1>3, <1>4, <1>5, <1>6, PushCode
<1>8. <<f>> \o stack = <<f>>
  BY <1>5 DEF StartThenableJob
<1> QED BY <1>a, <1>7, <1>8 DEF PromiseInv, StartThenableJob

LEMMA StartHandlerKeeps ==
  ASSUME PromiseInv, StartHandler
  PROVE  PromiseInv'
<1>a. PICK j, r, t, b : j = Head(queue) /\ r = j.of /\ t = Tail(queue) /\ b = Append(started, r)
  OBVIOUS
<1>1. /\ r \in 1..Len(reaction) /\ reaction[r].on \in 1..Len(promise)
      /\ j.arg = promise[reaction[r].on].result
      /\ InHand(promise, cell, reaction, t, stack, b, abandoned, 0, r)
  BY <1>a, StartReaction DEF PromiseInv, StartHandler
<1>2. j.arg \in Plain \cup Thenables \cup 1..Len(promise) /\ r # 0
  BY <1>1 DEF InHand, PromisesOK
<1>3. InHand(promise, cell, reaction, t, <<Frame("handler", reaction[r].cell, j.arg)>>, b,
             abandoned, 0, 0)
  BY <1>1, <1>2, PushHandler DEF StartHandler
<1> QED BY <1>a, <1>3 DEF PromiseInv, StartHandler

LEMMA PassThroughKeeps ==
  ASSUME PromiseInv, PassThrough
  PROVE  PromiseInv'
<1>a. PICK j, r, t, b, s, c : /\ j = Head(queue) /\ r = j.of /\ t = Tail(queue)
                              /\ b = Append(started, r) /\ s = stack
                              /\ c = reaction[r].cell
  OBVIOUS
<1>1. /\ r \in 1..Len(reaction) /\ reaction[r].on \in 1..Len(promise)
      /\ j.arg = promise[reaction[r].on].result
      /\ InHand(promise, cell, reaction, t, s, b, abandoned, 0, r)
  BY <1>a, StartReaction DEF PromiseInv, PassThrough
<1>2. j.arg \in Plain \cup Thenables \cup 1..Len(promise) /\ r # 0
  BY <1>1 DEF InHand, PromisesOK
<1>3. c \in 1..Len(cell) /\ Callable(c, r)
  BY <1>a, <1>1, <1>2 DEF InHand, ReactionsOK, Callable
<1>4. Len(s) < MaxDepth
  BY <1>a, PromiseAssumption DEF PassThrough
<1>5. CallResolve(c, j.arg, t, s) \/ CallReject(c, j.arg, t, s)
  BY <1>a DEF PassThrough
<1>6. InHand(promise', cell', reaction, queue', stack', b, abandoned, 0, 0)
  <2>1. PICK v : v = j.arg
    OBVIOUS
  <2>2. CASE CallResolve(c, v, t, s)
    BY <1>1, <1>2, <1>3, <1>4, <2>1, <2>2, ResolveKeeps
  <2>3. CASE CallReject(c, v, t, s)
    BY <1>1, <1>2, <1>3, <2>1, <2>3, RejectKeeps
  <2> QED BY <1>5, <2>1, <2>2, <2>3
<1> QED BY <1>a, <1>6 DEF PromiseInv, PassThrough

LEMMA RefuseReactionKeeps ==
  ASSUME PromiseInv, RefuseReaction
  PROVE  PromiseInv'
<1>a. PICK r, t, b : r = Head(queue).of /\ t = Tail(queue) /\ b = Append(started, r)
  OBVIOUS
<1>1. /\ r \in 1..Len(reaction)
      /\ InHand(promise, cell, reaction, t, stack, b, abandoned, 0, r)
  BY <1>a, StartReaction DEF PromiseInv, RefuseReaction
<1>2. r # 0
  BY <1>1
<1>3. InHand(promise, cell, reaction, t, stack, b, abandoned \cup {reaction[r].cell}, 0, 0)
  BY <1>1, <1>2, LoseReaction
<1> QED BY <1>a, <1>3 DEF PromiseInv, RefuseReaction

LEMMA RefuseThenableJobKeeps ==
  ASSUME PromiseInv, RefuseThenableJob
  PROVE  PromiseInv'
<1>a. PICK h, t : h = Head(queue).of /\ t = Tail(queue)
  OBVIOUS
<1>1. h # 0 /\ InHand(promise, cell, reaction, t, stack, started, abandoned, h, 0)
  BY <1>a, TakeThenable DEF PromiseInv, RefuseThenableJob
<1>2. PICK c \in 1..Len(cell) : cell[c].promise = h /\ abandoned' = abandoned \cup {c}
  BY <1>a DEF RefuseThenableJob, Cells
<1>3. InHand(promise, cell, reaction, t, stack, started, abandoned \cup {c}, 0, 0)
  BY <1>1, <1>2, LoseHeld
<1> QED BY <1>a, <1>2, <1>3 DEF PromiseInv, RefuseThenableJob

-----------------------------------------------------------------------------
(* The invariant.                                                           *)

LEMMA NextKeeps == PromiseInv /\ [Next]_vars => PromiseInv'
<1> SUFFICES ASSUME PromiseInv, [Next]_vars PROVE PromiseInv'
  OBVIOUS
<1>1. CASE RunScript
  BY <1>1, RunScriptKeeps
<1>2. CASE GuestNext
  <2>1. CASE NewPromise
    BY <2>1, NewPromiseKeeps
  <2>2. CASE \E c \in Cells, v \in Values : Resolve(c, v)
    BY <2>2, ResolveActionKeeps
  <2>3. CASE \E c \in Cells, v \in Values : Reject(c, v)
    BY <2>3, RejectActionKeeps
  <2>4. CASE \E p \in Promises, w \in SUBSET {"fulfilled", "rejected"} : Then(p, w)
    BY <2>4, ThenKeeps
  <2> QED BY <1>2, <2>1, <2>2, <2>3, <2>4 DEF GuestNext
<1>3. CASE EndNext
  <2>1. CASE CodeReturns
    BY <2>1, CodeReturnsKeeps
  <2>2. CASE GetReturnsCallable
    BY <2>2, GetReturnsCallableKeeps
  <2>3. CASE GetReturnsOther
    BY <2>3, GetReturnsOtherKeeps
  <2>4. ASSUME NEW v \in Values, CodeThrows(v) PROVE PromiseInv'
    BY <2>4, CodeThrowsKeeps
  <2>5. ASSUME NEW v \in Values, GetThrows(v) PROVE PromiseInv'
    BY <2>5, GetThrowsKeeps
  <2>6. ASSUME NEW v \in Values, HandlerReturns(v) PROVE PromiseInv'
    BY <2>6, HandlerReturnsKeeps
  <2>7. ASSUME NEW v \in Values, HandlerThrows(v) PROVE PromiseInv'
    BY <2>7, HandlerThrowsKeeps
  <2>8. ASSUME NEW n \in 1..Len(stack), Fault(n) PROVE PromiseInv'
    BY <2>8, FaultKeeps
  <2> QED BY <1>3, <2>1, <2>2, <2>3, <2>4, <2>5, <2>6, <2>7, <2>8 DEF EndNext
<1>4. CASE JobNext
  <2>1. CASE StartThenableJob
    BY <2>1, StartThenableJobKeeps
  <2>2. CASE StartHandler
    BY <2>2, StartHandlerKeeps
  <2>3. CASE PassThrough
    BY <2>3, PassThroughKeeps
  <2>4. CASE RefuseReaction
    BY <2>4, RefuseReactionKeeps
  <2>5. CASE RefuseThenableJob
    BY <2>5, RefuseThenableJobKeeps
  <2> QED BY <1>4, <2>1, <2>2, <2>3, <2>4, <2>5 DEF JobNext
<1>5. CASE UNCHANGED vars
  BY <1>5 DEF vars, PromiseInv
<1> QED BY <1>1, <1>2, <1>3, <1>4, <1>5 DEF Next

\* Between two handlers of the code nothing is in hand and every part of the
\* invariant holds, for any values and bounds.
THEOREM PromiseInvariant == Spec => []PromiseInv
<1>1. Init => PromiseInv
  BY InitHolds
<1>2. PromiseInv /\ [Next]_vars => PromiseInv'
  BY NextKeeps
<1> QED BY <1>1, <1>2, PTL DEF Spec

-----------------------------------------------------------------------------
(* What it implies.                                                         *)

\* The lists are well formed: no index leads outside its list, and only a
\* pending promise has waiting reactions.
THEOREM PromiseTypeCorrect == Spec => []PromiseTypeOK
<1>1. PromiseInv => PromiseTypeOK
  <2> SUFFICES ASSUME PromiseInv PROVE PromiseTypeOK
    OBVIOUS
  <2>1. /\ promise \in Seq(PromiseRecords) /\ cell \in Seq(CellRecords)
        /\ reaction \in Seq(ReactionRecords) /\ queue \in Seq(JobRecords)
        /\ stack \in Seq(FrameRecords) /\ started \in Seq(Nat)
        /\ abandoned \subseteq Cells /\ Len(stack) <= MaxDepth
    BY DEF PromiseInv, InHand, Lists, Cells
  <2>2. \A p \in Promises :
          /\ promise[p].state \in {"pending", "fulfilled", "rejected"}
          /\ promise[p].result \in Values
          /\ \A i \in DOMAIN promise[p].reactions : promise[p].reactions[i] \in Reactions
          /\ ~Pending(p) => promise[p].reactions = <<>>
    <3> TAKE p \in Promises
    <3>1. promise[p] \in PromiseRecords
      BY <2>1, Entries DEF Promises
    <3>2. promise[p].state \in {"pending", "fulfilled", "rejected"}
      BY <3>1 DEF PromiseRecords
    <3> QED BY <3>2, GuestValues
      DEF PromiseInv, InHand, PromisesOK, Promises, Reactions, Pending
  <2>3. \A c \in Cells : cell[c] \in [promise : Promises, used : BOOLEAN, guest : BOOLEAN]
    <3> TAKE c \in Cells
    <3>1. cell[c] \in CellRecords
      BY <2>1, Entries DEF Cells
    <3>2. cell[c].promise \in Promises
      BY DEF PromiseInv, InHand, CellsOK, Cells, Promises
    <3> QED BY <3>1, <3>2 DEF CellRecords
  <2>4. \A r \in Reactions :
          reaction[r] \in
            [on : Promises, cell : Cells, handles : SUBSET {"fulfilled", "rejected"}]
    <3> TAKE r \in Reactions
    <3>1. reaction[r] \in ReactionRecords
      BY <2>1, Entries DEF Reactions
    <3>2. reaction[r].on \in Promises /\ reaction[r].cell \in Cells
      BY DEF PromiseInv, InHand, ReactionsOK, Reactions, Cells, Promises
    <3> QED BY <3>1, <3>2 DEF ReactionRecords
  <2>5. \A i \in DOMAIN queue :
          \/ /\ queue[i].kind = "reaction" /\ queue[i].of \in Reactions
             /\ queue[i].outcome \in {"fulfilled", "rejected"} /\ queue[i].arg \in Values
          \/ queue[i].kind = "thenable" /\ queue[i].of \in Promises
             /\ queue[i].arg \in Candidates
    <3> TAKE i \in DOMAIN queue
    <3>1. queue[i] \in JobRecords
      BY <2>1
    <3>2. queue[i].kind \in {"reaction", "thenable"}
      BY <3>1 DEF JobRecords
    <3>3. CASE queue[i].kind = "reaction"
      <4>1. PICK p : p = reaction[queue[i].of].on
        OBVIOUS
      <4>2. /\ queue[i].of \in Reactions /\ p \in Promises /\ promise[p].state # "pending"
            /\ queue[i].outcome = promise[p].state /\ queue[i].arg = promise[p].result
        BY <3>3, <4>1
        DEF PromiseInv, InHand, QueueOK, ReactionsOK, Reactions, Promises
      <4> QED BY <2>2, <3>3, <4>2
    <3>4. CASE queue[i].kind = "thenable"
      BY <3>4 DEF PromiseInv, InHand, QueueOK, Promises, Candidates
    <3> QED BY <3>2, <3>3, <3>4
  <2>6. \A i \in DOMAIN stack :
          /\ stack[i].kind \in {"script", "callee", "get", "handler"}
          /\ stack[i].kind # "script" => stack[i].cell \in Cells
          /\ stack[i].value \in Values
    <3> TAKE i \in DOMAIN stack
    <3>1. stack[i] \in FrameRecords
      BY <2>1
    <3>2. stack[i].kind \in {"script", "callee", "get", "handler"}
      BY <3>1 DEF FrameRecords
    <3> QED BY <3>2, GuestValues DEF PromiseInv, InHand, StackOK, Cells
  <2>7. \A i \in DOMAIN started : started[i] \in Reactions
    BY DEF PromiseInv, InHand, StartedOK, Reactions
  <2> QED BY <2>1, <2>2, <2>3, <2>4, <2>5, <2>6, <2>7 DEF PromiseTypeOK
<1> QED BY <1>1, PromiseInvariant, PTL

\* Exactly one thing decides a promise or has decided it: a second call of a
\* pair, a getter that calls the pair again and a thenable that calls both of
\* its functions decide nothing, and none is left that nothing can decide.
THEOREM CustodianIsUnique == Spec => []OneCustodian
<1>1. PromiseInv => OneCustodian
  <2> SUFFICES ASSUME PromiseInv, NEW p \in Promises
               PROVE  \E k \in Custodians(p) : Custodians(p) = {k}
    BY DEF OneCustodian
  <2>a. PICK U : U = {d \in Cells : cell[d].promise = p /\ ~cell[d].used}
    OBVIOUS
  <2>f. PICK X : X = {d \in Cells \ abandoned : cell[d].promise = p /\ ~cell[d].used}
    OBVIOUS
  <2>b. PICK Y : Y = {j \in DOMAIN stack :
                        stack[j].kind = "get" /\ cell[stack[j].cell].promise = p}
    OBVIOUS
  <2>c. PICK Z : Z = {j \in DOMAIN queue : queue[j].kind = "thenable" /\ queue[j].of = p}
    OBVIOUS
  <2>d. PICK V : V = {d \in abandoned : cell[d].promise = p}
    OBVIOUS
  <2>e. Custodians(p) =
          {<<"pair", c>> : c \in X} \cup {<<"reading then", i>> : i \in Y} \cup
          {<<"thenable job", i>> : i \in Z} \cup
          (IF Pending(p) THEN {} ELSE {<<"settled", p>>}) \cup
          {<<"abandoned", c>> : c \in V}
    BY <2>b, <2>c, <2>d, <2>f DEF Custodians
  <2>1. /\ cell \in Seq(CellRecords) /\ stack \in Seq(FrameRecords)
        /\ queue \in Seq(JobRecords) /\ abandoned \subseteq Cells
    BY DEF PromiseInv, InHand, Lists, Cells
  <2>2. /\ None(cell, UnusedPairs(p)) => U = {}
        /\ One(cell, UnusedPairs(p)) => \E c : U = {c}
    <3>1. DOMAIN cell = Cells /\ \A c \in Cells : cell[c] \in CellRecords
      BY <2>1 DEF Cells
    <3>2. U = {c \in DOMAIN cell : cell[c] \in UnusedPairs(p)}
      BY <2>a, <3>1 DEF UnusedPairs
    <3> QED BY <3>2 DEF None, One
  <2>3. /\ None(stack, Gets(cell, p)) => Y = {}
        /\ One(stack, Gets(cell, p)) => \E i : Y = {i}
    <3>1. Y = {j \in DOMAIN stack : stack[j] \in Gets(cell, p)}
      BY <2>1, <2>b DEF Gets
    <3> QED BY <3>1 DEF None, One
  <2>4. /\ None(queue, ThenableJobs(p)) => Z = {}
        /\ One(queue, ThenableJobs(p)) => \E i : Z = {i}
    <3>1. Z = {j \in DOMAIN queue : queue[j] \in ThenableJobs(p)}
      BY <2>1, <2>c DEF ThenableJobs
    <3> QED BY <3>1 DEF None, One
\* The pairs not used yet are custodians, or were abandoned with their
\* reaction.
  <2>5. X = U \ abandoned /\ V = Lost(cell, abandoned, p) \cup (U \cap abandoned)
    BY <2>a, <2>d, <2>f, <2>1 DEF Lost
  <2>6. Sole(promise, cell, queue, stack, abandoned, p)
    BY Entries DEF PromiseInv, InHand, Lists, Custody, Promises
  <2>7. \/ /\ Y = {} /\ Z = {} /\ Pending(p) /\ Lost(cell, abandoned, p) = {}
           /\ \E c : U = {c}
        \/ /\ U = {} /\ Z = {} /\ Pending(p) /\ Lost(cell, abandoned, p) = {}
           /\ \E i : Y = {i}
        \/ /\ U = {} /\ Y = {} /\ Pending(p) /\ Lost(cell, abandoned, p) = {}
           /\ \E i : Z = {i}
        \/ /\ U = {} /\ Y = {} /\ Z = {} /\ ~Pending(p)
           /\ Lost(cell, abandoned, p) = {}
        \/ /\ U = {} /\ Y = {} /\ Z = {} /\ Pending(p)
           /\ \E c : Lost(cell, abandoned, p) = {c}
    BY <2>2, <2>3, <2>4, <2>6 DEF Sole, Pending
  <2>9. \/ /\ Y = {} /\ Z = {} /\ Pending(p) /\ V = {} /\ \E c : X = {c}
        \/ /\ X = {} /\ Z = {} /\ Pending(p) /\ V = {} /\ \E i : Y = {i}
        \/ /\ X = {} /\ Y = {} /\ Pending(p) /\ V = {} /\ \E i : Z = {i}
        \/ /\ X = {} /\ Y = {} /\ Z = {} /\ ~Pending(p) /\ V = {}
        \/ /\ X = {} /\ Y = {} /\ Z = {} /\ Pending(p) /\ \E c : V = {c}
    <3>1. CASE /\ Y = {} /\ Z = {} /\ Pending(p) /\ Lost(cell, abandoned, p) = {}
               /\ \E c : U = {c}
      <4>1. PICK c : U = {c}
        BY <3>1
      <4>2. CASE c \in abandoned
        <5>1. X = {} /\ V = {c}
          BY <2>5, <3>1, <4>1, <4>2
        <5> QED BY <3>1, <5>1
      <4>3. CASE c \notin abandoned
        <5>1. X = {c} /\ V = {}
          BY <2>5, <3>1, <4>1, <4>3
        <5> QED BY <3>1, <5>1
      <4> QED BY <4>2, <4>3
    <3>2. CASE U = {}
      <4>1. X = {} /\ V = Lost(cell, abandoned, p)
        BY <2>5, <3>2
      <4> QED BY <2>7, <3>2, <4>1
    <3> QED BY <2>7, <3>1, <3>2
  <2>8. \E k : Custodians(p) = {k}
    <3>1. CASE Y = {} /\ Z = {} /\ Pending(p) /\ V = {} /\ \E c : X = {c}
      <4>1. PICK c : X = {c}
        BY <3>1
      <4>2. Custodians(p) = {<<"pair", c>>}
        BY <2>e, <3>1, <4>1
      <4> QED BY <4>2
    <3>2. CASE X = {} /\ Z = {} /\ Pending(p) /\ V = {} /\ \E i : Y = {i}
      <4>1. PICK i : Y = {i}
        BY <3>2
      <4>2. Custodians(p) = {<<"reading then", i>>}
        BY <2>e, <3>2, <4>1
      <4> QED BY <4>2
    <3>3. CASE X = {} /\ Y = {} /\ Pending(p) /\ V = {} /\ \E i : Z = {i}
      <4>1. PICK i : Z = {i}
        BY <3>3
      <4>2. Custodians(p) = {<<"thenable job", i>>}
        BY <2>e, <3>3, <4>1
      <4> QED BY <4>2
    <3>4. CASE X = {} /\ Y = {} /\ Z = {} /\ ~Pending(p) /\ V = {}
      <4>1. Custodians(p) = {<<"settled", p>>}
        BY <2>e, <3>4
      <4> QED BY <4>1
    <3>5. CASE X = {} /\ Y = {} /\ Z = {} /\ Pending(p) /\ \E c : V = {c}
      <4>1. PICK c : V = {c}
        BY <3>5
      <4>2. Custodians(p) = {<<"abandoned", c>>}
        BY <2>e, <3>5, <4>1
      <4> QED BY <4>2
    <3> QED BY <2>9, <3>1, <3>2, <3>3, <3>4, <3>5
  <2> QED BY <2>8
<1> QED BY <1>1, PromiseInvariant, PTL

\* A registered reaction waits on its promise, is queued, or has started, and
\* is in one place only: once, never twice and never lost.
THEOREM ReactionRunsOnce == Spec => []ReactionInOnePlace
<1>1. PromiseInv => ReactionInOnePlace
  <2> SUFFICES ASSUME PromiseInv, NEW r \in Reactions
               PROVE  \E k \in Places(r) : Places(r) = {k}
    BY DEF ReactionInOnePlace
  <2>a. PICK w, h : w = promise[h].reactions /\ h = reaction[r].on
    OBVIOUS
  <2>b. PICK W : W = UNION {{<<"waiting", p, i>> : i \in {j \in DOMAIN promise[p].reactions :
                               promise[p].reactions[j] = r}} : p \in Promises}
    OBVIOUS
  <2>c. PICK Y : Y = {j \in DOMAIN queue : queue[j].kind = "reaction" /\ queue[j].of = r}
    OBVIOUS
  <2>d. PICK Z : Z = {j \in DOMAIN started : started[j] = r}
    OBVIOUS
  <2>e. Places(r) = W \cup {<<"queued", i>> : i \in Y} \cup {<<"started", i>> : i \in Z}
    BY <2>b, <2>c, <2>d DEF Places
  <2>1. h \in Promises /\ queue \in Seq(JobRecords)
    BY <2>a DEF PromiseInv, InHand, Lists, ReactionsOK, Reactions, Promises
  <2>2. \A p \in Promises : \A j \in DOMAIN promise[p].reactions :
          promise[p].reactions[j] = r => p = h
    BY <2>a DEF PromiseInv, InHand, PromisesOK, Promises
  <2>3. W = {<<"waiting", h, i>> : i \in {j \in DOMAIN w : w[j] = r}}
    BY <2>a, <2>b, <2>1, <2>2
  <2>4. /\ None(w, {r}) => W = {}
        /\ One(w, {r}) => \E i : W = {<<"waiting", h, i>>}
    <3>1. PICK X : X = {j \in DOMAIN w : w[j] = r}
      OBVIOUS
    <3>2. None(w, {r}) => X = {}
      BY <3>1 DEF None
    <3>3. One(w, {r}) => \E i : X = {i}
      BY <3>1 DEF One
    <3>4. W = {<<"waiting", h, i>> : i \in X}
      BY <2>3, <3>1
    <3>5. \A i : X = {i} => W = {<<"waiting", h, i>>}
      BY <3>4
    <3> QED BY <3>2, <3>3, <3>4, <3>5
  <2>5. /\ None(queue, ReactionJobs(r)) => Y = {}
        /\ One(queue, ReactionJobs(r)) => \E i : Y = {i}
    <3>1. Y = {j \in DOMAIN queue : queue[j] \in ReactionJobs(r)}
      BY <2>1, <2>c DEF ReactionJobs
    <3> QED BY <3>1 DEF None, One
  <2>6. /\ None(started, {r}) => Z = {}
        /\ One(started, {r}) => \E i : Z = {i}
    BY <2>d DEF None, One
  <2>7. \/ One(w, {r}) /\ None(queue, ReactionJobs(r)) /\ None(started, {r})
        \/ None(w, {r}) /\ One(queue, ReactionJobs(r)) /\ None(started, {r})
        \/ None(w, {r}) /\ None(queue, ReactionJobs(r)) /\ One(started, {r})
    BY <2>a DEF PromiseInv, InHand, Placed, Reactions
  <2>8. \E k : Places(r) = {k}
    <3>1. CASE (\E i : W = {<<"waiting", h, i>>}) /\ Y = {} /\ Z = {}
      BY <2>e, <3>1
    <3>2. CASE W = {} /\ (\E i : Y = {i}) /\ Z = {}
      <4>1. PICK i : Y = {i}
        BY <3>2
      <4>2. Places(r) = {<<"queued", i>>}
        BY <2>e, <3>2, <4>1
      <4> QED BY <4>2
    <3>3. CASE W = {} /\ Y = {} /\ \E i : Z = {i}
      <4>1. PICK i : Z = {i}
        BY <3>3
      <4>2. Places(r) = {<<"started", i>>}
        BY <2>e, <3>3, <4>1
      <4> QED BY <4>2
    <3> QED BY <2>4, <2>5, <2>6, <2>7, <3>1, <3>2, <3>3
  <2> QED BY <2>8
<1> QED BY <1>1, PromiseInvariant, PTL

\* The pair of a derived promise is used only when the job of its reaction is
\* done with it, and is used then unless a runtime failure unwound the handler
\* or refused the job, its handler or its call of the pair.
THEOREM DerivedPromiseFollows == Spec => []DerivedFollows
<1>1. PromiseInv => DerivedFollows
  <2> SUFFICES ASSUME PromiseInv, NEW r \in Reactions, NEW c, c = reaction[r].cell
               PROVE  LET begun == \E i \in DOMAIN started : started[i] = r
                          running == \E i \in DOMAIN stack :
                                       stack[i] = Frame("handler", c, stack[i].value)
                      IN /\ cell[c].used => begun /\ ~running
                         /\ begun /\ ~running => cell[c].used \/ c \in abandoned
    BY DEF DerivedFollows
  <2>1. (\E i \in DOMAIN started : started[i] = r) <=> ~None(started, {r})
    BY DEF None
  <2>2. (\E i \in DOMAIN stack : stack[i] = Frame("handler", c, stack[i].value))
          <=> ~None(stack, Handlers(c))
    <3>1. stack \in Seq(FrameRecords)
      BY DEF PromiseInv, InHand, Lists
    <3>2. ASSUME NEW i \in DOMAIN stack
          PROVE  stack[i] = Frame("handler", c, stack[i].value) <=> stack[i] \in Handlers(c)
      <4>1. stack[i] \in FrameRecords
        BY <3>1
      <4> QED BY <4>1 DEF Handlers, Frame, FrameRecords
    <3> QED BY <3>2 DEF None
  <2>3. /\ cell[c].used => ~None(started, {r}) /\ None(stack, Handlers(c))
        /\ ~None(started, {r}) /\ None(stack, Handlers(c)) => cell[c].used \/ c \in abandoned
    <3>1. r # 0 /\ r \in 1..Len(reaction)
      BY Entries DEF PromiseInv, InHand, Lists, Reactions
    <3> QED BY <3>1 DEF PromiseInv, InHand, Derived
  <2> QED BY <2>1, <2>2, <2>3
<1> QED BY <1>1, PromiseInvariant, PTL

\* A queued reaction job carries the outcome and the result of its promise.
THEOREM JobsCarryOutcomes == Spec => []JobCarriesOutcome
<1>1. PromiseInv => JobCarriesOutcome
  BY DEF PromiseInv, InHand, QueueOK, JobCarriesOutcome
<1> QED BY <1>1, PromiseInvariant, PTL

\* Reactions of one promise start in the order of their registration.
THEOREM ReactionsStartInOrder == Spec => []RegistrationOrder
<1>1. PromiseInv => RegistrationOrder
  BY DEF PromiseInv, InHand, Ordered, RegistrationOrder
<1> QED BY <1>1, PromiseInvariant, PTL

-----------------------------------------------------------------------------
(* What no step changes.                                                    *)

\* A settlement leaves the promises alone that are settled already.
LEMMA SettleLeavesSettled ==
  ASSUME PromiseInv, NEW p, NEW o, NEW v, NEW jobs, Settle(p, o, v, jobs),
         NEW q \in Promises, ~Pending(q)
  PROVE  promise'[q] = promise[q]
<1>1. promise \in Seq(PromiseRecords)
  BY DEF PromiseInv, InHand, Lists
<1>2. CASE Pending(p)
  <2>1. p # q
    BY <1>2
  <2>2. PICK n : promise' = [promise EXCEPT ![p] = n]
    BY <1>2 DEF Settle
  <2> QED BY <1>1, <2>1, <2>2
<1>3. CASE ~Pending(p)
  BY <1>3 DEF Settle
<1> QED BY <1>2, <1>3

\* What a step leaves of the promises that are settled and the pairs that are
\* used.
Kept ==
  /\ \A p \in Promises : ~Pending(p) => promise'[p] = promise[p]
  /\ \A c \in Cells : cell[c].used => cell'[c].used

LEMMA CommitKeepsUsed ==
  ASSUME PromiseInv, NEW c, cell' = [cell EXCEPT ![c].used = TRUE],
         NEW k \in Cells, cell[k].used
  PROVE  cell'[k].used
<1>1. cell \in Seq(CellRecords) /\ DOMAIN cell = Cells
  BY DEF PromiseInv, InHand, Lists, Cells
<1>2. cell[k] \in CellRecords
  BY <1>1
<1>3. cell'[k] = IF k = c THEN [cell[k] EXCEPT !.used = TRUE] ELSE cell[k]
  BY <1>1
<1> QED BY <1>2, <1>3 DEF CellRecords

LEMMA RejectLeavesSettled ==
  ASSUME PromiseInv, NEW c, NEW v, NEW jobs, NEW frames, CallReject(c, v, jobs, frames)
  PROVE  Kept
<1>1. CASE cell[c].used
  BY <1>1 DEF CallReject, Kept
<1>2. CASE ~cell[c].used
  <2>1. /\ cell' = [cell EXCEPT ![c].used = TRUE]
        /\ Settle(cell[c].promise, "rejected", v, jobs)
    BY <1>2 DEF CallReject
  <2> QED BY <2>1, SettleLeavesSettled, CommitKeepsUsed DEF Kept
<1> QED BY <1>1, <1>2

LEMMA ResolveLeavesSettled ==
  ASSUME PromiseInv, NEW c, NEW v, NEW jobs, NEW frames, CallResolve(c, v, jobs, frames)
  PROVE  Kept
<1>1. CASE cell[c].used
  BY <1>1 DEF CallResolve, Kept
<1>2. CASE ~cell[c].used
  <2>1. cell' = [cell EXCEPT ![c].used = TRUE]
    BY <1>2 DEF CallResolve
  <2>2. \/ promise' = promise
        \/ \E o, x : Settle(cell[c].promise, o, x, jobs)
    BY <1>2 DEF CallResolve
  <2> QED BY <2>1, <2>2, SettleLeavesSettled, CommitKeepsUsed DEF Kept
<1> QED BY <1>1, <1>2

\* A new promise and its pair come last.
LEMMA AppendLeavesSettled ==
  ASSUME PromiseInv, NEW g \in BOOLEAN, cell' = Append(cell, NewCell(Len(promise) + 1, g)),
         NEW P \in Seq(PromiseRecords), Len(P) = Len(promise),
         promise' = Append(P, NewPromiseData),
         \A p \in Promises : ~Pending(p) => P[p] = promise[p]
  PROVE  Kept
<1>a. PICK e, k : e = NewPromiseData /\ k = NewCell(Len(promise) + 1, g)
  OBVIOUS
<1>1. e \in PromiseRecords
  BY <1>a, PromiseAssumption DEF NewPromiseData, PromiseRecords, AllValues
<1>2. promise \in Seq(PromiseRecords) /\ cell \in Seq(CellRecords) /\ DOMAIN cell = Cells
  BY DEF PromiseInv, InHand, Lists, Cells
<1>3. k \in CellRecords
  BY <1>a, <1>2 DEF NewCell, CellRecords
<1>4. DOMAIN P = Promises
  BY DEF Promises
<1>5. \A p \in Promises : promise'[p] = P[p]
  BY <1>a, <1>1, <1>4, AppendEntries
<1>6. \A c \in Cells : cell'[c] = cell[c]
  BY <1>a, <1>2, <1>3, AppendEntries
<1> QED BY <1>5, <1>6 DEF Kept

\* A settled promise keeps its state, its result and its empty reaction list,
\* and a used pair stays used, in every step.
THEOREM SettledIsForever == Spec => SettledForever
<1>1. PromiseInv /\ [Next]_vars => [Kept]_vars
  <2> SUFFICES ASSUME PromiseInv, Next PROVE Kept
    OBVIOUS
  <2>1. CASE UNCHANGED <<promise, cell>>
    BY <2>1 DEF Kept
  <2>2. CASE NewPromise
    <3>1. promise \in Seq(PromiseRecords)
      BY DEF PromiseInv, InHand, Lists
    <3> QED BY <2>2, <3>1, AppendLeavesSettled DEF NewPromise
  <2>3. ASSUME NEW p \in Promises, NEW w \in SUBSET {"fulfilled", "rejected"}, Then(p, w)
        PROVE  Kept
    <3>1. promise \in Seq(PromiseRecords) /\ p \in 1..Len(promise)
      BY DEF PromiseInv, InHand, Lists, Promises
    <3>2. CASE ~Pending(p)
      BY <2>3, <3>1, <3>2, AppendLeavesSettled DEF Then
    <3>3. CASE Pending(p)
      <4>1. PICK u : u = [promise[p] EXCEPT !.reactions = Append(@, Len(reaction) + 1)]
        OBVIOUS
      <4>2. u \in PromiseRecords
        <5>1. PICK m \in PromiseRecords : m = promise[p]
          BY <3>1, Entries
        <5>2. Len(reaction) + 1 \in Nat
          BY Entries DEF PromiseInv, InHand, Lists
        <5>3. Append(m.reactions, Len(reaction) + 1) \in Seq(Nat)
          BY <5>2 DEF PromiseRecords
        <5>4. [m EXCEPT !.reactions = Append(@, Len(reaction) + 1)] \in PromiseRecords
          BY <5>3 DEF PromiseRecords
        <5> QED BY <4>1, <5>1, <5>4
      <4>3. PICK P : P = [promise EXCEPT ![p] = u]
        OBVIOUS
      <4>4. P \in Seq(PromiseRecords) /\ Len(P) = Len(promise)
        BY <3>1, <4>2, <4>3
      <4>5. \A q \in Promises : ~Pending(q) => P[q] = promise[q]
        BY <3>1, <3>3, <4>3 DEF Promises
      <4>6. promise' = Append(P, NewPromiseData)
        BY <2>3, <3>3, <4>1, <4>3 DEF Then
      <4>7. cell' = Append(cell, NewCell(Len(promise) + 1, FALSE))
        BY <2>3 DEF Then
      <4> QED BY <4>4, <4>5, <4>6, <4>7, AppendLeavesSettled
    <3> QED BY <3>2, <3>3
  <2>4. ASSUME NEW c, NEW v, NEW jobs, NEW frames,
               CallResolve(c, v, jobs, frames) \/ CallReject(c, v, jobs, frames)
        PROVE  Kept
    BY <2>4, ResolveLeavesSettled, RejectLeavesSettled
  <2>5. ASSUME NEW p, NEW o, NEW v, NEW jobs, Settle(p, o, v, jobs), cell' = cell
        PROVE  Kept
    BY <2>5, SettleLeavesSettled DEF Kept
  <2>6. CASE StartThenableJob
    <3>1. cell \in Seq(CellRecords) /\ DOMAIN cell = Cells /\ queue \in Seq(JobRecords)
      BY DEF PromiseInv, InHand, Lists, Cells
    <3>2. Head(queue).of \in Nat
      <4>1. Head(queue) \in JobRecords
        BY <2>6, <3>1 DEF StartThenableJob
      <4> QED BY <4>1 DEF JobRecords
    <3>3. PICK k : k = NewCell(Head(queue).of, TRUE)
      OBVIOUS
    <3>4. k \in CellRecords
      BY <3>2, <3>3 DEF NewCell, CellRecords
    <3>5. \A c \in Cells : Append(cell, k)[c] = cell[c]
      BY <3>1, <3>4, AppendEntries
    <3> QED BY <2>6, <3>3, <3>5 DEF StartThenableJob, Kept
  <2>7. CASE GuestNext
    <3>1. ASSUME NEW c \in Cells, NEW v \in Values, Resolve(c, v) PROVE Kept
      BY <2>4, <3>1 DEF Resolve
    <3>2. ASSUME NEW c \in Cells, NEW v \in Values, Reject(c, v) PROVE Kept
      BY <2>4, <3>2 DEF Reject
    <3> QED BY <2>2, <2>3, <2>7, <3>1, <3>2 DEF GuestNext
  <2>8. CASE EndNext
    <3>1. CASE CodeReturns \/ GetReturnsCallable \/ \E n \in 1..Len(stack) : Fault(n)
      BY <2>1, <3>1 DEF CodeReturns, GetReturnsCallable, Fault
    <3>2. CASE GetReturnsOther
      BY <2>5, <3>2 DEF GetReturnsOther
    <3>3. ASSUME NEW v \in Values, CodeThrows(v) PROVE Kept
      BY <2>4, <3>3 DEF CodeThrows
    <3>4. ASSUME NEW v \in Values, GetThrows(v) PROVE Kept
      BY <2>5, <3>4 DEF GetThrows
    <3>5. ASSUME NEW v \in Values, HandlerReturns(v) PROVE Kept
      BY <2>4, <3>5 DEF HandlerReturns
    <3>6. ASSUME NEW v \in Values, HandlerThrows(v) PROVE Kept
      BY <2>4, <3>6 DEF HandlerThrows
    <3> QED BY <2>8, <3>1, <3>2, <3>3, <3>4, <3>5, <3>6 DEF EndNext
  <2>9. CASE RunScript \/ StartHandler \/ RefuseReaction \/ RefuseThenableJob
    BY <2>1, <2>9 DEF RunScript, StartHandler, RefuseReaction, RefuseThenableJob
  <2>10. CASE PassThrough
    BY <2>4, <2>10 DEF PassThrough
  <2> QED BY <2>6, <2>7, <2>8, <2>9, <2>10 DEF Next, JobNext
<1> QED BY <1>1, PromiseInvariant, PTL DEF Spec, SettledForever, Kept

\* Promises are created, never removed.
LEMMA PromisesStay ==
  ASSUME PromiseInv, PromiseInv', [Next]_vars, NEW p \in Promises
  PROVE  p \in Promises'
<1>1. /\ promise \in Seq(PromiseRecords) /\ promise' \in Seq(PromiseRecords)
      /\ DOMAIN promise = Promises /\ DOMAIN promise' = Promises'
  BY DEF PromiseInv, InHand, Lists, Promises
<1>2. ASSUME NEW P \in Seq(PromiseRecords), Len(P) = Len(promise),
             promise' = Append(P, NewPromiseData)
      PROVE  p \in Promises'
  <2>1. NewPromiseData \in PromiseRecords
    BY PromiseAssumption DEF NewPromiseData, PromiseRecords, AllValues
  <2>2. Len(promise') = Len(promise) + 1 /\ Len(promise) \in Nat
    BY <1>1, <1>2, <2>1, AppendProperties, LenProperties
  <2> QED BY <2>2 DEF Promises
<1>3. ASSUME NEW q, NEW n, promise' = [promise EXCEPT ![q] = n]
      PROVE  p \in Promises'
  BY <1>1, <1>3
<1>4. CASE promise' = promise
  BY <1>4 DEF Promises
<1>5. ASSUME NEW q, NEW o, NEW v, NEW jobs, Settle(q, o, v, jobs)
      PROVE  p \in Promises'
  BY <1>3, <1>4, <1>5 DEF Settle
<1>6. ASSUME NEW c, NEW v, NEW jobs, NEW frames,
             CallResolve(c, v, jobs, frames) \/ CallReject(c, v, jobs, frames)
      PROVE  p \in Promises'
  BY <1>4, <1>5, <1>6 DEF CallResolve, CallReject
<1>7. CASE NewPromise
  BY <1>1, <1>2, <1>7 DEF NewPromise
<1>8. ASSUME NEW q \in Promises, NEW w \in SUBSET {"fulfilled", "rejected"}, Then(q, w)
      PROVE  p \in Promises'
  <2>1. CASE ~Pending(q)
    BY <1>1, <1>2, <1>8, <2>1 DEF Then
  <2>2. CASE Pending(q)
    <3>1. PICK P : P = [promise EXCEPT ![q].reactions = Append(@, Len(reaction) + 1)]
      OBVIOUS
    <3>2. promise' = Append(P, NewPromiseData)
      BY <1>8, <2>2, <3>1 DEF Then
    <3>3. P \in Seq(PromiseRecords) /\ Len(P) = Len(promise)
      <4>1. PICK m \in PromiseRecords : m = promise[q]
        BY <1>1, Entries
      <4>2. Len(reaction) + 1 \in Nat
        BY Entries DEF PromiseInv, InHand, Lists
      <4>3. PICK u : u = [m EXCEPT !.reactions = Append(@, Len(reaction) + 1)]
        OBVIOUS
      <4>4. Append(m.reactions, Len(reaction) + 1) \in Seq(Nat)
        BY <4>2 DEF PromiseRecords
      <4>5. u \in PromiseRecords
        BY <4>3, <4>4 DEF PromiseRecords
      <4>6. P = [promise EXCEPT ![q] = u]
        BY <3>1, <4>1, <4>3
      <4> QED BY <1>1, <4>5, <4>6
    <3> QED BY <1>2, <3>2, <3>3
  <2> QED BY <2>1, <2>2
<1>9. CASE GuestNext
  BY <1>6, <1>7, <1>8, <1>9 DEF GuestNext, Resolve, Reject
<1>10. CASE EndNext
  BY <1>4, <1>5, <1>6, <1>10 DEF EndNext, CodeReturns, GetReturnsCallable, GetReturnsOther,
     CodeThrows, GetThrows, HandlerReturns, HandlerThrows, Fault
<1>11. CASE RunScript \/ JobNext \/ UNCHANGED vars
  BY <1>4, <1>6, <1>11 DEF RunScript, JobNext, StartThenableJob, StartHandler, PassThrough,
     RefuseReaction, RefuseThenableJob, vars
<1> QED BY <1>9, <1>10, <1>11 DEF Next

\* Promise p has settled as o, with v.
SettledAs(p, o, v) ==
  p \in Promises /\ promise[p].state = o /\ promise[p].result = v

\* A promise that has settled has the same outcome and the same result at
\* every later time, whatever pairs, getters, thenables, handlers and faults
\* the guest combines.
THEOREM OutcomeIsForever ==
  ASSUME NEW q, NEW o \in {"fulfilled", "rejected"}, NEW v
  PROVE  Spec => [](SettledAs(q, o, v) => []SettledAs(q, o, v))
<1>1. PromiseInv /\ PromiseInv' /\ [Next]_vars /\ [Kept]_vars /\ SettledAs(q, o, v)
      => SettledAs(q, o, v)'
  <2> SUFFICES ASSUME PromiseInv, PromiseInv', [Next]_vars, [Kept]_vars, SettledAs(q, o, v)
               PROVE  SettledAs(q, o, v)'
    OBVIOUS
  <2>1. q \in Promises'
    BY PromisesStay DEF SettledAs
  <2>2. promise'[q] = promise[q]
    BY DEF SettledAs, Pending, Kept, vars
  <2> QED BY <2>1, <2>2 DEF SettledAs
<1>2. Spec => [][Kept]_vars
  BY SettledIsForever, PTL DEF SettledForever, Kept
<1> QED BY <1>1, <1>2, PromiseInvariant, PTL DEF Spec
=============================================================================
