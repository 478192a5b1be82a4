----------------------- MODULE ExecutionControlProofs -----------------------
(***************************************************************************)
(* ExecutionControl for every set of handles, every budget, depth limit    *)
(* and number of operations: an operation gives back the control it        *)
(* replaced, an activation is released to the control that granted it, a   *)
(* control that ended is reported and grants nothing more.                 *)
(*                                                                         *)
(* The code restores and releases without asking whose turn it is; that    *)
(* this is right rests on the stack discipline of what is to be unwound,   *)
(* which the first half of the module is about.                            *)
(***************************************************************************)
EXTENDS ExecutionControl, FiniteSetTheorems, SequenceTheorems, TLAPS

ControlRecords ==
  [remaining : 0..MaxSteps, limit : 0..MaxDepth, depth : Nat, handle : Handles,
   strict : BOOLEAN, cause : Causes \cup {NoError}]

OperationFrames ==
  [kind : {"plain", "bounded", "hosted", "joined"}, control : Nat,
   binding : Nat, cache : Nat, hosted : Nat]

ActivationFrames ==
  [kind : {"activation"}, phase : {"attempted", "accepted"}, control : Nat,
   releases : BOOLEAN]

Frames == OperationFrames \cup ActivationFrames

Installing == {"bounded", "hosted"}

\* v is the control of the first frame of one of the kinds after position i
\* of the stack s, or 0 if there is none.
Nearest(s, i, kinds, v) ==
  \/ v = 0 /\ \A j \in DOMAIN s : j > i => s[j].kind \notin kinds
  \/ \E j \in DOMAIN s :
       /\ j > i /\ s[j].kind \in kinds /\ v = s[j].control
       /\ \A m \in DOMAIN s : i < m /\ m < j => s[m].kind \notin kinds

\* What a binding, a cache and a hosted control must be on top of stack s.
CarrierOn(s, b, c, h) ==
  /\ Nearest(s, 0, Installing, b)
  /\ Nearest(s, 0, {"hosted"}, h)
  /\ c \in {b, Unresolved}
  /\ c = Unresolved => b = 0

\* What a frame saved or was charged to, when it was pushed on stack s.
PushedOn(f, s) ==
  /\ f.kind \in Installing =>
       /\ CarrierOn(s, f.binding, f.cache, f.hosted)
       /\ \A j \in DOMAIN s : s[j].kind \in Installing => s[j].control < f.control
       /\ f.control > 0
  /\ f.kind = "joined" => Nearest(s, 0, {"hosted"}, f.control) /\ f.control > 0
  /\ f.kind = "activation" =>
       IF f.releases THEN Nearest(s, 0, Installing, f.control) ELSE f.control = 0

\* The same for every frame of stack s.
Discipline(s) ==
  \A i \in DOMAIN s :
    /\ s[i].kind \in Installing =>
         /\ Nearest(s, i, Installing, s[i].binding)
         /\ Nearest(s, i, {"hosted"}, s[i].hosted)
         /\ s[i].cache \in {s[i].binding, Unresolved}
         /\ s[i].cache = Unresolved => s[i].binding = 0
         /\ \A j \in DOMAIN s :
              j > i /\ s[j].kind \in Installing => s[j].control < s[i].control
         /\ s[i].control > 0
    /\ s[i].kind = "joined" => Nearest(s, i, {"hosted"}, s[i].control) /\ s[i].control > 0
    /\ s[i].kind = "activation" =>
         IF s[i].releases THEN Nearest(s, i, Installing, s[i].control)
         ELSE s[i].control = 0

\* The activations of stack s that control k granted.
Grants(s, k) ==
  {i \in DOMAIN s : s[i].kind = "activation" /\ s[i].releases /\ s[i].control = k}

Shape ==
  /\ control \in Seq(ControlRecords) /\ Len(control) <= MaxOperations
  /\ stack \in Seq(Frames) /\ Len(stack) <= MaxFrames
  /\ \A i \in DOMAIN stack : stack[i].control <= Len(control)
  /\ requested \subseteq Handles
  /\ raised \in Errors \cup {NoError}
  /\ completed \subseteq Controls

\* A control whose operation returned is installed by none in progress.
CompletedLeft ==
  \A i \in DOMAIN stack : stack[i].kind \in Installing => stack[i].control \notin completed

DepthExact ==
  \A k \in Controls :
    /\ control[k].depth = Cardinality(Grants(stack, k))
    /\ control[k].depth <= control[k].limit

(* The inductive invariant. *)
ControlInv ==
  /\ Shape
  /\ CarrierOn(stack, binding, cache, hosted)
  /\ Discipline(stack)
  /\ DepthExact
  /\ CompletedLeft
  /\ TerminalReported

-----------------------------------------------------------------------------
(* Stacks. *)

\* What pushing does to positions.
LEMMA Pushed ==
    ASSUME NEW f \in Frames, NEW s \in Seq(Frames)
    PROVE  LET t == <<f>> \o s IN
           /\ t \in Seq(Frames) /\ Len(t) = Len(s) + 1 /\ t # <<>>
           /\ Head(t) = f /\ Tail(t) = s
           /\ DOMAIN t = 1..(Len(s) + 1) /\ DOMAIN s = 1..Len(s)
           /\ t[1] = f /\ \A j \in DOMAIN s : t[j + 1] = s[j]
           /\ \A j \in DOMAIN t : j = 1 \/ (j - 1 \in DOMAIN s /\ t[j] = s[j - 1])
<1> DEFINE t == <<f>> \o s
<1>1. <<f>> \in Seq(Frames) /\ Len(<<f>>) = 1 /\ <<f>>[1] = f
  OBVIOUS
<1>2. /\ t \in Seq(Frames) /\ Len(t) = Len(s) + 1
      /\ \A i \in 1..(Len(s) + 1) : t[i] = IF i <= 1 THEN <<f>>[i] ELSE s[i - 1]
  BY <1>1, ConcatProperties
<1>3. Len(s) \in Nat /\ DOMAIN t = 1..(Len(s) + 1) /\ DOMAIN s = 1..Len(s) /\ t # <<>>
  BY <1>2, LenProperties, EmptySeq
<1>4. t[1] = f /\ \A j \in DOMAIN s : t[j + 1] = s[j]
  BY <1>1, <1>2, <1>3
<1>5. Head(t) = f
  BY <1>2, <1>3, <1>4
<1>6. Tail(t) = s
  <2>1. /\ Tail(t) \in Seq(Frames) /\ Len(Tail(t)) = Len(s)
        /\ \A i \in 1..Len(s) : Tail(t)[i] = t[i + 1]
    BY <1>2, <1>3, HeadTailProperties
  <2> QED
    BY <2>1, <1>3, <1>4, SeqEqual
<1>7. \A j \in DOMAIN t : j = 1 \/ (j - 1 \in DOMAIN s /\ t[j] = s[j - 1])
  BY <1>2, <1>3
<1> QED
  BY <1>2, <1>3, <1>4, <1>5, <1>6, <1>7

\* A stack that is not empty is its top pushed on the rest.
LEMMA Popped ==
    ASSUME NEW s \in Seq(Frames), s # <<>>
    PROVE  /\ Head(s) \in Frames /\ Tail(s) \in Seq(Frames)
           /\ s = <<Head(s)>> \o Tail(s)
           /\ Len(s) = Len(Tail(s)) + 1
<1>1. /\ Head(s) \in Frames /\ Tail(s) \in Seq(Frames) /\ Len(Tail(s)) = Len(s) - 1
      /\ \A i \in 1..Len(Tail(s)) : Tail(s)[i] = s[i + 1]
  BY HeadTailProperties
<1>2. Len(s) \in Nat /\ Len(s) > 0 /\ Head(s) = s[1]
  BY LenProperties, EmptySeq
<1> DEFINE t == <<Head(s)>> \o Tail(s)
<1>3. /\ t \in Seq(Frames) /\ Len(t) = Len(s)
      /\ t[1] = Head(s) /\ \A j \in 1..Len(Tail(s)) : t[j + 1] = Tail(s)[j]
      /\ \A j \in 1..Len(s) : j = 1 \/ (j - 1 \in 1..Len(Tail(s)) /\ t[j] = Tail(s)[j - 1])
  BY <1>1, <1>2, Pushed
<1>4. \A i \in 1..Len(t) : t[i] = s[i]
  BY <1>1, <1>2, <1>3
<1>5. t = s
  BY <1>3, <1>4, SeqEqual
<1> QED
  BY <1>1, <1>2, <1>5

\* Only one control is the nearest.
LEMMA NearestUnique ==
    ASSUME NEW s \in Seq(Frames), NEW i \in Nat, NEW kinds, NEW v, NEW w,
           \A j \in DOMAIN s : s[j].kind \in kinds => s[j].control > 0,
           Nearest(s, i, kinds, v), Nearest(s, i, kinds, w)
    PROVE  v = w
<1>1. DOMAIN s \subseteq Nat
  BY LenProperties
<1>2. CASE \A j \in DOMAIN s : j > i => s[j].kind \notin kinds
  BY <1>2 DEF Nearest
<1>3. CASE \E j \in DOMAIN s : j > i /\ s[j].kind \in kinds
  <2>1. PICK j \in DOMAIN s :
          /\ j > i /\ s[j].kind \in kinds /\ v = s[j].control
          /\ \A m \in DOMAIN s : i < m /\ m < j => s[m].kind \notin kinds
    BY <1>3 DEF Nearest
  <2>2. PICK l \in DOMAIN s :
          /\ l > i /\ s[l].kind \in kinds /\ w = s[l].control
          /\ \A m \in DOMAIN s : i < m /\ m < l => s[m].kind \notin kinds
    BY <1>3 DEF Nearest
  <2>3. j = l
    BY <2>1, <2>2, <1>1
  <2> QED
    BY <2>1, <2>2, <2>3
<1> QED
  BY <1>2, <1>3

\* Pushing a frame shifts what is nearest to the frames below ...
LEMMA NearestBelow ==
    ASSUME NEW f \in Frames, NEW s \in Seq(Frames), NEW i \in Nat, NEW kinds, NEW v
    PROVE  Nearest(<<f>> \o s, i + 1, kinds, v) <=> Nearest(s, i, kinds, v)
<1> DEFINE t == <<f>> \o s
<1>1. /\ DOMAIN s \subseteq Nat /\ DOMAIN t \subseteq Nat
      /\ \A j \in DOMAIN s : j + 1 \in DOMAIN t /\ t[j + 1] = s[j]
      /\ \A j \in DOMAIN t : j = 1 \/ (j - 1 \in DOMAIN s /\ t[j] = s[j - 1])
  <2>1. Len(s) \in Nat
    BY LenProperties
  <2> QED
    BY <2>1, Pushed
<1> HIDE DEF t
<1>2. ASSUME Nearest(s, i, kinds, v)
      PROVE  Nearest(t, i + 1, kinds, v)
  <2>1. CASE v = 0 /\ \A j \in DOMAIN s : j > i => s[j].kind \notin kinds
    BY <2>1, <1>1 DEF Nearest
  <2>2. CASE \E j \in DOMAIN s :
               /\ j > i /\ s[j].kind \in kinds /\ v = s[j].control
               /\ \A m \in DOMAIN s : i < m /\ m < j => s[m].kind \notin kinds
    <3>1. PICK j \in DOMAIN s :
               /\ j > i /\ s[j].kind \in kinds /\ v = s[j].control
               /\ \A m \in DOMAIN s : i < m /\ m < j => s[m].kind \notin kinds
      BY <2>2
    <3>2. /\ j + 1 \in DOMAIN t /\ j + 1 > i + 1
          /\ t[j + 1].kind \in kinds /\ v = t[j + 1].control
      BY <3>1, <1>1
    <3>3. \A m \in DOMAIN t : i + 1 < m /\ m < j + 1 => t[m].kind \notin kinds
      BY <3>1, <1>1, SMTT(30)
    <3> QED
      BY <3>2, <3>3 DEF Nearest
  <2> QED
    BY <1>2, <2>1, <2>2 DEF Nearest
<1>3. ASSUME Nearest(t, i + 1, kinds, v)
      PROVE  Nearest(s, i, kinds, v)
  <2>1. CASE v = 0 /\ \A j \in DOMAIN t : j > i + 1 => t[j].kind \notin kinds
    BY <2>1, <1>1 DEF Nearest
  <2>2. CASE \E j \in DOMAIN t :
               /\ j > i + 1 /\ t[j].kind \in kinds /\ v = t[j].control
               /\ \A m \in DOMAIN t : i + 1 < m /\ m < j => t[m].kind \notin kinds
    <3>1. PICK j \in DOMAIN t :
               /\ j > i + 1 /\ t[j].kind \in kinds /\ v = t[j].control
               /\ \A m \in DOMAIN t : i + 1 < m /\ m < j => t[m].kind \notin kinds
      BY <2>2
    <3>2. /\ j - 1 \in DOMAIN s /\ j - 1 > i
          /\ s[j - 1].kind \in kinds /\ v = s[j - 1].control
      BY <3>1, <1>1
    <3>3. ASSUME NEW m \in DOMAIN s, i < m, m < j - 1
          PROVE  s[m].kind \notin kinds
      <4>1. m + 1 \in DOMAIN t /\ t[m + 1] = s[m] /\ i + 1 < m + 1 /\ m + 1 < j
        BY <3>1, <3>3, <1>1
      <4> QED
        BY <3>1, <4>1
    <3> QED
      BY <3>2, <3>3 DEF Nearest
  <2> QED
    BY <1>3, <2>1, <2>2 DEF Nearest
<1> QED
  BY <1>2, <1>3 DEF t

\* ... and is itself the nearest to the top if it is of the kind.
LEMMA NearestTop ==
    ASSUME NEW f \in Frames, NEW s \in Seq(Frames), NEW kinds, NEW v
    PROVE  Nearest(<<f>> \o s, 0, kinds, v) <=>
             IF f.kind \in kinds THEN v = f.control ELSE Nearest(s, 0, kinds, v)
<1> DEFINE t == <<f>> \o s
<1>1. /\ DOMAIN t \subseteq Nat /\ \A j \in DOMAIN t : j > 0
      /\ 1 \in DOMAIN t /\ t[1] = f
  <2>1. Len(s) \in Nat
    BY LenProperties
  <2> QED
    BY <2>1, Pushed
<1>2. Nearest(t, 1, kinds, v) <=> Nearest(s, 0, kinds, v)
  <2>1. Nearest(t, 0 + 1, kinds, v) <=> Nearest(s, 0, kinds, v)
    BY NearestBelow
  <2> QED
    BY <2>1
<1> HIDE DEF t
<1>3. CASE f.kind \in kinds
  BY <1>1, <1>3 DEF Nearest
<1>4. CASE f.kind \notin kinds
  <2>1. Nearest(t, 0, kinds, v) <=> Nearest(t, 1, kinds, v)
    BY <1>1, <1>4 DEF Nearest
  <2> QED
    BY <1>2, <1>4, <2>1 DEF t
<1> QED
  BY <1>3, <1>4 DEF t
\* The discipline is kept by pushing what fits the stack below, and popping
\* shows what the popped frame was pushed on.
LEMMA DisciplinePush ==
    ASSUME NEW f \in Frames, NEW s \in Seq(Frames)
    PROVE  Discipline(<<f>> \o s) <=> Discipline(s) /\ PushedOn(f, s)
<1> DEFINE t == <<f>> \o s
<1>1. /\ DOMAIN s \subseteq Nat /\ DOMAIN t \subseteq Nat
      /\ \A j \in DOMAIN s : j + 1 \in DOMAIN t /\ t[j + 1] = s[j] /\ j > 0
      /\ \A j \in DOMAIN t : j = 1 \/ (j - 1 \in DOMAIN s /\ t[j] = s[j - 1])
      /\ 1 \in DOMAIN t /\ t[1] = f
  <2>1. Len(s) \in Nat
    BY LenProperties
  <2> QED
    BY <2>1, Pushed
<1>2. \A i \in DOMAIN s : \A kinds, v : Nearest(t, i + 1, kinds, v) <=> Nearest(s, i, kinds, v)
  BY <1>1, NearestBelow
<1>3. \A kinds, v : Nearest(t, 1, kinds, v) <=> Nearest(s, 0, kinds, v)
  <2>1. \A kinds, v : Nearest(t, 0 + 1, kinds, v) <=> Nearest(s, 0, kinds, v)
    BY NearestBelow
  <2> QED
    BY <2>1
<1> HIDE DEF t
<1> DEFINE Fits(u, i) ==
      /\ u[i].kind \in Installing =>
           /\ Nearest(u, i, Installing, u[i].binding)
           /\ Nearest(u, i, {"hosted"}, u[i].hosted)
           /\ u[i].cache \in {u[i].binding, Unresolved}
           /\ u[i].cache = Unresolved => u[i].binding = 0
           /\ \A j \in DOMAIN u :
                j > i /\ u[j].kind \in Installing => u[j].control < u[i].control
           /\ u[i].control > 0
      /\ u[i].kind = "joined" => Nearest(u, i, {"hosted"}, u[i].control) /\ u[i].control > 0
      /\ u[i].kind = "activation" =>
           IF u[i].releases THEN Nearest(u, i, Installing, u[i].control)
           ELSE u[i].control = 0
<1>4. Discipline(t) <=> \A i \in DOMAIN t : Fits(t, i)
  BY DEF Discipline
<1>5. Discipline(s) <=> \A i \in DOMAIN s : Fits(s, i)
  BY DEF Discipline
<1>6. Fits(t, 1) <=> PushedOn(f, s)
  <2>1. (\A j \in DOMAIN t :
           j > 1 /\ t[j].kind \in Installing => t[j].control < f.control)
        <=> \A j \in DOMAIN s : s[j].kind \in Installing => s[j].control < f.control
    <3>1. ASSUME \A j \in DOMAIN t :
                   j > 1 /\ t[j].kind \in Installing => t[j].control < f.control,
                 NEW j \in DOMAIN s, s[j].kind \in Installing
          PROVE  s[j].control < f.control
      <4>1. j + 1 \in DOMAIN t /\ t[j + 1] = s[j] /\ j + 1 > 1
        BY <1>1
      <4> QED
        BY <3>1, <4>1
    <3>2. ASSUME \A j \in DOMAIN s : s[j].kind \in Installing => s[j].control < f.control,
                 NEW j \in DOMAIN t, j > 1, t[j].kind \in Installing
          PROVE  t[j].control < f.control
      BY <3>2, <1>1, SMTT(30)
    <3> QED
      BY <3>1, <3>2
  <2> QED
    BY <2>1, <1>1, <1>3 DEF PushedOn, CarrierOn
<1>7. ASSUME NEW i \in DOMAIN s
      PROVE  Fits(t, i + 1) <=> Fits(s, i)
  <2>1. t[i + 1] = s[i] /\ i \in Nat
    BY <1>1
  <2>2. ASSUME NEW c
        PROVE  (\A j \in DOMAIN t :
                  j > i + 1 /\ t[j].kind \in Installing => t[j].control < c)
               <=> \A j \in DOMAIN s :
                     j > i /\ s[j].kind \in Installing => s[j].control < c
    <3>1. ASSUME \A j \in DOMAIN t :
                   j > i + 1 /\ t[j].kind \in Installing => t[j].control < c,
                 NEW j \in DOMAIN s, j > i, s[j].kind \in Installing
          PROVE  s[j].control < c
      <4>1. j + 1 \in DOMAIN t /\ t[j + 1] = s[j] /\ j + 1 > i + 1
        BY <3>1, <1>1
      <4> QED
        BY <3>1, <4>1
    <3>2. ASSUME \A j \in DOMAIN s :
                   j > i /\ s[j].kind \in Installing => s[j].control < c,
                 NEW j \in DOMAIN t, j > i + 1, t[j].kind \in Installing
          PROVE  t[j].control < c
      <4>1. j - 1 \in DOMAIN s /\ t[j] = s[j - 1] /\ j - 1 > i
        BY <3>2, <1>1
      <4> QED
        BY <3>2, <4>1
    <3> QED
      BY <3>1, <3>2
  <2> QED
    BY <2>1, <2>2, <1>2
<1>8. (\A i \in DOMAIN t : Fits(t, i)) <=> Fits(t, 1) /\ \A i \in DOMAIN s : Fits(t, i + 1)
  <2> HIDE DEF Fits
  <2>1. ASSUME Fits(t, 1), \A i \in DOMAIN s : Fits(t, i + 1), NEW i \in DOMAIN t
        PROVE  Fits(t, i)
    <3>1. CASE i = 1
      BY <3>1, <2>1
    <3>2. CASE i # 1
      <4>1. i - 1 \in DOMAIN s /\ (i - 1) + 1 = i
        BY <3>2, <1>1
      <4> QED
        BY <2>1, <4>1
    <3> QED
      BY <3>1, <3>2
  <2> QED
    BY <2>1, <1>1
<1> HIDE DEF Fits
<1> QED
  BY <1>4, <1>5, <1>6, <1>7, <1>8 DEF t

\* On a disciplined stack an installing frame has a control.
LEMMA DisciplinedControls ==
    ASSUME NEW s \in Seq(Frames), Discipline(s), NEW kinds \in SUBSET Installing
    PROVE  \A j \in DOMAIN s : s[j].kind \in kinds => s[j].control > 0
BY DEF Discipline

\* The first frame of a kind, as the properties name it, is the nearest.
LEMMA InnermostIsNearest ==
    ASSUME Shape, Discipline(stack),
           NEW kinds \in SUBSET Installing, NEW v, Nearest(stack, 0, kinds, v)
    PROVE  LET found == {i \in DOMAIN stack : stack[i].kind \in kinds} IN
           v = IF found = {} THEN 0
               ELSE stack[CHOOSE i \in found : \A j \in found : i <= j].control
<1> DEFINE found == {i \in DOMAIN stack : stack[i].kind \in kinds}
<1>1. stack \in Seq(Frames) /\ \A i \in DOMAIN stack : i \in Nat /\ i > 0
  BY LenProperties DEF Shape
<1>2. CASE found = {}
  BY <1>1, <1>2 DEF Nearest
<1>3. CASE found # {}
  <2>1. PICK first \in DOMAIN stack :
          /\ stack[first].kind \in kinds /\ v = stack[first].control
          /\ \A m \in DOMAIN stack : 0 < m /\ m < first => stack[m].kind \notin kinds
    BY <1>1, <1>3 DEF Nearest
  <2>2. first \in found /\ \A j \in found : first <= j
    BY <1>1, <2>1
  <2>3. \A i \in found : (\A j \in found : i <= j) => i = first
    BY <1>1, <2>2
  <2>4. (CHOOSE i \in found : \A j \in found : i <= j) = first
    BY <2>2, <2>3
  <2>5. v = stack[CHOOSE i \in found : \A j \in found : i <= j].control
    BY <2>1, <2>4
  <2> HIDE DEF found
  <2> QED
    BY <1>3, <2>5 DEF found
<1> QED
  BY <1>2, <1>3

\* A nearest control is one of the stack's, or none.
LEMMA NearestIsOnStack ==
    ASSUME NEW s, NEW i, NEW kinds, NEW v, Nearest(s, i, kinds, v)
    PROVE  v = 0 \/ \E j \in DOMAIN s : s[j].kind \in kinds /\ v = s[j].control
BY DEF Nearest

-----------------------------------------------------------------------------
(* The activations that a control granted. *)

LEMMA GrantsFinite ==
    ASSUME NEW s \in Seq(Frames), NEW k
    PROVE  /\ IsFiniteSet(Grants(s, k))
           /\ Cardinality(Grants(s, k)) \in Nat
           /\ Cardinality(Grants(s, k)) <= Len(s)
<1>1. Len(s) \in Nat /\ DOMAIN s = 1..Len(s)
  BY LenProperties
<1>2. IsFiniteSet(1..Len(s)) /\ Cardinality(1..Len(s)) = Len(s)
  BY <1>1, FS_Interval, SMTT(30)
<1>3. Grants(s, k) \in SUBSET (1..Len(s))
  BY <1>1 DEF Grants
<1> QED
  BY <1>2, <1>3, FS_Subset, FS_CardinalityType

LEMMA GrantsPush ==
    ASSUME NEW f \in Frames, NEW s \in Seq(Frames), NEW k
    PROVE  Cardinality(Grants(<<f>> \o s, k)) =
             IF f.kind = "activation" /\ f.releases /\ f.control = k
             THEN Cardinality(Grants(s, k)) + 1
             ELSE Cardinality(Grants(s, k))
<1> DEFINE t == <<f>> \o s
           G == Grants(s, k)
           shifted == {j + 1 : j \in G}
<1>1. /\ DOMAIN s \subseteq Nat /\ DOMAIN t \subseteq Nat
      /\ \A j \in DOMAIN s : j + 1 \in DOMAIN t /\ t[j + 1] = s[j] /\ j > 0
      /\ \A j \in DOMAIN t : j = 1 \/ (j - 1 \in DOMAIN s /\ t[j] = s[j - 1])
      /\ 1 \in DOMAIN t /\ t[1] = f
  <2>1. Len(s) \in Nat
    BY LenProperties
  <2> QED
    BY <2>1, Pushed
<1> HIDE DEF t
<1>2. IsFiniteSet(G) /\ G \subseteq Nat /\ 1 \notin shifted
  <2>1. G \subseteq Nat /\ \A j \in G : j + 1 # 1
    BY <1>1 DEF Grants
  <2>2. IsFiniteSet(G)
    BY GrantsFinite
  <2> HIDE DEF G
  <2> QED
    BY <2>1, <2>2
<1>3. IsFiniteSet(shifted) /\ Cardinality(shifted) = Cardinality(G)
  <2> DEFINE g == [j \in G |-> j + 1]
  <2>1. g \in Bijection(G, shifted)
    BY <1>2 DEF Bijection, Injection, Surjection, IsInjective
  <2>2. ExistsBijection(G, shifted)
    BY <2>1 DEF ExistsBijection
  <2> QED
    BY <1>2, <2>2, FS_Bijection
<1>4. \A j \in Grants(t, k) : j # 1 => j \in shifted
  BY <1>1 DEF Grants
<1>5. shifted \subseteq Grants(t, k)
  BY <1>1 DEF Grants
<1>6. CASE f.kind = "activation" /\ f.releases /\ f.control = k
  <2>1. Grants(t, k) = shifted \cup {1}
    <3>1. 1 \in Grants(t, k)
      BY <1>1, <1>6 DEF Grants
    <3> QED
      BY <3>1, <1>4, <1>5
  <2>2. Cardinality(shifted \cup {1}) = Cardinality(shifted) + 1
    BY <1>2, <1>3, FS_AddElement
  <2> QED
    BY <1>3, <1>6, <2>1, <2>2 DEF t
<1>7. CASE ~(f.kind = "activation" /\ f.releases /\ f.control = k)
  <2>1. 1 \notin Grants(t, k)
    BY <1>1, <1>7 DEF Grants
  <2>2. Grants(t, k) = shifted
    BY <2>1, <1>4, <1>5
  <2> QED
    BY <1>3, <1>7, <2>2 DEF t
<1> QED
  BY <1>6, <1>7
-----------------------------------------------------------------------------
(* What the invariant says of the installed controls.                       *)

LEMMA Installed ==
    ASSUME ControlInv
    PROVE  /\ binding \in 0..Len(control) /\ binding \notin completed
           /\ hosted \in 0..Len(control) /\ hosted \notin completed
           /\ hosted # 0 => binding # 0
           /\ Carrier = binding
           /\ Len(control) \in Nat /\ Len(control) <= MaxOperations
           /\ control \in Seq(ControlRecords)
           /\ \A k \in Controls : control[k] \in ControlRecords
<1>1. /\ Len(control) \in Nat /\ Len(control) <= MaxOperations
      /\ control \in Seq(ControlRecords)
      /\ \A k \in Controls : control[k] \in ControlRecords
      /\ completed \subseteq Controls /\ 0 \notin completed
  BY LenProperties, ElementOfSeq DEF ControlInv, Shape, Controls
<1>2. /\ Nearest(stack, 0, Installing, binding) /\ Nearest(stack, 0, {"hosted"}, hosted)
      /\ cache \in {binding, Unresolved} /\ (cache = Unresolved => binding = 0)
  BY DEF ControlInv, CarrierOn
<1>3. \A j \in DOMAIN stack : stack[j].kind \in Installing =>
        /\ stack[j].control \in 1..Len(control) /\ stack[j].control \notin completed
        /\ j > 0
  <2>1. \A j \in DOMAIN stack : stack[j].control \in Nat /\ j > 0
    BY LenProperties, ElementOfSeq DEF ControlInv, Shape, Frames, OperationFrames,
       ActivationFrames
  <2> QED
    BY <2>1, <1>1 DEF ControlInv, Shape, Discipline, CompletedLeft
<1>4. binding \in 0..Len(control) /\ binding \notin completed
  BY <1>1, <1>2, <1>3 DEF Nearest
<1>5. hosted \in 0..Len(control) /\ hosted \notin completed
  BY <1>1, <1>2, <1>3 DEF Nearest, Installing
<1>6. ASSUME hosted # 0 PROVE binding # 0
  <2>1. PICK j \in DOMAIN stack : stack[j].kind = "hosted"
    BY <1>2, <1>6 DEF Nearest
  <2>2. \E i \in DOMAIN stack : stack[i].kind \in Installing /\ binding = stack[i].control
    BY <1>2, <1>3, <2>1 DEF Nearest, Installing
  <2> QED
    BY <2>2, <1>3
<1>7. Carrier = binding
  BY <1>2 DEF Carrier
<1> QED
  BY <1>1, <1>4, <1>5, <1>6, <1>7

\* A control that is charged, or ends, leaves the invariant if its depth is
\* untouched and it is not the control of an operation that returned.
LEMMA TouchedControl ==
    ASSUME ControlInv, NEW k \in Controls, NEW c \in ControlRecords,
           c.depth = control[k].depth, c.limit = control[k].limit,
           k \notin completed,
           control' = [control EXCEPT ![k] = c],
           stack' = stack, binding' = binding, hosted' = hosted,
           cache' \in {cache, binding}, completed' = completed,
           requested' \subseteq Handles, raised' \in Errors \cup {NoError}
    PROVE  ControlInv'
<1>1. /\ control' \in Seq(ControlRecords) /\ Len(control') = Len(control)
      /\ \A j \in 1..Len(control) : control'[j] = IF j = k THEN c ELSE control[j]
      /\ Controls' = Controls
  BY Installed, ExceptSeq DEF Controls
<1>2. Shape'
  BY <1>1 DEF ControlInv, Shape, Controls
<1>3. CarrierOn(stack', binding', cache', hosted') /\ Discipline(stack')
  BY DEF ControlInv, CarrierOn
<1>4. DepthExact'
  BY <1>1 DEF ControlInv, DepthExact, Controls
<1>5. CompletedLeft'
  BY DEF ControlInv, CompletedLeft
<1>6. TerminalReported'
  BY <1>1 DEF ControlInv, TerminalReported, Controls, Shape
<1> QED
  BY <1>2, <1>3, <1>4, <1>5, <1>6 DEF ControlInv

\* The same when no control is touched.
LEMMA UntouchedControl ==
    ASSUME ControlInv, control' = control,
           stack' = stack, binding' = binding, hosted' = hosted,
           cache' \in {cache, binding}, completed' = completed,
           requested' \subseteq Handles, raised' \in Errors \cup {NoError}
    PROVE  ControlInv'
<1>1. Shape'
  BY DEF ControlInv, Shape, Controls
<1>2. CarrierOn(stack', binding', cache', hosted') /\ Discipline(stack')
  BY DEF ControlInv, CarrierOn
<1>3. DepthExact' /\ CompletedLeft' /\ TerminalReported'
  BY DEF ControlInv, DepthExact, Controls, CompletedLeft, TerminalReported
<1> QED
  BY <1>1, <1>2, <1>3 DEF ControlInv

\* Latching a cause keeps everything else of a control.
LEMMA LatchedControl ==
    ASSUME NEW c \in ControlRecords, NEW cause \in Causes
    PROVE  /\ Latched(c, cause) \in ControlRecords
           /\ Latched(c, cause).depth = c.depth
           /\ Latched(c, cause).limit = c.limit
           /\ Latched(c, cause).remaining = c.remaining
           /\ Latched(c, cause).cause # NoError
           /\ c.cause # NoError => Latched(c, cause) = c
BY DEF Latched, ControlRecords, Causes, Failures, NoError

\* What an observation does: nothing to the control but raise; charge it; or
\* end it and raise.
LEMMA Observation ==
    ASSUME ControlInv, NEW k \in Controls, NEW failure \in Failures \cup {NoError},
           NEW charged, Observe(k, failure, charged)
    PROVE  \/ /\ control' = control /\ raised' \in Errors
              /\ control[k].cause # NoError \/ failure # NoError
           \/ /\ control[k].cause = NoError /\ failure = NoError
              /\ control' = [control EXCEPT ![k] = charged] /\ raised' = raised
           \/ /\ control[k].cause = NoError /\ failure \in Failures
              /\ control' = [control EXCEPT ![k] = Latched(control[k], failure)]
              /\ raised' \in Errors
BY DEF Observe, Errors, Failures, NoError

LEMMA ObservedInstalled ==
    ASSUME ControlInv, NEW k \in Controls, k \notin completed,
           NEW failure \in Failures \cup {NoError},
           NEW charged \in ControlRecords,
           charged.depth = control[k].depth, charged.limit = control[k].limit,
           Observe(k, failure, charged),
           stack' = stack, binding' = binding, hosted' = hosted,
           cache' \in {cache, binding}, completed' = completed, requested' = requested
    PROVE  ControlInv'
<1>1. control[k] \in ControlRecords /\ requested' \subseteq Handles
      /\ raised \in Errors \cup {NoError}
  BY Installed DEF ControlInv, Shape
<1>2. CASE control' = control /\ raised' \in Errors
  BY <1>1, <1>2, UntouchedControl
<1>3. CASE control' = [control EXCEPT ![k] = charged] /\ raised' = raised
  BY <1>1, <1>3, TouchedControl
<1>4. CASE /\ failure \in Failures /\ raised' \in Errors
           /\ control' = [control EXCEPT ![k] = Latched(control[k], failure)]
  <2>1. PICK c : c = Latched(control[k], failure)
    OBVIOUS
  <2>2. failure \in Causes
    BY <1>4 DEF Causes
  <2>3. c \in ControlRecords /\ c.depth = control[k].depth /\ c.limit = control[k].limit
    BY <1>1, <2>1, <2>2, LatchedControl
  <2> QED
    BY <1>1, <1>4, <2>1, <2>3, TouchedControl
<1> QED
  BY <1>2, <1>3, <1>4, Observation

\* The failures that the reductions return.
LEMMA FailureTypes ==
    ASSUME NEW k
    PROVE  /\ StepFailure(k) \in Failures \cup {NoError}
           /\ ActivationFailure(k) \in Failures \cup {NoError}
           /\ NativeFailure(k) \in Failures \cup {NoError}
BY DEF StepFailure, ActivationFailure, NativeFailure, Failures

LEMMA StepKeeps == ControlInv /\ Step => ControlInv'
<1> SUFFICES ASSUME ControlInv, Step PROVE ControlInv'
  OBVIOUS
<1>1. /\ cache' = binding /\ UNCHANGED <<binding, hosted, requested, stack, completed>>
      /\ requested' \subseteq Handles /\ raised \in Errors \cup {NoError}
  BY Installed DEF Step, ControlInv, Shape
<1>2. CASE binding = 0
  <2>1. control' = control /\ raised' = raised
    BY <1>2, Installed DEF Step
  <2> QED
    BY <1>1, <2>1, UntouchedControl
<1>3. CASE binding # 0
  <2>1. PICK k \in Controls : k = binding
    BY <1>3, Installed DEF Controls
  <2>2. PICK failure \in Failures \cup {NoError} : failure = StepFailure(k)
    BY FailureTypes
  <2>3. PICK charged : charged = Charged(k)
    OBVIOUS
  <2>4. Observe(k, failure, charged)
    BY <1>3, <2>1, <2>2, <2>3, Installed DEF Step
  <2>5. control[k] \in ControlRecords /\ k \notin completed
    BY <2>1, Installed
  <2>6. CASE control[k].remaining = 0
    <3>1. failure # NoError
      BY <2>2, <2>6 DEF StepFailure, NoError
    <3>2. PICK same \in ControlRecords : same = control[k]
      BY <2>5
    <3>3. Observe(k, failure, same)
      BY <2>4, <3>1 DEF Observe
    <3> QED
      BY <1>1, <2>5, <3>2, <3>3, ObservedInstalled
  <2>7. CASE control[k].remaining # 0
    <3>1. charged \in ControlRecords /\ charged.depth = control[k].depth
          /\ charged.limit = control[k].limit
      BY <2>3, <2>5, <2>7, ControlAssumption DEF Charged, ControlRecords
    <3> QED
      BY <1>1, <2>4, <2>5, <3>1, ObservedInstalled
  <2> QED
    BY <2>6, <2>7
<1> QED
  BY <1>2, <1>3

LEMMA NativeProgressKeeps == ControlInv /\ NativeProgress => ControlInv'
<1> SUFFICES ASSUME ControlInv, NativeProgress PROVE ControlInv'
  OBVIOUS
<1>1. /\ cache' = cache /\ UNCHANGED <<binding, hosted, requested, stack, completed>>
      /\ requested' \subseteq Handles /\ raised \in Errors \cup {NoError}
  BY DEF NativeProgress, ControlInv, Shape
<1>2. CASE binding = 0
  BY <1>1, <1>2, UntouchedControl DEF NativeProgress
<1>3. CASE binding # 0
  <2>1. PICK k \in Controls : k = binding
    BY <1>3, Installed DEF Controls
  <2>2. PICK failure \in Failures \cup {NoError} : failure = NativeFailure(k)
    BY FailureTypes
  <2>3. control[k] \in ControlRecords /\ k \notin completed
    BY <2>1, Installed
  <2>4. PICK same \in ControlRecords : same = control[k]
    BY <2>3
  <2>5. Observe(k, failure, same)
    BY <1>3, <2>1, <2>2, <2>4 DEF NativeProgress
  <2> QED
    BY <1>1, <2>3, <2>4, <2>5, ObservedInstalled
<1> QED
  BY <1>2, <1>3

\* Pushing a frame, whatever happens to the controls, keeps the shape.
LEMMA PushShape ==
    ASSUME Shape, NEW f \in Frames, Push(f), Len(stack) < MaxFrames,
           control' \in Seq(ControlRecords), Len(control) <= Len(control'),
           Len(control') <= MaxOperations, f.control <= Len(control'),
           requested' \subseteq Handles, raised' \in Errors \cup {NoError},
           completed' = completed
    PROVE  /\ Shape'
           /\ stack' = <<f>> \o stack /\ stack \in Seq(Frames)
           /\ \A j \in DOMAIN stack' :
                stack'[j] = f \/ (j - 1 \in DOMAIN stack /\ stack'[j] = stack[j - 1])
<1>1. stack \in Seq(Frames) /\ stack' = <<f>> \o stack
  BY DEF Shape, Push
<1>2. /\ stack' \in Seq(Frames) /\ Len(stack') = Len(stack) + 1 /\ Len(stack) \in Nat
      /\ \A j \in DOMAIN stack' :
           stack'[j] = f \/ (j - 1 \in DOMAIN stack /\ stack'[j] = stack[j - 1])
  <2>1. \A j \in DOMAIN stack' :
           stack'[j] = f \/ (j - 1 \in DOMAIN stack /\ stack'[j] = stack[j - 1])
    BY <1>1, Pushed
  <2> QED
    BY <1>1, <2>1, Pushed, LenProperties
<1>3. Len(stack') <= MaxFrames
  BY <1>2, ControlAssumption
<1>4. Len(control) \in Nat /\ Len(control') \in Nat
  BY LenProperties DEF Shape
<1>5. ASSUME NEW j \in DOMAIN stack'
      PROVE  stack'[j].control <= Len(control')
  <2>1. CASE stack'[j] = f
    BY <2>1
  <2>2. CASE j - 1 \in DOMAIN stack /\ stack'[j] = stack[j - 1]
    <3>1. stack[j - 1] \in Frames
      BY <1>1, <2>2, ElementOfSeq, LenProperties
    <3>2. stack[j - 1].control \in Nat
      BY <3>1 DEF Frames, OperationFrames, ActivationFrames
    <3>3. stack[j - 1].control <= Len(control)
      BY <2>2 DEF Shape
    <3> QED
      BY <2>2, <3>2, <3>3, <1>4
  <2> QED
    BY <1>2, <2>1, <2>2
<1>6. completed' \subseteq Controls'
  BY <1>4 DEF Shape, Controls
<1> QED
  BY <1>1, <1>2, <1>3, <1>5, <1>6 DEF Shape

\* Pushing a frame that no control is charged for.
LEMMA PushKeeps ==
    ASSUME ControlInv, NEW f \in Frames, Push(f), Len(stack) < MaxFrames,
           control' = control, UNCHANGED <<binding, cache, hosted, requested, raised, completed>>,
           f.kind \notin Installing, PushedOn(f, stack), f.control <= Len(control),
           f.kind = "activation" => ~f.releases \/ f.control = 0
    PROVE  ControlInv'
<1>1. /\ Shape' /\ stack \in Seq(Frames) /\ stack' = <<f>> \o stack
      /\ \A j \in DOMAIN stack' :
           stack'[j] = f \/ (j - 1 \in DOMAIN stack /\ stack'[j] = stack[j - 1])
  <2>1. Shape /\ requested' \subseteq Handles /\ raised' \in Errors \cup {NoError}
    BY DEF ControlInv, Shape
  <2> QED
    BY <2>1, PushShape, Installed
<1>2. CarrierOn(stack', binding', cache', hosted')
  <2>1. f.kind \notin {"hosted"}
    BY DEF Installing
  <2> QED
    BY <1>1, <2>1, NearestTop DEF ControlInv, CarrierOn
<1>3. Discipline(stack')
  BY <1>1, DisciplinePush DEF ControlInv
<1>4. DepthExact'
  <2>1. ASSUME NEW k \in Controls
        PROVE  Cardinality(Grants(stack', k)) = Cardinality(Grants(stack, k))
    <3>1. k # 0
      BY DEF Controls
    <3>2. ~(f.kind = "activation" /\ f.releases /\ f.control = k)
      BY <3>1
    <3> QED
      BY <1>1, <3>2, GrantsPush
  <2> QED
    BY <2>1 DEF ControlInv, DepthExact, Controls
<1>5. CompletedLeft'
  BY <1>1 DEF ControlInv, CompletedLeft
<1>6. TerminalReported'
  BY DEF ControlInv, TerminalReported
<1> QED
  BY <1>1, <1>2, <1>3, <1>4, <1>5, <1>6 DEF ControlInv

\* Entering an activation: granted, refused, or not charged to anything.
LEMMA GrantKeeps ==
    ASSUME ControlInv, NEW k \in Controls, k = binding, Granted(k),
           NEW phase \in {"attempted", "accepted"}, Len(stack) < MaxFrames,
           Observe(k, ActivationFailure(k), Entered(k)),
           Push(Activation(phase, k, TRUE)),
           UNCHANGED <<binding, cache, hosted, requested, completed>>
    PROVE  ControlInv'
<1>1. PICK f : f = Activation(phase, k, TRUE)
  OBVIOUS
<1>2. /\ f \in Frames /\ f.kind = "activation" /\ f.control = k /\ f.releases = TRUE
      /\ Push(f) /\ k \in Nat /\ k <= Len(control)
  BY <1>1, Installed DEF Activation, Frames, ActivationFrames, Controls
<1>3. PICK c : c = Entered(k)
  OBVIOUS
<1>4. /\ control' = [control EXCEPT ![k] = c] /\ raised' = raised
      /\ ~(control[k].depth >= control[k].limit) /\ control[k].remaining # 0
      /\ control[k].cause = NoError
  BY <1>3 DEF Granted, Observe, ActivationFailure, NoError
<1>5. control[k] \in ControlRecords /\ control \in Seq(ControlRecords)
  BY Installed
<1>6. /\ c \in ControlRecords /\ c.depth = control[k].depth + 1
      /\ c.limit = control[k].limit /\ c.depth <= c.limit /\ c.cause = control[k].cause
  <2>1. PICK r \in ControlRecords : r = control[k]
    BY <1>5
  <2>2. /\ r.remaining \in 0..MaxSteps /\ r.depth \in Nat /\ r.limit \in 0..MaxDepth
        /\ r.remaining # 0 /\ ~(r.depth >= r.limit)
    BY <1>4, <2>1 DEF ControlRecords
  <2>3. /\ c.remaining = r.remaining - 1 /\ c.depth = r.depth + 1
        /\ c.limit = r.limit /\ c.cause = r.cause
        /\ c = [r EXCEPT !.remaining = r.remaining - 1, !.depth = r.depth + 1]
    BY <1>3, <2>1 DEF Entered, ControlRecords
  <2>4. MaxSteps \in Nat /\ MaxDepth \in Nat
    BY ControlAssumption
  <2>5. r.remaining - 1 \in 0..MaxSteps /\ r.depth + 1 \in Nat /\ r.depth + 1 <= r.limit
    BY <2>2, <2>4, SMTT(30)
  <2>6. c \in ControlRecords
    BY <2>3, <2>5 DEF ControlRecords
  <2> QED
    BY <2>1, <2>3, <2>5, <2>6
<1>7. /\ control' \in Seq(ControlRecords) /\ Len(control') = Len(control)
      /\ \A j \in 1..Len(control) : control'[j] = IF j = k THEN c ELSE control[j]
      /\ Controls' = Controls /\ Len(control) \in Nat /\ Len(control) <= MaxOperations
  BY <1>4, <1>5, <1>6, Installed, ExceptSeq DEF Controls
<1>8. /\ Shape' /\ stack \in Seq(Frames) /\ stack' = <<f>> \o stack
      /\ \A j \in DOMAIN stack' :
           stack'[j] = f \/ (j - 1 \in DOMAIN stack /\ stack'[j] = stack[j - 1])
  <2>1. Shape /\ requested' \subseteq Handles /\ raised' \in Errors \cup {NoError}
    BY <1>4 DEF ControlInv, Shape
  <2> QED
    BY <2>1, <1>2, <1>7, PushShape
<1>9. CarrierOn(stack', binding', cache', hosted')
  <2>1. f.kind \notin {"hosted"} /\ f.kind \notin Installing
    BY <1>2 DEF Installing
  <2> QED
    BY <1>2, <1>8, <2>1, NearestTop DEF ControlInv, CarrierOn
<1>10. Discipline(stack')
  <2>1. PushedOn(f, stack)
    BY <1>2 DEF ControlInv, CarrierOn, PushedOn, Installing
  <2> QED
    BY <1>2, <1>8, <2>1, DisciplinePush DEF ControlInv
<1>11. DepthExact'
  <2>1. ASSUME NEW j \in Controls
        PROVE  Cardinality(Grants(stack', j)) =
                 IF j = k THEN Cardinality(Grants(stack, j)) + 1
                 ELSE Cardinality(Grants(stack, j))
    BY <1>2, <1>8, GrantsPush
  <2> QED
    BY <2>1, <1>6, <1>7 DEF ControlInv, DepthExact, Controls
<1>12. CompletedLeft'
  <2>1. f.kind \notin Installing
    BY <1>2 DEF Installing
  <2> QED
    BY <1>2, <1>8, <2>1 DEF ControlInv, CompletedLeft
<1>13. TerminalReported'
  BY <1>6, <1>7 DEF ControlInv, TerminalReported, Controls, Shape
<1> QED
  BY <1>8, <1>9, <1>10, <1>11, <1>12, <1>13 DEF ControlInv

LEMMA EnterKeeps ==
    ASSUME ControlInv, NEW phase \in {"attempted", "accepted"}, NEW observes \in BOOLEAN,
           EnterActivation(phase, observes),
           ~observes => hosted = 0
    PROVE  ControlInv'
<1>1. /\ UNCHANGED <<binding, cache, hosted, requested, completed>>
      /\ Len(stack) < MaxFrames
  BY DEF EnterActivation
<1>2. CASE observes /\ binding # 0
  <2>1. PICK k \in Controls : k = binding
    BY <1>2, Installed DEF Controls
  <2>2. /\ Observe(k, ActivationFailure(k), Entered(k))
        /\ IF Granted(k) THEN Push(Activation(phase, k, TRUE)) ELSE stack' = stack
    BY <1>2, <2>1 DEF EnterActivation
  <2>3. CASE Granted(k)
    BY <1>1, <2>1, <2>2, <2>3, GrantKeeps
  <2>4. CASE ~Granted(k)
    <3>1. control[k].cause # NoError \/ ActivationFailure(k) # NoError
      BY <2>4 DEF Granted, Controls
    <3>2. PICK failure \in Failures \cup {NoError} : failure = ActivationFailure(k)
      BY FailureTypes
    <3>3. PICK same \in ControlRecords : same = control[k]
      BY <2>1, Installed
    <3>4. Observe(k, failure, same)
      BY <2>2, <3>1, <3>2 DEF Observe
    <3>5. k \notin completed
      BY <2>1, Installed
    <3> QED
      BY <1>1, <2>2, <2>4, <3>3, <3>4, <3>5, ObservedInstalled
  <2> QED
    BY <2>3, <2>4
<1>3. CASE ~(observes /\ binding # 0)
  <2>1. PICK f : f = Activation(phase, 0, observes)
    OBVIOUS
  <2>2. /\ f \in Frames /\ f.kind = "activation" /\ f.control = 0
        /\ f.releases = observes /\ Push(f)
    BY <1>3, <2>1 DEF Activation, Frames, ActivationFrames, EnterActivation
  <2>3. control' = control /\ raised' = raised
    BY <1>3 DEF EnterActivation
  <2>4. PushedOn(f, stack) /\ f.kind \notin Installing
    BY <1>3, <2>2 DEF PushedOn, Installing, ControlInv, CarrierOn
  <2>5. f.control <= Len(control)
    BY <2>2, Installed
  <2> QED
    BY <1>1, <2>2, <2>3, <2>4, <2>5, PushKeeps
<1> QED
  BY <1>2, <1>3

LEMMA StartActivationKeeps == ControlInv /\ StartActivation => ControlInv'
BY EnterKeeps DEF StartActivation

LEMMA CallDirectlyKeeps == ControlInv /\ CallDirectly => ControlInv'
<1> SUFFICES ASSUME ControlInv, CallDirectly PROVE ControlInv'
  OBVIOUS
<1>1. PICK observes \in BOOLEAN : observes = (hosted # 0)
  OBVIOUS
<1>2. EnterActivation("accepted", observes)
  BY <1>1 DEF CallDirectly
<1> QED
  BY <1>1, <1>2, EnterKeeps

-----------------------------------------------------------------------------
(* Popping a frame. *)

LEMMA TopPushed ==
    ASSUME ControlInv, stack # <<>>
    PROVE  /\ Top \in Frames /\ Tail(stack) \in Seq(Frames)
           /\ stack = <<Top>> \o Tail(stack)
           /\ Discipline(Tail(stack)) /\ PushedOn(Top, Tail(stack))
           /\ Top.control \in 0..Len(control)
           /\ Top.kind \in Installing => Top.control \notin completed
           /\ Len(Tail(stack)) <= MaxFrames
           /\ \A j \in DOMAIN Tail(stack) :
                /\ Tail(stack)[j].control <= Len(control)
                /\ Tail(stack)[j].kind \in Installing => Tail(stack)[j].control \notin completed
           /\ \A k : Cardinality(Grants(stack, k)) =
                IF Top.kind = "activation" /\ Top.releases /\ Top.control = k
                THEN Cardinality(Grants(Tail(stack), k)) + 1
                ELSE Cardinality(Grants(Tail(stack), k))
<1>1. /\ Top \in Frames /\ Tail(stack) \in Seq(Frames)
      /\ stack = <<Top>> \o Tail(stack) /\ Len(stack) = Len(Tail(stack)) + 1
  BY Popped DEF ControlInv, Shape, Top
<1>2. PICK f, s : f = Top /\ s = Tail(stack)
  OBVIOUS
<1>3. /\ f \in Frames /\ s \in Seq(Frames) /\ stack = <<f>> \o s
      /\ Len(stack) = Len(s) + 1 /\ Len(s) \in Nat
  BY <1>1, <1>2, LenProperties
<1>4. Discipline(s) /\ PushedOn(f, s)
  BY <1>3, DisciplinePush DEF ControlInv
<1>5. /\ 1 \in DOMAIN stack /\ stack[1] = f
      /\ \A j \in DOMAIN s : j + 1 \in DOMAIN stack /\ stack[j + 1] = s[j]
  BY <1>3, Pushed
<1>6. f.control \in Nat
  BY <1>3 DEF Frames, OperationFrames, ActivationFrames
<1>7. f.control \in 0..Len(control)
  BY <1>5, <1>6, Installed DEF ControlInv, Shape
<1>8. f.kind \in Installing => f.control \notin completed
  BY <1>5 DEF ControlInv, CompletedLeft
<1>9. ASSUME NEW j \in DOMAIN s
      PROVE  /\ s[j].control <= Len(control)
             /\ s[j].kind \in Installing => s[j].control \notin completed
  BY <1>5 DEF ControlInv, Shape, CompletedLeft
<1>10. ASSUME NEW k
       PROVE  Cardinality(Grants(stack, k)) =
                IF f.kind = "activation" /\ f.releases /\ f.control = k
                THEN Cardinality(Grants(s, k)) + 1
                ELSE Cardinality(Grants(s, k))
  BY <1>3, GrantsPush
<1>11. Len(s) <= MaxFrames
  BY <1>3, ControlAssumption DEF ControlInv, Shape
<1> QED
  BY <1>1, <1>2, <1>4, <1>7, <1>8, <1>9, <1>10, <1>11

\* Popping a frame that installed nothing: the carrier stays what it was.
LEMMA PopCarrier ==
    ASSUME ControlInv, stack # <<>>, Top.kind \notin Installing
    PROVE  CarrierOn(Tail(stack), binding, cache, hosted)
<1>1. PICK f, s : f = Top /\ s = Tail(stack)
  OBVIOUS
<1>2. /\ f \in Frames /\ s \in Seq(Frames) /\ stack = <<f>> \o s
      /\ f.kind \notin Installing /\ f.kind \notin {"hosted"}
  BY <1>1, TopPushed DEF Installing
<1>3. \A kinds, v : f.kind \notin kinds =>
        (Nearest(stack, 0, kinds, v) <=> Nearest(s, 0, kinds, v))
  BY <1>2, NearestTop
<1> QED
  BY <1>1, <1>2, <1>3 DEF ControlInv, CarrierOn

\* An activation is released to the control that granted it.
LEMMA ReleasedToOwner ==
    ASSUME ControlInv, stack # <<>>, Top.kind = "activation", Top.releases
    PROVE  Top.control = binding
<1>1. PICK s : s = Tail(stack)
  OBVIOUS
<1>2. s \in Seq(Frames) /\ Discipline(s) /\ Nearest(s, 0, Installing, Top.control)
  BY <1>1, TopPushed DEF PushedOn
<1>3. Nearest(s, 0, Installing, binding)
  BY <1>1, PopCarrier DEF CarrierOn, Installing
<1>4. \A j \in DOMAIN s : s[j].kind \in Installing => s[j].control > 0
  BY <1>2, DisciplinedControls
<1> QED
  BY <1>2, <1>3, <1>4, NearestUnique

LEMMA LeaveKeeps ==
    ASSUME ControlInv, stack # <<>>, Top.kind = "activation", LeaveActivation,
           raised' = raised
    PROVE  ControlInv'
<1>1. /\ stack' = Tail(stack) /\ UNCHANGED <<binding, cache, hosted, requested, completed>>
  BY DEF LeaveActivation
<1>2. /\ stack' \in Seq(Frames) /\ Discipline(stack') /\ Len(stack') <= MaxFrames
      /\ \A j \in DOMAIN stack' :
           /\ stack'[j].control <= Len(control)
           /\ stack'[j].kind \in Installing => stack'[j].control \notin completed
      /\ \A k : Cardinality(Grants(stack, k)) =
                  IF Top.releases /\ Top.control = k
                  THEN Cardinality(Grants(stack', k)) + 1
                  ELSE Cardinality(Grants(stack', k))
      /\ \A k : Cardinality(Grants(stack', k)) \in Nat
  BY <1>1, TopPushed, GrantsFinite
<1>3. CarrierOn(stack', binding', cache', hosted')
  <2>1. Top.kind \notin Installing
    BY DEF Installing
  <2> QED
    BY <1>1, <2>1, PopCarrier
<1>4. /\ control' \in Seq(ControlRecords) /\ Len(control') = Len(control)
      /\ \A k \in 1..Len(control) :
           /\ control'[k].depth = Cardinality(Grants(stack', k))
           /\ control'[k].limit = control[k].limit /\ control'[k].cause = control[k].cause
           /\ control'[k].depth <= control[k].depth
           /\ control[k].depth <= control[k].limit
  <2>1. /\ control \in Seq(ControlRecords) /\ Len(control) \in Nat
        /\ \A k \in 1..Len(control) :
             /\ control[k] \in ControlRecords
             /\ control[k].depth = Cardinality(Grants(stack, k))
             /\ control[k].depth <= control[k].limit
    BY Installed DEF ControlInv, DepthExact, Controls
  <2>2. CASE Top.releases /\ binding # 0
    <3>1. PICK k \in 1..Len(control) : k = binding /\ Top.control = k
      BY <2>2, ReleasedToOwner, Installed
    <3>2. control[k].depth = Cardinality(Grants(stack', k)) + 1 /\ control[k].depth # 0
      BY <1>2, <2>1, <2>2, <3>1
    <3>3. PICK r \in ControlRecords : r = control[k]
      BY <2>1
    <3>4. r.depth \in Nat /\ r.depth - 1 \in Nat
      BY <1>2, <3>2, <3>3 DEF ControlRecords
    <3>5. PICK c : c = [r EXCEPT !.depth = r.depth - 1]
      OBVIOUS
    <3>6. /\ c \in ControlRecords /\ c.depth = r.depth - 1
          /\ c.limit = r.limit /\ c.cause = r.cause
      BY <3>4, <3>5 DEF ControlRecords
    <3>7. control' = [control EXCEPT ![k] = c]
      BY <2>1, <2>2, <3>1, <3>2, <3>3, <3>5 DEF LeaveActivation, Released
    <3>8. /\ control' \in Seq(ControlRecords) /\ Len(control') = Len(control)
          /\ \A j \in 1..Len(control) : control'[j] = IF j = k THEN c ELSE control[j]
      BY <2>1, <3>6, <3>7, ExceptSeq
    <3> QED
      BY <1>2, <2>1, <2>2, <3>1, <3>2, <3>3, <3>4, <3>6, <3>8, SMTT(30)
  <2>3. CASE ~(Top.releases /\ binding # 0)
    <3>1. control' = control
      BY <2>3 DEF LeaveActivation, Released
    <3>2. \A k \in 1..Len(control) : ~(Top.releases /\ Top.control = k)
      BY <2>3, ReleasedToOwner
    <3>3. \A k \in 1..Len(control) : control[k].depth \in Nat
      BY <2>1 DEF ControlRecords
    <3> QED
      BY <1>2, <2>1, <3>1, <3>2, <3>3
  <2> QED
    BY <2>2, <2>3
<1>5. Shape'
  BY <1>1, <1>2, <1>4 DEF ControlInv, Shape, Controls
<1>6. DepthExact'
  <2>1. ASSUME NEW k \in 1..Len(control)
        PROVE  control'[k].depth <= control'[k].limit
    <3>1. control[k] \in ControlRecords /\ control'[k] \in ControlRecords
      BY <1>4, Installed, ElementOfSeq DEF Controls
    <3>2. /\ control[k].depth \in Nat /\ control'[k].depth \in Nat
          /\ control[k].limit \in Nat
      BY <3>1, ControlAssumption, SMTT(30) DEF ControlRecords
    <3> QED
      BY <1>4, <3>2
  <2> QED
    BY <1>4, <2>1 DEF DepthExact, Controls
<1>7. CompletedLeft'
  BY <1>1, <1>2 DEF CompletedLeft
<1>8. TerminalReported'
  BY <1>1, <1>4 DEF ControlInv, TerminalReported, Shape, Controls
<1> QED
  BY <1>2, <1>3, <1>5, <1>6, <1>7, <1>8 DEF ControlInv

LEMMA ReturnKeeps == ControlInv /\ Return => ControlInv'
BY LeaveKeeps DEF Return

LEMMA UnwindActivationKeeps == ControlInv /\ UnwindActivation => ControlInv'
BY LeaveKeeps DEF UnwindActivation, Unwinding

\* The arguments of an activation are ready: nothing but its phase changes.
LEMMA AcceptKeeps == ControlInv /\ AcceptActivation => ControlInv'
<1> SUFFICES ASSUME ControlInv, AcceptActivation PROVE ControlInv'
  OBVIOUS
<1>1. /\ stack # <<>> /\ Top.kind = "activation"
      /\ UNCHANGED <<control, binding, cache, hosted, requested, raised, completed>>
  BY DEF AcceptActivation
<1>2. PICK f, s, g : f = Top /\ s = Tail(stack) /\ g = [f EXCEPT !.phase = "accepted"]
  OBVIOUS
<1>3. /\ f \in Frames /\ s \in Seq(Frames) /\ stack = <<f>> \o s /\ f.kind = "activation"
      /\ stack' = <<g>> \o s
  BY <1>1, <1>2, TopPushed DEF AcceptActivation
<1>4. /\ g \in Frames /\ g.kind = "activation" /\ g.control = f.control
      /\ g.releases = f.releases
  BY <1>2, <1>3 DEF Frames, OperationFrames, ActivationFrames
<1>5. /\ Discipline(s) /\ PushedOn(f, s) /\ f.control \in 0..Len(control)
      /\ \A j \in DOMAIN s :
           /\ s[j].control <= Len(control)
           /\ s[j].kind \in Installing => s[j].control \notin completed
      /\ CarrierOn(s, binding, cache, hosted)
  <2>1. Top.kind \notin Installing
    BY <1>1 DEF Installing
  <2> QED
    BY <1>1, <1>2, <2>1, TopPushed, PopCarrier
<1>6. PushedOn(g, s)
  BY <1>3, <1>4, <1>5 DEF PushedOn, Installing
<1>7. /\ stack' \in Seq(Frames) /\ Len(stack') = Len(stack)
      /\ \A j \in DOMAIN stack' : stack'[j] = g \/ (j - 1 \in DOMAIN s /\ stack'[j] = s[j - 1])
  <2>1. \A j \in DOMAIN stack' : stack'[j] = g \/ (j - 1 \in DOMAIN s /\ stack'[j] = s[j - 1])
    BY <1>3, <1>4, Pushed
  <2> QED
    BY <1>3, <1>4, <2>1, Pushed
<1>8. Shape'
  <2>1. g.control <= Len(control)
    BY <1>4, <1>5, Installed
  <2>2. \A j \in DOMAIN stack' : stack'[j].control <= Len(control)
    BY <1>5, <1>7, <2>1
  <2> QED
    BY <1>1, <1>7, <2>2 DEF ControlInv, Shape, Controls
<1>9. CarrierOn(stack', binding', cache', hosted')
  <2>1. g.kind \notin Installing /\ g.kind \notin {"hosted"}
    BY <1>4 DEF Installing
  <2> QED
    BY <1>1, <1>3, <1>4, <1>5, <2>1, NearestTop DEF CarrierOn
<1>10. Discipline(stack')
  BY <1>3, <1>4, <1>5, <1>6, DisciplinePush
<1>11. DepthExact'
  <2>1. \A k : Cardinality(Grants(stack', k)) = Cardinality(Grants(stack, k))
    BY <1>3, <1>4, GrantsPush
  <2> QED
    BY <1>1, <2>1 DEF ControlInv, DepthExact, Controls
<1>12. CompletedLeft'
  <2>1. g.kind \notin Installing
    BY <1>4 DEF Installing
  <2> QED
    BY <1>1, <1>5, <1>7, <2>1 DEF CompletedLeft
<1>13. TerminalReported'
  BY <1>1 DEF ControlInv, TerminalReported
<1> QED
  BY <1>8, <1>9, <1>10, <1>11, <1>12, <1>13 DEF ControlInv

-----------------------------------------------------------------------------
(* Operations. *)

LEMMA BeginPlainKeeps == ControlInv /\ BeginPlain => ControlInv'
<1> SUFFICES ASSUME ControlInv, BeginPlain PROVE ControlInv'
  OBVIOUS
<1>1. binding \in Nat /\ cache \in Nat /\ hosted \in Nat
  BY Installed, ControlAssumption DEF ControlInv, CarrierOn, Unresolved
<1>2. PICK f : f = Operation("plain", 0)
  OBVIOUS
<1>3. /\ f \in Frames /\ f.kind = "plain" /\ f.control = 0 /\ Push(f)
  BY <1>1, <1>2 DEF Operation, Frames, OperationFrames, BeginPlain
<1>4. /\ f.kind \notin Installing /\ f.kind # "activation" /\ PushedOn(f, stack)
      /\ f.control <= Len(control)
  BY <1>3, Installed DEF Installing, PushedOn
<1> QED
  BY <1>3, <1>4, PushKeeps DEF BeginPlain

\* An operation that installs a control of its own.
LEMMA InstallKeeps ==
    ASSUME ControlInv, Len(control) < MaxOperations, Len(stack) < MaxFrames,
           NEW kind \in Installing, Push(Operation(kind, Len(control) + 1)),
           NEW c \in ControlRecords, c.depth = 0, control' = Append(control, c),
           binding' = Len(control) + 1, cache' = Len(control) + 1,
           hosted' = IF kind = "hosted" THEN Len(control) + 1 ELSE hosted,
           UNCHANGED <<requested, completed>>, raised' \in Errors \cup {NoError}
    PROVE  ControlInv'
<1>1. PICK k : k = Len(control) + 1
  OBVIOUS
<1>2. /\ k \in Nat /\ k > 0 /\ k # Unresolved
      /\ control \in Seq(ControlRecords) /\ Len(control) \in Nat
      /\ binding \in Nat /\ cache \in Nat /\ hosted \in Nat /\ MaxOperations \in Nat
  BY <1>1, Installed, ControlAssumption DEF ControlInv, CarrierOn, Unresolved
<1>3. PICK f : f = Operation(kind, k)
  OBVIOUS
<1>4. /\ f \in Frames /\ f.kind = kind /\ f.control = k /\ Push(f)
      /\ f.binding = binding /\ f.cache = cache /\ f.hosted = hosted
      /\ f.kind \in Installing /\ f.kind # "activation" /\ f.kind # "joined"
  BY <1>1, <1>2, <1>3 DEF Operation, Frames, OperationFrames, Installing
<1>5. /\ control' \in Seq(ControlRecords) /\ Len(control') = k
      /\ \A j \in 1..Len(control) : control'[j] = control[j]
      /\ control'[k] = c
  BY <1>1, <1>2, AppendProperties
<1>6. /\ Shape' /\ stack \in Seq(Frames) /\ stack' = <<f>> \o stack
      /\ \A j \in DOMAIN stack' :
           stack'[j] = f \/ (j - 1 \in DOMAIN stack /\ stack'[j] = stack[j - 1])
  <2>1. Shape /\ requested' \subseteq Handles /\ raised' \in Errors \cup {NoError}
    BY DEF ControlInv, Shape
  <2>2. Len(control) <= Len(control') /\ Len(control') <= MaxOperations
        /\ f.control <= Len(control')
    BY <1>1, <1>2, <1>4, <1>5
  <2> QED
    BY <2>1, <2>2, <1>4, <1>5, PushShape
<1>7. \A j \in DOMAIN stack : stack[j].control \in 0..Len(control)
  <2>1. ASSUME NEW j \in DOMAIN stack PROVE stack[j].control \in Nat
    <3>1. stack[j] \in Frames
      BY <1>6, ElementOfSeq, LenProperties
    <3> QED
      BY <3>1 DEF Frames, OperationFrames, ActivationFrames
  <2> QED
    BY <2>1, <1>2 DEF ControlInv, Shape
<1>8. CarrierOn(stack', binding', cache', hosted')
  <2>1. Nearest(stack', 0, Installing, binding')
    BY <1>1, <1>4, <1>6, NearestTop
  <2>2. Nearest(stack', 0, {"hosted"}, hosted')
    <3>1. CASE kind = "hosted"
      <4>1. f.kind \in {"hosted"} /\ hosted' = f.control
        BY <1>1, <1>4, <3>1
      <4> QED
        BY <1>4, <1>6, <4>1, NearestTop
    <3>2. CASE kind # "hosted"
      <4>1. f.kind \notin {"hosted"} /\ hosted' = hosted
        BY <1>4, <3>2
      <4> QED
        BY <1>4, <1>6, <4>1, NearestTop DEF ControlInv, CarrierOn
    <3> QED
      BY <3>1, <3>2
  <2> QED
    BY <1>1, <1>2, <2>1, <2>2 DEF CarrierOn
<1>9. Discipline(stack')
  <2>1. CarrierOn(stack, f.binding, f.cache, f.hosted)
    BY <1>4 DEF ControlInv
  <2>2. \A j \in DOMAIN stack : stack[j].control < f.control
    BY <1>1, <1>2, <1>4, <1>7
  <2>3. PushedOn(f, stack)
    BY <1>2, <1>4, <2>1, <2>2 DEF PushedOn
  <2> QED
    BY <1>4, <1>6, <2>3, DisciplinePush DEF ControlInv
<1>10. DepthExact'
  <2>1. \A j : Cardinality(Grants(stack', j)) = Cardinality(Grants(stack, j))
    BY <1>4, <1>6, GrantsPush
  <2>2. Cardinality(Grants(stack, k)) = 0
    <3>1. Grants(stack, k) = {}
      BY <1>1, <1>2, <1>7 DEF Grants
    <3> QED
      BY <3>1, FS_EmptySet
  <2>3. c.depth <= c.limit
    BY ControlAssumption DEF ControlRecords
  <2>4. ASSUME NEW j \in 1..k
        PROVE  /\ control'[j].depth = Cardinality(Grants(stack', j))
               /\ control'[j].depth <= control'[j].limit
    <3>1. CASE j = k
      BY <1>5, <2>1, <2>2, <2>3, <3>1
    <3>2. CASE j # k
      <4>1. j \in 1..Len(control)
        BY <1>1, <1>2, <3>2
      <4> QED
        BY <1>5, <2>1, <4>1 DEF ControlInv, DepthExact, Controls
    <3> QED
      BY <3>1, <3>2
  <2> QED
    BY <1>5, <2>4 DEF DepthExact, Controls
<1>11. k \notin completed /\ \A j \in completed : j \in 1..Len(control)
  BY <1>1, <1>2 DEF ControlInv, Shape, Controls
<1>12. CompletedLeft'
  BY <1>4, <1>6, <1>11 DEF ControlInv, CompletedLeft
<1>13. TerminalReported'
  BY <1>5, <1>11 DEF ControlInv, TerminalReported
<1> QED
  BY <1>6, <1>8, <1>9, <1>10, <1>12, <1>13 DEF ControlInv

\* A new control is one, and has granted nothing.
LEMMA NewControlType ==
    ASSUME NEW steps \in 0..MaxSteps, NEW depth \in 0..MaxDepth,
           NEW handle \in Handles, NEW strict \in BOOLEAN
    PROVE  /\ NewControl(steps, depth, handle, strict) \in ControlRecords
           /\ NewControl(steps, depth, handle, strict).depth = 0
BY DEF NewControl, ControlRecords

LEMMA BeginBoundedKeeps ==
    ASSUME ControlInv, NEW steps \in 0..MaxSteps, NEW depth \in 0..MaxDepth,
           NEW handle \in Handles, BeginBounded(steps, depth, handle)
    PROVE  ControlInv'
<1>1. PICK c : c = NewControl(steps, depth, handle, FALSE)
  OBVIOUS
<1>2. c \in ControlRecords /\ c.depth = 0 /\ control' = Append(control, c)
  BY <1>1, NewControlType DEF BeginBounded
<1>3. Len(control) < MaxOperations
  BY Installed, ControlAssumption DEF BeginBounded
<1>4. raised' \in Errors \cup {NoError}
  BY DEF BeginBounded, ControlInv, Shape
<1>5. "bounded" \in Installing /\ "bounded" # "hosted"
  BY DEF Installing
<1> QED
  BY <1>2, <1>3, <1>4, <1>5, InstallKeeps DEF BeginBounded

LEMMA BeginHostedKeeps ==
    ASSUME ControlInv, NEW steps \in 0..MaxSteps, NEW depth \in 0..MaxDepth,
           NEW handle \in Handles, BeginHosted(steps, depth, handle)
    PROVE  ControlInv'
<1>1. PICK n \in ControlRecords :
        n = NewControl(steps, depth, handle, TRUE) /\ n.depth = 0
  BY NewControlType
<1>2. "interrupted" \in Causes /\ "terminal" \in Errors
  BY DEF Causes, Errors, Failures
<1>3. PICK c \in ControlRecords :
        c.depth = 0 /\ control' = Append(control, c) /\ raised' \in Errors \cup {NoError}
  <2>1. CASE handle \in requested
    <3>1. /\ Latched(n, "interrupted") \in ControlRecords
          /\ Latched(n, "interrupted").depth = 0
      BY <1>1, <1>2, LatchedControl
    <3> QED
      BY <1>1, <1>2, <2>1, <3>1 DEF BeginHosted
  <2>2. CASE handle \notin requested
    BY <1>1, <2>2 DEF BeginHosted, ControlInv, Shape
  <2> QED
    BY <2>1, <2>2
<1>4. Len(control) < MaxOperations
  BY Installed, ControlAssumption DEF BeginHosted
<1>5. "hosted" \in Installing
  BY DEF Installing
<1> QED
  BY <1>3, <1>4, <1>5, InstallKeeps DEF BeginHosted

\* The control of the hosted operation in progress ends.
LEMMA RaiseTerminalKeeps ==
    ASSUME ControlInv, hosted # 0, NEW cause \in Causes, RaiseTerminal(cause),
           UNCHANGED <<binding, cache, hosted, requested, stack, completed>>
    PROVE  ControlInv'
<1>1. PICK k \in Controls : k = hosted
  BY Installed DEF Controls
<1>2. control[k] \in ControlRecords /\ k \notin completed
  BY <1>1, Installed
<1>3. PICK c : c = Latched(control[k], cause)
  OBVIOUS
<1>4. /\ c \in ControlRecords /\ c.depth = control[k].depth /\ c.limit = control[k].limit
  BY <1>2, <1>3, LatchedControl
<1>5. /\ control' = [control EXCEPT ![k] = c] /\ raised' \in Errors
      /\ requested' \subseteq Handles
  BY <1>1, <1>3 DEF RaiseTerminal, Errors, ControlInv, Shape
<1> QED
  BY <1>2, <1>4, <1>5, TouchedControl

LEMMA HostFailsKeeps == ControlInv /\ HostFails => ControlInv'
BY RaiseTerminalKeeps DEF HostFails, Causes

LEMMA JoinHostedKeeps == ControlInv /\ JoinHosted => ControlInv'
<1> SUFFICES ASSUME ControlInv, JoinHosted PROVE ControlInv'
  OBVIOUS
<1>1. CASE HostedEnded
  BY <1>1, RaiseTerminalKeeps DEF JoinHosted, Causes, Failures
<1>2. CASE ~HostedEnded
  <2>1. binding \in Nat /\ cache \in Nat /\ hosted \in 0..Len(control)
    BY Installed, ControlAssumption DEF ControlInv, CarrierOn, Unresolved
  <2>2. PICK f : f = Operation("joined", hosted)
    OBVIOUS
  <2>3. /\ f \in Frames /\ f.kind = "joined" /\ f.control = hosted /\ Push(f) /\ hosted # 0
    BY <1>2, <2>1, <2>2 DEF Operation, Frames, OperationFrames, JoinHosted
  <2>4. /\ f.kind \notin Installing /\ f.kind # "activation" /\ PushedOn(f, stack)
        /\ f.control <= Len(control)
    BY <2>1, <2>3, Installed DEF Installing, PushedOn, ControlInv, CarrierOn
  <2> QED
    BY <1>2, <2>3, <2>4, PushKeeps DEF JoinHosted
<1> QED
  BY <1>1, <1>2

\* An operation that ends gives the outer one its carrier back.
LEMMA RestoreKeeps ==
    ASSUME ControlInv, stack # <<>>, Top.kind # "activation", Restore,
           control' = control, raised' \in Errors \cup {NoError},
           \/ completed' = completed
           \/ /\ Top.kind = "hosted" /\ completed' = completed \cup {Top.control}
              /\ control[Top.control].cause = NoError
    PROVE  ControlInv'
<1>1. PICK f, s : f = Top /\ s = Tail(stack)
  OBVIOUS
<1>2. /\ f \in Frames /\ s \in Seq(Frames) /\ stack = <<f>> \o s /\ stack' = s
      /\ Discipline(s) /\ PushedOn(f, s) /\ f.kind # "activation"
      /\ f.control \in 0..Len(control) /\ Len(s) <= MaxFrames
      /\ \A j \in DOMAIN s :
           /\ s[j].control <= Len(control)
           /\ s[j].kind \in Installing => s[j].control \notin completed
      /\ \A k : Cardinality(Grants(stack, k)) = Cardinality(Grants(s, k))
      /\ requested' = requested
  BY <1>1, TopPushed DEF Restore
<1>3. CarrierOn(stack', binding', cache', hosted')
  <2>1. CASE f.kind \in Installing
    <3>1. binding' = f.binding /\ cache' = f.cache /\ hosted' = f.hosted
      BY <1>1, <2>1 DEF Restore, Installing
    <3> QED
      BY <1>2, <2>1, <3>1 DEF PushedOn
  <2>2. CASE f.kind \notin Installing
    <3>1. f.kind \in {"plain", "joined"}
      BY <1>2, <2>2 DEF Frames, OperationFrames, ActivationFrames, Installing
    <3>2. binding' = binding /\ cache' = cache /\ hosted' = hosted
      BY <1>1, <3>1 DEF Restore
    <3> QED
      BY <1>1, <1>2, <2>2, <3>2, PopCarrier
  <2> QED
    BY <2>1, <2>2
<1>4. completed' \subseteq Controls
  <2>1. CASE completed' = completed
    BY <2>1 DEF ControlInv, Shape
  <2>2. CASE f.kind = "hosted" /\ completed' = completed \cup {f.control}
    <3>1. f.control > 0
      BY <1>2, <2>2 DEF PushedOn, Installing
    <3>2. f.control \in Controls /\ completed \subseteq Controls /\ Controls' = Controls
      BY <1>2, <3>1, Installed DEF ControlInv, Shape, Controls
    <3> QED
      BY <2>2, <3>2
  <2> QED
    BY <1>1, <2>1, <2>2
<1>5. Shape'
  BY <1>2, <1>4 DEF ControlInv, Shape, Controls
<1>6. DepthExact'
  BY <1>2 DEF ControlInv, DepthExact, Controls
<1>7. CompletedLeft'
  <2>1. CASE completed' = completed
    BY <1>2, <2>1 DEF CompletedLeft
  <2>2. CASE f.kind = "hosted" /\ completed' = completed \cup {f.control}
    <3>1. ASSUME NEW j \in DOMAIN s, s[j].kind \in Installing
          PROVE  s[j].control # f.control
      <4>1. s[j].control < f.control /\ f.control \in Nat
        BY <1>2, <2>2, <3>1 DEF PushedOn, Installing
      <4>2. s[j] \in Frames
        BY <1>2, <3>1, ElementOfSeq, LenProperties
      <4>3. s[j].control \in Nat
        BY <4>2 DEF Frames, OperationFrames, ActivationFrames
      <4> QED
        BY <4>1, <4>3
    <3> QED
      BY <1>2, <2>2, <3>1 DEF CompletedLeft
  <2> QED
    BY <1>1, <2>1, <2>2
<1>8. TerminalReported'
  BY DEF ControlInv, TerminalReported
<1> QED
  BY <1>2, <1>3, <1>5, <1>6, <1>7, <1>8 DEF ControlInv

\* The hosted control is that of the operation, when a hosted operation is on
\* top, and there is one, when a joined operation is.
LEMMA HostedOnTop ==
    ASSUME ControlInv, stack # <<>>
    PROVE  /\ Top.kind = "hosted" => hosted = Top.control
           /\ Top.kind \in {"hosted", "joined"} => hosted # 0
<1>1. PICK f, s : f = Top /\ s = Tail(stack)
  OBVIOUS
<1>2. /\ f \in Frames /\ s \in Seq(Frames) /\ stack = <<f>> \o s
      /\ Discipline(s) /\ PushedOn(f, s)
      /\ Nearest(stack, 0, {"hosted"}, hosted)
  BY <1>1, TopPushed DEF ControlInv, CarrierOn
<1>3. CASE f.kind = "hosted"
  <2>1. f.kind \in {"hosted"} /\ f.kind \in Installing
    BY <1>3 DEF Installing
  <2>2. hosted = f.control /\ f.control > 0
    BY <1>2, <2>1, NearestTop DEF PushedOn
  <2> QED
    BY <1>1, <1>3, <2>2, Installed
<1>4. CASE f.kind = "joined"
  <2>1. f.kind \notin {"hosted"}
    BY <1>4
  <2>2. Nearest(s, 0, {"hosted"}, hosted)
    BY <1>2, <2>1, NearestTop
  <2>3. Nearest(s, 0, {"hosted"}, f.control) /\ f.control > 0
    BY <1>2, <1>4 DEF PushedOn
  <2>4. \A j \in DOMAIN s : s[j].kind \in {"hosted"} => s[j].control > 0
    BY <1>2, DisciplinedControls DEF Installing
  <2>5. hosted = f.control
    BY <1>2, <2>2, <2>3, <2>4, NearestUnique
  <2> QED
    BY <1>1, <1>4, <2>3, <2>5, Installed
<1> QED
  BY <1>1, <1>3, <1>4

LEMMA EndOperationKeeps == ControlInv /\ EndOperation => ControlInv'
<1> SUFFICES ASSUME ControlInv, EndOperation PROVE ControlInv'
  OBVIOUS
<1>1. stack # <<>> /\ Top.kind # "activation"
  BY DEF EndOperation
<1>2. CASE Top.kind \in {"hosted", "joined"} /\ HostedEnded
  <2>1. hosted # 0
    BY <1>1, <1>2, HostedOnTop
  <2> QED
    BY <1>2, <2>1, RaiseTerminalKeeps DEF EndOperation, Causes, Failures
<1>3. CASE ~(Top.kind \in {"hosted", "joined"} /\ HostedEnded)
  <2>1. /\ Restore /\ control' = control /\ raised' \in Errors \cup {NoError}
        /\ completed' = completed \cup (IF Top.kind = "hosted" THEN {Top.control} ELSE {})
    BY <1>3 DEF EndOperation, ControlInv, Shape
  <2>2. CASE Top.kind = "hosted"
    <3>1. control[Top.control].cause = NoError
      BY <1>1, <1>3, <2>2, HostedOnTop DEF HostedEnded
    <3>2. completed' = completed \cup {Top.control}
      BY <2>1, <2>2
    <3> QED
      BY <1>1, <2>1, <2>2, <3>1, <3>2, RestoreKeeps
  <2>3. CASE Top.kind # "hosted"
    <3>1. completed' = completed
      BY <2>1, <2>3
    <3> QED
      BY <1>1, <2>1, <3>1, RestoreKeeps
  <2> QED
    BY <2>2, <2>3
<1> QED
  BY <1>2, <1>3

LEMMA UnwindOperationKeeps == ControlInv /\ UnwindOperation => ControlInv'
<1> SUFFICES ASSUME ControlInv, UnwindOperation PROVE ControlInv'
  OBVIOUS
<1>1. raised' \in Errors \cup {NoError}
  BY DEF UnwindOperation, ControlInv, Shape
<1> QED
  BY <1>1, RestoreKeeps DEF UnwindOperation, Unwinding

\* What raises or catches an error, or requests an interruption, touches
\* nothing that the invariant relates.
LEMMA ErrorsKeep ==
    ASSUME ControlInv,
           Throw \/ Caught \/ \E handle \in Handles : RequestInterruption(handle)
    PROVE  ControlInv'
<1>1. /\ control' = control /\ stack' = stack /\ binding' = binding /\ hosted' = hosted
      /\ cache' = cache /\ completed' = completed
  BY DEF Throw, Caught, RequestInterruption
<1>2. requested' \subseteq Handles /\ raised' \in Errors \cup {NoError}
  BY DEF Throw, Caught, RequestInterruption, ControlInv, Shape, Errors
<1> QED
  BY <1>1, <1>2, UntouchedControl

LEMMA ControlInit == Init => ControlInv
<1> SUFFICES ASSUME Init PROVE ControlInv
  OBVIOUS
<1>1. /\ control = <<>> /\ binding = 0 /\ cache = Unresolved /\ hosted = 0
      /\ requested = {} /\ stack = <<>> /\ raised = NoError /\ completed = {}
      /\ DOMAIN stack = {} /\ Len(control) = 0 /\ Len(stack) = 0 /\ Controls = {}
  BY DEF Init, Controls
<1>2. Shape
  BY <1>1, EmptySeq, ControlAssumption DEF Shape
<1>3. CarrierOn(stack, binding, cache, hosted) /\ Discipline(stack)
  BY <1>1 DEF CarrierOn, Nearest, Discipline
<1> QED
  BY <1>1, <1>2, <1>3 DEF ControlInv, DepthExact, CompletedLeft, TerminalReported

(* The inductive invariant of the controls: what lies on the stack can be   *)
(* restored and released, and adds up to the depths.                        *)
THEOREM ControlInvariant == Spec => []ControlInv
<1>1. ControlInv /\ [Next]_vars => ControlInv'
  <2> SUFFICES ASSUME ControlInv, [Next]_vars PROVE ControlInv'
    OBVIOUS
  <2>1. CASE GuestNext
    BY <2>1, StepKeeps, NativeProgressKeeps, StartActivationKeeps, CallDirectlyKeeps,
       AcceptKeeps, ReturnKeeps, UnwindActivationKeeps, ErrorsKeep DEF GuestNext
  <2>2. CASE HostNext
    BY <2>2, BeginBoundedKeeps, BeginHostedKeeps, BeginPlainKeeps, JoinHostedKeeps,
       EndOperationKeeps, UnwindOperationKeeps, HostFailsKeeps, ErrorsKeep DEF HostNext
  <2>3. CASE UNCHANGED vars
    <3>1. requested' \subseteq Handles /\ raised' \in Errors \cup {NoError}
      BY <2>3 DEF vars, ControlInv, Shape
    <3> QED
      BY <2>3, <3>1, UntouchedControl DEF vars
  <2> QED
    BY <2>1, <2>2, <2>3 DEF Next
<1> QED
  BY <1>1, ControlInit, PTL DEF Spec

(* The installed control is that of the innermost operation in progress,    *)
(* and the cache agrees with it.                                            *)
THEOREM CarrierIsInnermost == Spec => []CarrierInnermost
<1>1. ControlInv => CarrierInnermost
  <2> SUFFICES ASSUME ControlInv PROVE CarrierInnermost
    OBVIOUS
  <2>1. Shape /\ Discipline(stack) /\ CarrierOn(stack, binding, cache, hosted)
    BY DEF ControlInv
  <2>2. Installing \in SUBSET Installing /\ {"hosted"} \in SUBSET Installing
    BY DEF Installing
  <2>3. binding = Innermost(Installs)
    <3> DEFINE found == {i \in DOMAIN stack : stack[i].kind \in Installing}
    <3>1. PICK v : v = binding
      OBVIOUS
    <3>2. v = IF found = {} THEN 0
              ELSE stack[CHOOSE i \in found : \A j \in found : i <= j].control
      BY <2>1, <2>2, <3>1, InnermostIsNearest DEF CarrierOn
    <3>3. found = {i \in DOMAIN stack : stack[i].kind \in {"bounded", "hosted"}}
      BY DEF Installing
    <3> QED
      BY <3>1, <3>2, <3>3 DEF Innermost, Installs
  <2>4. hosted = Innermost(InstallsHosted)
    <3> DEFINE found == {i \in DOMAIN stack : stack[i].kind \in {"hosted"}}
    <3>1. PICK v : v = hosted
      OBVIOUS
    <3>2. v = IF found = {} THEN 0
              ELSE stack[CHOOSE i \in found : \A j \in found : i <= j].control
      BY <2>1, <2>2, <3>1, InnermostIsNearest DEF CarrierOn
    <3>3. found = {i \in DOMAIN stack : stack[i].kind = "hosted"}
      OBVIOUS
    <3> QED
      BY <3>1, <3>2, <3>3 DEF Innermost, InstallsHosted
  <2> QED
    BY <2>1, <2>3, <2>4 DEF CarrierInnermost, CarrierOn
<1> QED
  BY <1>1, ControlInvariant, PTL

(* The depth of every control is the number of activations in progress that *)
(* it granted, and within its limit: no release is lost, doubled or paid to *)
(* the control of another operation.                                        *)
THEOREM DepthsAreOwned == Spec => []DepthIsOwned
<1>1. ControlInv => DepthIsOwned
  BY DEF ControlInv, DepthExact, DepthIsOwned, Grants
<1> QED
  BY <1>1, ControlInvariant, PTL

(* No hosted operation returns a value after its control ended, whoever     *)
(* caught the error.                                                        *)
THEOREM TerminalIsReported == Spec => []TerminalReported
<1>1. ControlInv => TerminalReported
  BY DEF ControlInv
<1> QED
  BY <1>1, ControlInvariant, PTL

(* The type invariant; a depth is at most the number of frames because it   *)
(* counts some of them.                                                     *)
THEOREM ControlTypeCorrect == Spec => []ControlTypeOK
<1>1. ControlInv => ControlTypeOK
  <2> SUFFICES ASSUME ControlInv PROVE ControlTypeOK
    OBVIOUS
  <2>1. ASSUME NEW k \in Controls
        PROVE  control[k] \in [remaining : 0..MaxSteps, limit : 0..MaxDepth,
                               depth : 0..MaxFrames, handle : Handles,
                               strict : BOOLEAN, cause : Causes \cup {NoError}]
    <3>1. control[k] \in ControlRecords /\ control[k].depth = Cardinality(Grants(stack, k))
      BY Installed DEF ControlInv, DepthExact
    <3>2. Cardinality(Grants(stack, k)) <= Len(stack) /\ Len(stack) \in Nat
          /\ Len(stack) <= MaxFrames /\ Cardinality(Grants(stack, k)) \in Nat
      BY GrantsFinite, LenProperties DEF ControlInv, Shape
    <3>3. control[k].depth \in 0..MaxFrames
      BY <3>1, <3>2, ControlAssumption
    <3> QED
      BY <3>1, <3>3 DEF ControlRecords
  <2>2. cache \in 0..Len(control) \cup {Unresolved}
    BY Installed DEF ControlInv, CarrierOn
  <2> QED
    BY <2>1, <2>2, Installed DEF ControlInv, Shape, ControlTypeOK
<1> QED
  BY <1>1, ControlInvariant, PTL

\* What a step does to a control: nothing that a stopped control forbids.
Stopped(k) == control[k].cause # NoError \/ Requested(k)

NotServed(k) ==
  /\ control[k].cause # NoError => control'[k].cause = control[k].cause
  /\ Stopped(k) => /\ control'[k].remaining = control[k].remaining
                   /\ control'[k].depth <= control[k].depth

\* A control that keeps its fields, or only has a cause latched, is not served.
LEMMA LatchingServesNone ==
    ASSUME ControlInv, NEW j \in Controls, NEW cause \in Causes,
           \/ control' = control
           \/ control' = [control EXCEPT ![j] = Latched(control[j], cause)]
    PROVE  \A k \in Controls : NotServed(k)
<1> SUFFICES ASSUME NEW k \in Controls PROVE NotServed(k)
  OBVIOUS
<1>1. control[k] \in ControlRecords /\ control[j] \in ControlRecords
  BY Installed
<1>2. control[k].depth \in Nat
  BY <1>1 DEF ControlRecords
<1>3. CASE control' = control
  BY <1>2, <1>3 DEF NotServed
<1>4. CASE control' = [control EXCEPT ![j] = Latched(control[j], cause)]
  <2>1. /\ Latched(control[j], cause).depth = control[j].depth
        /\ Latched(control[j], cause).remaining = control[j].remaining
        /\ control[j].cause # NoError => Latched(control[j], cause) = control[j]
    BY <1>1, LatchedControl
  <2>2. control'[k] = IF k = j THEN Latched(control[j], cause) ELSE control[k]
    BY <1>4, Installed, LenProperties DEF Controls
  <2> QED
    BY <1>2, <2>1, <2>2 DEF NotServed
<1> QED
  BY <1>3, <1>4

\* An observation that is asked for after the control stopped fails.
LEMMA ObservationServesNone ==
    ASSUME ControlInv, NEW j \in Controls, NEW failure \in Failures \cup {NoError},
           Requested(j) => failure # NoError, NEW charged,
           charged.cause = control[j].cause, Observe(j, failure, charged)
    PROVE  \A k \in Controls : NotServed(k)
<1>1. CASE control' = control
  <2>1. "interrupted" \in Causes
    BY DEF Causes, Failures
  <2> QED
    BY <1>1, <2>1, LatchingServesNone
<1>2. CASE /\ control[j].cause = NoError /\ failure = NoError
           /\ control' = [control EXCEPT ![j] = charged]
  <2> SUFFICES ASSUME NEW k \in Controls PROVE NotServed(k)
    OBVIOUS
  <2>1. control'[k] = IF k = j THEN charged ELSE control[k]
    BY <1>2, Installed, LenProperties DEF Controls
  <2>2. control[k].depth \in Nat
    BY Installed DEF ControlRecords
  <2>3. ~Stopped(j)
    BY <1>2 DEF Stopped
  <2> QED
    BY <1>2, <2>1, <2>2, <2>3 DEF NotServed, Stopped
<1>3. CASE /\ failure \in Failures
           /\ control' = [control EXCEPT ![j] = Latched(control[j], failure)]
  <2>1. failure \in Causes
    BY <1>3 DEF Causes
  <2> QED
    BY <1>3, <2>1, LatchingServesNone
<1> QED
  BY <1>1, <1>2, <1>3, Observation

LEMMA ObservingActions ==
    ASSUME ControlInv, Step \/ NativeProgress \/ StartActivation \/ CallDirectly
    PROVE  \A k \in Controls : NotServed(k)
<1>1. "interrupted" \in Causes
  BY DEF Causes, Failures
<1>2. CASE control' = control /\ Controls # {}
  <2>1. PICK j : j \in Controls
    BY <1>2
  <2> QED
    BY <1>1, <1>2, <2>1, LatchingServesNone
<1>3. CASE binding # 0 /\ control' # control
  <2>1. PICK j \in Controls : j = binding
    BY <1>3, Installed DEF Controls
  <2>2. control[j] \in ControlRecords
    BY Installed
  <2>3. CASE Step
    <3>1. PICK failure \in Failures \cup {NoError} : failure = StepFailure(j)
      BY FailureTypes
    <3>2. PICK charged : charged = Charged(j)
      OBVIOUS
    <3>3. Observe(j, failure, charged)
      BY <1>3, <2>1, <2>3, <3>1, <3>2, Installed DEF Step
    <3>4. Requested(j) => failure # NoError
      BY <3>1 DEF StepFailure, NoError
    <3>5. charged.cause = control[j].cause
      BY <2>2, <3>2 DEF Charged, ControlRecords
    <3> QED
      BY <3>3, <3>4, <3>5, ObservationServesNone
  <2>4. CASE NativeProgress
    <3>1. PICK failure \in Failures \cup {NoError} : failure = NativeFailure(j)
      BY FailureTypes
    <3>2. PICK charged : charged = control[j]
      OBVIOUS
    <3>3. Observe(j, failure, charged)
      BY <1>3, <2>1, <2>4, <3>1, <3>2 DEF NativeProgress
    <3>4. Requested(j) => failure # NoError
      BY <3>1 DEF NativeFailure, NoError
    <3> QED
      BY <3>2, <3>3, <3>4, ObservationServesNone
  <2>5. CASE StartActivation \/ CallDirectly
    <3>1. PICK failure \in Failures \cup {NoError} : failure = ActivationFailure(j)
      BY FailureTypes
    <3>2. PICK charged : charged = Entered(j)
      OBVIOUS
    <3>3. Observe(j, failure, charged)
      BY <1>3, <2>1, <2>5, <3>1, <3>2 DEF StartActivation, CallDirectly, EnterActivation
    <3>4. Requested(j) => failure # NoError
      BY <3>1 DEF ActivationFailure, NoError
    <3>5. charged.cause = control[j].cause
      BY <2>2, <3>2 DEF Entered, ControlRecords
    <3> QED
      BY <3>3, <3>4, <3>5, ObservationServesNone
  <2> QED
    BY <2>3, <2>4, <2>5
<1>4. CASE binding = 0
  BY <1>2, <1>4, Installed DEF Step, NativeProgress, StartActivation, CallDirectly,
     EnterActivation
<1> QED
  BY <1>2, <1>3, <1>4

LEMMA ReleaseServesNone ==
    ASSUME ControlInv, LeaveActivation
    PROVE  \A k \in Controls : NotServed(k)
<1> SUFFICES ASSUME NEW k \in Controls PROVE NotServed(k)
  OBVIOUS
<1>1. control[k] \in ControlRecords
  BY Installed
<1>2. control[k].depth \in Nat
  BY <1>1 DEF ControlRecords
<1>3. CASE control' = control
  BY <1>2, <1>3 DEF NotServed
<1>4. CASE control' = [control EXCEPT ![binding].depth = @ - 1] /\ binding \in Controls
  <2>1. control'[k] = IF k = binding THEN [control[k] EXCEPT !.depth = control[k].depth - 1]
                      ELSE control[k]
    BY <1>4, Installed, LenProperties DEF Controls
  <2>2. /\ control'[k].cause = control[k].cause
        /\ control'[k].remaining = control[k].remaining
        /\ control'[k].depth = control[k].depth \/ control'[k].depth = control[k].depth - 1
    BY <1>1, <2>1 DEF ControlRecords
  <2> QED
    BY <1>2, <2>2 DEF NotServed
<1> QED
  BY <1>3, <1>4, Installed DEF LeaveActivation, Released, Controls

LEMMA OperationsServeNone ==
    ASSUME ControlInv, HostNext
    PROVE  \A k \in Controls : NotServed(k)
<1>1. /\ control \in Seq(ControlRecords) /\ Len(control) \in Nat
      /\ \A k \in Controls : control[k].depth \in Nat
  BY Installed DEF ControlRecords
<1>2. CASE control' = control
  BY <1>1, <1>2 DEF NotServed
<1>3. CASE \E steps \in 0..MaxSteps, depth \in 0..MaxDepth, handle \in Handles :
             BeginBounded(steps, depth, handle) \/ BeginHosted(steps, depth, handle)
  <2>1. PICK steps \in 0..MaxSteps, depth \in 0..MaxDepth, handle \in Handles :
          BeginBounded(steps, depth, handle) \/ BeginHosted(steps, depth, handle)
    BY <1>3
  <2>2. PICK c : c \in ControlRecords /\ control' = Append(control, c)
    <3>1. \A strict \in BOOLEAN : NewControl(steps, depth, handle, strict) \in ControlRecords
      BY NewControlType
    <3>2. Latched(NewControl(steps, depth, handle, TRUE), "interrupted") \in ControlRecords
      BY <3>1, LatchedControl DEF Causes, Failures
    <3> QED
      BY <2>1, <3>1, <3>2 DEF BeginBounded, BeginHosted
  <2>3. \A k \in Controls : control'[k] = control[k]
    BY <1>1, <2>2, AppendProperties DEF Controls
  <2> QED
    BY <1>1, <2>3 DEF NotServed
<1>4. CASE \E cause \in Causes : hosted # 0 /\ RaiseTerminal(cause)
  <2>1. PICK cause \in Causes : hosted # 0 /\ RaiseTerminal(cause)
    BY <1>4
  <2>2. PICK j \in Controls : j = hosted
    BY <2>1, Installed DEF Controls
  <2>3. control' = [control EXCEPT ![j] = Latched(control[j], cause)]
    BY <2>1, <2>2 DEF RaiseTerminal
  <2> QED
    BY <2>3, LatchingServesNone
<1>5. "interrupted" \in Causes /\ "host failure" \in Causes
  BY DEF Causes, Failures
<1>6. CASE HostFails \/ JoinHosted
  BY <1>2, <1>4, <1>5, <1>6 DEF HostFails, JoinHosted
<1>7. CASE EndOperation
  BY <1>2, <1>4, <1>5, <1>7, HostedOnTop DEF EndOperation
<1>8. CASE BeginPlain \/ UnwindOperation \/ \E handle \in Handles : RequestInterruption(handle)
  BY <1>2, <1>8 DEF BeginPlain, UnwindOperation, RequestInterruption
<1> QED
  BY <1>3, <1>6, <1>7, <1>8 DEF HostNext

(* A control that ended, or whose interruption is requested, grants no step *)
(* and no activation any more, and its first cause stays.                   *)
THEOREM StoppedIsFinal == Spec => StoppedStaysStopped
<1>1. ControlInv /\ [Next]_vars =>
        [\A k \in Controls :
           /\ control[k].cause # NoError => control'[k].cause = control[k].cause
           /\ control[k].cause # NoError \/ Requested(k) =>
                /\ control'[k].remaining = control[k].remaining
                /\ control'[k].depth <= control[k].depth]_vars
  <2> SUFFICES ASSUME ControlInv, Next
               PROVE  \A k \in Controls : NotServed(k)
    BY DEF NotServed, Stopped
  <2>1. CASE control' = control
    <3>1. \A k \in Controls : control[k].depth \in Nat
      BY Installed DEF ControlRecords
    <3> QED
      BY <2>1, <3>1 DEF NotServed
  <2>2. CASE Step \/ NativeProgress \/ StartActivation \/ CallDirectly
    BY <2>2, ObservingActions
  <2>3. CASE Return \/ UnwindActivation
    BY <2>3, ReleaseServesNone DEF Return, UnwindActivation
  <2>4. CASE AcceptActivation \/ Throw \/ Caught
    BY <2>1, <2>4 DEF AcceptActivation, Throw, Caught
  <2>5. CASE HostNext
    BY <2>5, OperationsServeNone
  <2> QED
    BY <2>2, <2>3, <2>4, <2>5 DEF Next, GuestNext
<1> QED
  BY <1>1, ControlInvariant, PTL DEF Spec, StoppedStaysStopped

-----------------------------------------------------------------------------
\* What a step may spend of a control: at most one step of its budget, an
\* activation only for one of them, and nothing of what it was created with.
Metered(k) ==
  /\ k \in 1..Len(control')
  /\ control'[k].limit = control[k].limit
  /\ control'[k].handle = control[k].handle
  /\ control'[k].strict = control[k].strict
  /\ control'[k].remaining \in {control[k].remaining, control[k].remaining - 1}
  /\ control'[k].depth > control[k].depth =>
       /\ control'[k].depth = control[k].depth + 1
       /\ control'[k].remaining = control[k].remaining - 1

\* One record of `control' replaced by one that differs as Metered allows.
LEMMA ReplacedMetered ==
    ASSUME ControlInv, NEW j \in Controls, NEW c, control' = [control EXCEPT ![j] = c],
           c.limit = control[j].limit, c.handle = control[j].handle,
           c.strict = control[j].strict,
           c.remaining \in {control[j].remaining, control[j].remaining - 1},
           c.depth > control[j].depth =>
             c.depth = control[j].depth + 1 /\ c.remaining = control[j].remaining - 1
    PROVE  \A k \in Controls : Metered(k)
<1> SUFFICES ASSUME NEW k \in Controls PROVE Metered(k)
  OBVIOUS
<1>1. control'[k] = IF k = j THEN c ELSE control[k]
  BY Installed, LenProperties DEF Controls
<1>2. Len(control') = Len(control)
  BY Installed, LenProperties DEF Controls
<1>3. control[k].depth \in Nat
  BY Installed DEF ControlRecords
<1> QED
  BY <1>1, <1>2, <1>3 DEF Metered, Controls

LEMMA UntouchedMetered ==
    ASSUME ControlInv, control' = control
    PROVE  \A k \in Controls : Metered(k)
<1>1. \A k \in Controls : control[k].depth \in Nat
  BY Installed DEF ControlRecords
<1> QED
  BY <1>1 DEF Metered, Controls

LEMMA LatchedMetered ==
    ASSUME ControlInv, NEW j \in Controls, NEW cause \in Causes,
           control' = [control EXCEPT ![j] = Latched(control[j], cause)]
    PROVE  \A k \in Controls : Metered(k)
<1>1. control[j] \in ControlRecords
  BY Installed
<1>2. PICK c : c = Latched(control[j], cause)
  OBVIOUS
<1>3. /\ c.limit = control[j].limit /\ c.handle = control[j].handle
      /\ c.strict = control[j].strict /\ c.remaining = control[j].remaining
      /\ c.depth = control[j].depth /\ control[j].depth \in Nat
  BY <1>1, <1>2 DEF Latched, ControlRecords
<1>4. /\ c.remaining \in {control[j].remaining, control[j].remaining - 1}
      /\ ~(c.depth > control[j].depth)
  BY <1>3
<1>5. control' = [control EXCEPT ![j] = c]
  BY <1>2
<1> QED
  BY <1>3, <1>4, <1>5, ReplacedMetered

LEMMA ObservationMetered ==
    ASSUME ControlInv, NEW j \in Controls, NEW failure \in Failures \cup {NoError},
           NEW charged \in {control[j], Charged(j), Entered(j)},
           Observe(j, failure, charged)
    PROVE  \A k \in Controls : Metered(k)
<1>1. control[j] \in ControlRecords
  BY Installed
<1>2. CASE control' = [control EXCEPT ![j] = charged]
  <2>1. /\ charged.limit = control[j].limit /\ charged.handle = control[j].handle
        /\ charged.strict = control[j].strict
        /\ charged.remaining \in {control[j].remaining, control[j].remaining - 1}
        /\ charged.depth > control[j].depth =>
             /\ charged.depth = control[j].depth + 1
             /\ charged.remaining = control[j].remaining - 1
    <3>1. CASE charged = control[j]
      BY <1>1, <3>1 DEF ControlRecords
    <3>2. CASE charged = Charged(j)
      BY <1>1, <3>2 DEF Charged, ControlRecords
    <3>3. CASE charged = Entered(j)
      BY <1>1, <3>3 DEF Entered, ControlRecords
    <3> QED
      BY <3>1, <3>2, <3>3
  <2> QED
    BY <1>2, <2>1, ReplacedMetered
<1>3. CASE failure \in Failures /\ control' = [control EXCEPT ![j] = Latched(control[j], failure)]
  BY <1>3, LatchedMetered DEF Causes
<1> QED
  BY <1>2, <1>3, Observation, UntouchedMetered

LEMMA ObservingMetered ==
    ASSUME ControlInv, Step \/ NativeProgress \/ StartActivation \/ CallDirectly
    PROVE  \A k \in Controls : Metered(k)
<1>1. CASE binding # 0 /\ control' # control
  <2>1. PICK j \in Controls : j = binding
    BY <1>1, Installed DEF Controls
  <2>2. \E failure \in Failures \cup {NoError} :
          \E charged \in {control[j], Charged(j), Entered(j)} :
             Observe(j, failure, charged)
    <3>1. CASE Step
      BY <1>1, <2>1, <3>1, FailureTypes, Installed DEF Step
    <3>2. CASE NativeProgress
      BY <1>1, <2>1, <3>2, FailureTypes DEF NativeProgress
    <3>3. CASE StartActivation \/ CallDirectly
      BY <1>1, <2>1, <3>3, FailureTypes DEF StartActivation, CallDirectly, EnterActivation
    <3> QED
      BY <3>1, <3>2, <3>3
  <2> QED
    BY <2>2, ObservationMetered
<1>2. CASE binding = 0
  BY <1>2, Installed, UntouchedMetered DEF Step, NativeProgress, StartActivation,
     CallDirectly, EnterActivation
<1> QED
  BY <1>1, <1>2, UntouchedMetered

LEMMA ReleaseMetered ==
    ASSUME ControlInv, LeaveActivation
    PROVE  \A k \in Controls : Metered(k)
<1>1. CASE control' = [control EXCEPT ![binding].depth = @ - 1] /\ binding \in Controls
  <2>1. PICK c : c = [control[binding] EXCEPT !.depth = control[binding].depth - 1]
    OBVIOUS
  <2>2. control[binding] \in ControlRecords
    BY <1>1, Installed
  <2>3. /\ c.limit = control[binding].limit /\ c.handle = control[binding].handle
        /\ c.strict = control[binding].strict
        /\ c.remaining = control[binding].remaining
        /\ c.depth = control[binding].depth - 1 /\ control[binding].depth \in Nat
    BY <2>1, <2>2 DEF ControlRecords
  <2>4. control' = [control EXCEPT ![binding] = c]
    BY <1>1, <2>1
  <2>5. /\ c.remaining \in {control[binding].remaining, control[binding].remaining - 1}
        /\ ~(c.depth > control[binding].depth)
    BY <2>3
  <2> QED
    BY <1>1, <2>3, <2>4, <2>5, ReplacedMetered
<1> QED
  BY <1>1, UntouchedMetered, Installed DEF LeaveActivation, Released, Controls

LEMMA OperationsMetered ==
    ASSUME ControlInv, HostNext
    PROVE  \A k \in Controls : Metered(k)
<1>1. /\ control \in Seq(ControlRecords) /\ Len(control) \in Nat
      /\ \A k \in Controls : control[k].depth \in Nat
  BY Installed DEF ControlRecords
<1>2. CASE \E steps \in 0..MaxSteps, depth \in 0..MaxDepth, handle \in Handles :
             BeginBounded(steps, depth, handle) \/ BeginHosted(steps, depth, handle)
  <2>1. PICK steps \in 0..MaxSteps, depth \in 0..MaxDepth, handle \in Handles :
          BeginBounded(steps, depth, handle) \/ BeginHosted(steps, depth, handle)
    BY <1>2
  <2>2. PICK c : c \in ControlRecords /\ control' = Append(control, c)
    <3>1. \A strict \in BOOLEAN : NewControl(steps, depth, handle, strict) \in ControlRecords
      BY NewControlType
    <3>2. Latched(NewControl(steps, depth, handle, TRUE), "interrupted") \in ControlRecords
      BY <3>1, LatchedControl DEF Causes, Failures
    <3> QED
      BY <2>1, <3>1, <3>2 DEF BeginBounded, BeginHosted
  <2>3. /\ \A k \in Controls : control'[k] = control[k]
        /\ Len(control') = Len(control) + 1
    BY <1>1, <2>2, AppendProperties DEF Controls
  <2> QED
    BY <1>1, <2>3 DEF Metered, Controls
<1>3. CASE \E cause \in Causes : hosted # 0 /\ RaiseTerminal(cause)
  <2>1. PICK cause \in Causes : hosted # 0 /\ RaiseTerminal(cause)
    BY <1>3
  <2>2. PICK j \in Controls : j = hosted
    BY <2>1, Installed DEF Controls
  <2>3. control' = [control EXCEPT ![j] = Latched(control[j], cause)]
    BY <2>1, <2>2 DEF RaiseTerminal
  <2> QED
    BY <2>3, LatchedMetered
<1>4. "interrupted" \in Causes /\ "host failure" \in Causes
  BY DEF Causes, Failures
<1>5. CASE HostFails \/ JoinHosted
  BY <1>3, <1>4, <1>5, UntouchedMetered DEF HostFails, JoinHosted
<1>6. CASE EndOperation
  BY <1>3, <1>4, <1>6, HostedOnTop, UntouchedMetered DEF EndOperation
<1>7. CASE BeginPlain \/ UnwindOperation \/ \E handle \in Handles : RequestInterruption(handle)
  BY <1>7, UntouchedMetered DEF BeginPlain, UnwindOperation, RequestInterruption
<1> QED
  BY <1>2, <1>5, <1>6, <1>7 DEF HostNext

(* Nothing gives a control back what it spent: a budget is fixed when the   *)
(* operation starts and only shrinks, one step at a time, and an activation *)
(* is never granted without one, whatever other operations start, end or    *)
(* unwind in between.                                                       *)
THEOREM BudgetsAreSpent ==
    Spec => [][\A k \in Controls : Metered(k)]_vars
<1>1. ControlInv /\ [Next]_vars => [\A k \in Controls : Metered(k)]_vars
  <2> SUFFICES ASSUME ControlInv, Next
               PROVE  \A k \in Controls : Metered(k)
    OBVIOUS
  <2>1. CASE Step \/ NativeProgress \/ StartActivation \/ CallDirectly
    BY <2>1, ObservingMetered
  <2>2. CASE Return \/ UnwindActivation
    BY <2>2, ReleaseMetered DEF Return, UnwindActivation
  <2>3. CASE AcceptActivation \/ Throw \/ Caught
    BY <2>3, UntouchedMetered DEF AcceptActivation, Throw, Caught
  <2>4. CASE HostNext
    BY <2>4, OperationsMetered
  <2> QED
    BY <2>1, <2>2, <2>3, <2>4 DEF Next, GuestNext
<1> QED
  BY <1>1, ControlInvariant, PTL DEF Spec
=============================================================================
