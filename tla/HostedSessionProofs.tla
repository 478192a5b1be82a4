------------------------- MODULE HostedSessionProofs ------------------------
(***************************************************************************)
(* HostedSession for every set of Sessions and every bound.                *)
(***************************************************************************)
EXTENDS HostedSession, FiniteSetTheorems, TLAPS

(* What SessionInv says of the turn on top of the native stack, as used by *)
(* the actions of guest code and of the turn itself.                       *)
LEMMA TopOfStack ==
    ASSUME SessionInv, NEW s \in Sessions,
           level[s] = depth, step[s] # "none"
    PROVE  /\ state[s] = "Running"
           /\ depth \in Nat /\ depth > 0 /\ level[s] \in 1..depth
           /\ \A t \in Sessions : t # s => level[t] # depth
BY DEF SessionInv, TypeOK, OneTurnAtATime, Idle, States

(* Entering an available Session puts it on top of a stack on which it was  *)
(* not: every other turn keeps its place and waits in a host binding.       *)
LEMMA EnterKeepsStack ==
    ASSUME SessionInv, NEW s \in Sessions, Enter(s), host' = host
    PROVE  OneTurnAtATime'
<1>1. /\ depth \in Nat /\ depth' = depth + 1
      /\ state' = [state EXCEPT ![s] = "Running"]
      /\ level' = [level EXCEPT ![s] = depth + 1]
      /\ state \in [Sessions -> States] /\ level \in [Sessions -> Nat]
  BY DEF SessionInv, TypeOK, Enter
<1>2. level[s] = 0
  BY DEF SessionInv, OneTurnAtATime, TypeOK, Enter
<1>3. /\ level'[s] = depth + 1 /\ state'[s] = "Running"
      /\ \A t \in Sessions : t # s => level'[t] = level[t] /\ state'[t] = state[t]
  BY <1>1
<1>4. \A t \in Sessions :
        /\ level[t] \in 0..depth
        /\ state[t] = "Running" <=> level[t] \in 1..depth
        /\ level[t] \in 1..depth => host[t] # "none"
  BY <1>1 DEF SessionInv, OneTurnAtATime, Enter, HostRunning
<1>5. ASSUME NEW t \in Sessions
      PROVE  /\ state'[t] = "Running" <=> level'[t] \in 1..depth'
             /\ level'[t] \in 0..depth'
             /\ level'[t] \in 1..(depth' - 1) => host'[t] # "none"
  <2>1. CASE t = s
    BY <2>1, <1>1, <1>3
  <2>2. CASE t # s
    BY <2>2, <1>1, <1>3, <1>4
  <2> QED
    BY <2>1, <2>2
<1>6. ASSUME NEW t \in Sessions, NEW u \in Sessions,
             level'[t] = level'[u], level'[t] # 0
      PROVE  t = u
  <2>1. t # s /\ u # s => t = u
    BY <1>3, <1>6 DEF SessionInv, OneTurnAtATime
  <2>2. \A v \in Sessions : v # s => level'[v] # level'[s]
    BY <1>1, <1>3, <1>4
  <2> QED
    BY <2>1, <2>2, <1>6
<1>7. ASSUME NEW d \in 1..depth'
      PROVE  \E t \in Sessions : level'[t] = d
  <2>1. CASE d = depth + 1
    BY <2>1, <1>3
  <2>2. CASE d # depth + 1
    <3>1. d \in 1..depth
      BY <2>2, <1>1
    <3>2. PICK t \in Sessions : level[t] = d
      BY <3>1 DEF SessionInv, OneTurnAtATime
    <3>3. t # s
      BY <3>1, <3>2, <1>1, <1>2
    <3> QED
      BY <3>2, <3>3, <1>3
  <2> QED
    BY <2>1, <2>2
<1> QED
  BY <1>5, <1>6, <1>7 DEF OneTurnAtATime

LEMMA SessionInit == Init => SessionInv
<1> SUFFICES ASSUME Init PROVE SessionInv
  OBVIOUS
<1> USE SessionAssumption
<1>1. TypeOK
  BY DEF Init, TypeOK, States, Ids, Tokens
<1>2. OneTurnAtATime /\ CleanBetweenTurns /\ LoadStackExact
  BY DEF Init, OneTurnAtATime, CleanBetweenTurns, LoadStackExact
<1>3. HostFailureFaults /\ Idle
  BY DEF Init, HostFailureFaults, Idle
<1>4. TokensFresh /\ ResumedAtMostOnce
  BY DEF Init, TokensFresh, ResumedAtMostOnce, Tokens, Ids, Issued
<1> QED
  BY <1>1, <1>2, <1>3, <1>4 DEF SessionInv

LEMMA BeginTurnStep ==
    ASSUME SessionInv, NEW s \in Sessions, BeginTurn(s)
    PROVE  SessionInv'
<1> USE SessionAssumption
<1>1. TypeOK'
  BY DEF SessionInv, BeginTurn, Enter, TypeOK, bvars, States
<1>2. OneTurnAtATime'
  BY EnterKeepsStack DEF BeginTurn
<1>3. CleanBetweenTurns' /\ LoadStackExact' /\ HostFailureFaults' /\ Idle'
  BY DEF SessionInv, BeginTurn, Enter, CleanBetweenTurns, LoadStackExact,
         HostFailureFaults, Idle, TypeOK, bvars
<1>4. TokensFresh' /\ ResumedAtMostOnce'
  BY DEF SessionInv, BeginTurn, Enter, TokensFresh, ResumedAtMostOnce, TypeOK,
         bvars, Issued
<1> QED
  BY <1>1, <1>2, <1>3, <1>4 DEF SessionInv

LEMMA ResumeScheduledTurnStep ==
    ASSUME SessionInv, NEW s \in Sessions, NEW owner \in Sessions, NEW id \in Ids, ResumeScheduledTurn(s, owner, id)
    PROVE  SessionInv'
<1> USE SessionAssumption
<1>1. TypeOK'
  <2>1. <<owner, id>> \in Tokens
    BY DEF Tokens
  <2>2. runs' \in [Tokens -> Nat]
    BY <2>1 DEF SessionInv, TypeOK, ResumeScheduledTurn
  <2> QED
    BY <2>2 DEF SessionInv, ResumeScheduledTurn, Enter, bvars, TypeOK, States
<1>2. OneTurnAtATime'
  BY EnterKeepsStack DEF ResumeScheduledTurn
<1>3. CleanBetweenTurns' /\ LoadStackExact' /\ HostFailureFaults' /\ Idle'
  BY DEF SessionInv, ResumeScheduledTurn, Enter, HostRunning, bvars, CleanBetweenTurns, LoadStackExact,
         HostFailureFaults, Idle, TypeOK
<1>4. TokensFresh' /\ ResumedAtMostOnce'
  BY DEF SessionInv, ResumeScheduledTurn, Enter, HostRunning, bvars, TokensFresh, ResumedAtMostOnce, TypeOK,
         Issued, Ids, Tokens
<1> QED
  BY <1>1, <1>2, <1>3, <1>4 DEF SessionInv

LEMMA CloseStep ==
    ASSUME SessionInv, NEW s \in Sessions, Close(s)
    PROVE  SessionInv'
<1> USE SessionAssumption
<1>1. TypeOK'
  BY DEF SessionInv, Close, HostRunning, bvars, TypeOK, States, Ids, LoadStackExact, Issued
<1>2. OneTurnAtATime'
  BY DEF SessionInv, Close, HostRunning, bvars, OneTurnAtATime, TypeOK, Idle
<1>3. CleanBetweenTurns' /\ LoadStackExact' /\ HostFailureFaults' /\ Idle'
  BY DEF SessionInv, Close, HostRunning, bvars, CleanBetweenTurns, LoadStackExact,
         HostFailureFaults, Idle, TypeOK
<1>4. TokensFresh' /\ ResumedAtMostOnce'
  BY DEF SessionInv, Close, HostRunning, bvars, TokensFresh, ResumedAtMostOnce, TypeOK,
         Issued, Ids, Tokens
<1> QED
  BY <1>1, <1>2, <1>3, <1>4 DEF SessionInv

LEMMA QueueJobStep ==
    ASSUME SessionInv, NEW s \in Sessions, QueueJob(s)
    PROVE  SessionInv'
<1> USE SessionAssumption
<1>0. level[s] = depth /\ step[s] # "none"
  BY DEF QueueJob, Guest
<1>t. /\ state[s] = "Running"
      /\ depth \in Nat /\ depth > 0 /\ level[s] \in 1..depth
      /\ \A t \in Sessions : t # s => level[t] # depth
  BY <1>0, TopOfStack
<1>1. TypeOK'
  BY <1>t DEF SessionInv, QueueJob, Guest, bvars, TypeOK, States, Ids, LoadStackExact, Issued
<1>2. OneTurnAtATime'
  BY <1>t DEF SessionInv, QueueJob, Guest, bvars, OneTurnAtATime, TypeOK, Idle
<1>3. CleanBetweenTurns' /\ LoadStackExact' /\ HostFailureFaults' /\ Idle'
  BY <1>t DEF SessionInv, QueueJob, Guest, bvars, CleanBetweenTurns, LoadStackExact,
         HostFailureFaults, Idle, TypeOK
<1>4. TokensFresh' /\ ResumedAtMostOnce'
  BY <1>t DEF SessionInv, QueueJob, Guest, bvars, TokensFresh, ResumedAtMostOnce, TypeOK,
         Issued, Ids, Tokens
<1> QED
  BY <1>1, <1>2, <1>3, <1>4 DEF SessionInv

LEMMA ClearTimeoutStep ==
    ASSUME SessionInv, NEW s \in Sessions, NEW id \in Ids, ClearTimeout(s, id)
    PROVE  SessionInv'
<1> USE SessionAssumption
<1>0. level[s] = depth /\ step[s] # "none"
  BY DEF ClearTimeout, Guest
<1>t. /\ state[s] = "Running"
      /\ depth \in Nat /\ depth > 0 /\ level[s] \in 1..depth
      /\ \A t \in Sessions : t # s => level[t] # depth
  BY <1>0, TopOfStack
<1>1. TypeOK'
  BY <1>t DEF SessionInv, ClearTimeout, Guest, bvars, TypeOK, States, Ids, LoadStackExact, Issued
<1>2. OneTurnAtATime'
  BY <1>t DEF SessionInv, ClearTimeout, Guest, bvars, OneTurnAtATime, TypeOK, Idle
<1>3. CleanBetweenTurns' /\ LoadStackExact' /\ HostFailureFaults' /\ Idle'
  BY <1>t DEF SessionInv, ClearTimeout, Guest, bvars, CleanBetweenTurns, LoadStackExact,
         HostFailureFaults, Idle, TypeOK
<1>4. TokensFresh' /\ ResumedAtMostOnce'
  BY <1>t DEF SessionInv, ClearTimeout, Guest, bvars, TokensFresh, ResumedAtMostOnce, TypeOK,
         Issued, Ids, Tokens
<1> QED
  BY <1>1, <1>2, <1>3, <1>4 DEF SessionInv

LEMMA BeginScheduleStep ==
    ASSUME SessionInv, NEW s \in Sessions, BeginSchedule(s)
    PROVE  SessionInv'
<1> USE SessionAssumption
<1>0. level[s] = depth /\ step[s] # "none"
  BY DEF BeginSchedule, Guest
<1>t. /\ state[s] = "Running"
      /\ depth \in Nat /\ depth > 0 /\ level[s] \in 1..depth
      /\ \A t \in Sessions : t # s => level[t] # depth
  BY <1>0, TopOfStack
<1>1. TypeOK'
  BY <1>t DEF SessionInv, BeginSchedule, Guest, bvars, TypeOK, States, Ids, LoadStackExact, Issued
<1>2. OneTurnAtATime'
  BY <1>t DEF SessionInv, BeginSchedule, Guest, bvars, OneTurnAtATime, TypeOK, Idle
<1>3. CleanBetweenTurns' /\ LoadStackExact' /\ HostFailureFaults' /\ Idle'
  BY <1>t DEF SessionInv, BeginSchedule, Guest, bvars, CleanBetweenTurns, LoadStackExact,
         HostFailureFaults, Idle, TypeOK
<1>4. TokensFresh' /\ ResumedAtMostOnce'
  BY <1>t DEF SessionInv, BeginSchedule, Guest, bvars, TokensFresh, ResumedAtMostOnce, TypeOK,
         Issued, Ids, Tokens
<1> QED
  BY <1>1, <1>2, <1>3, <1>4 DEF SessionInv

LEMMA ScheduleExhaustedStep ==
    ASSUME SessionInv, NEW s \in Sessions, ScheduleExhausted(s)
    PROVE  SessionInv'
<1> USE SessionAssumption
<1>0. level[s] = depth /\ step[s] # "none"
  BY DEF ScheduleExhausted, Guest
<1>t. /\ state[s] = "Running"
      /\ depth \in Nat /\ depth > 0 /\ level[s] \in 1..depth
      /\ \A t \in Sessions : t # s => level[t] # depth
  BY <1>0, TopOfStack
<1>1. TypeOK'
  BY <1>t DEF SessionInv, ScheduleExhausted, Guest, bvars, TypeOK, States, Ids, LoadStackExact, Issued
<1>2. OneTurnAtATime'
  BY <1>t DEF SessionInv, ScheduleExhausted, Guest, bvars, OneTurnAtATime, TypeOK, Idle
<1>3. CleanBetweenTurns' /\ LoadStackExact' /\ HostFailureFaults' /\ Idle'
  BY <1>t DEF SessionInv, ScheduleExhausted, Guest, bvars, CleanBetweenTurns, LoadStackExact,
         HostFailureFaults, Idle, TypeOK
<1>4. TokensFresh' /\ ResumedAtMostOnce'
  BY <1>t DEF SessionInv, ScheduleExhausted, Guest, bvars, TokensFresh, ResumedAtMostOnce, TypeOK,
         Issued, Ids, Tokens
<1> QED
  BY <1>1, <1>2, <1>3, <1>4 DEF SessionInv

LEMMA CallHostStep ==
    ASSUME SessionInv, NEW s \in Sessions, CallHost(s)
    PROVE  SessionInv'
<1> USE SessionAssumption
<1>0. level[s] = depth /\ step[s] # "none"
  BY DEF CallHost, Guest
<1>t. /\ state[s] = "Running"
      /\ depth \in Nat /\ depth > 0 /\ level[s] \in 1..depth
      /\ \A t \in Sessions : t # s => level[t] # depth
  BY <1>0, TopOfStack
<1>1. TypeOK'
  BY <1>t DEF SessionInv, CallHost, Guest, bvars, TypeOK, States, Ids, LoadStackExact, Issued
<1>2. OneTurnAtATime'
  BY <1>t DEF SessionInv, CallHost, Guest, bvars, OneTurnAtATime, TypeOK, Idle
<1>3. CleanBetweenTurns' /\ LoadStackExact' /\ HostFailureFaults' /\ Idle'
  BY <1>t DEF SessionInv, CallHost, Guest, bvars, CleanBetweenTurns, LoadStackExact,
         HostFailureFaults, Idle, TypeOK
<1>4. TokensFresh' /\ ResumedAtMostOnce'
  BY <1>t DEF SessionInv, CallHost, Guest, bvars, TokensFresh, ResumedAtMostOnce, TypeOK,
         Issued, Ids, Tokens
<1> QED
  BY <1>1, <1>2, <1>3, <1>4 DEF SessionInv

LEMMA BeginResolveStep ==
    ASSUME SessionInv, NEW s \in Sessions, BeginResolve(s)
    PROVE  SessionInv'
<1> USE SessionAssumption
<1>0. level[s] = depth /\ step[s] # "none"
  BY DEF BeginResolve, Guest
<1>t. /\ state[s] = "Running"
      /\ depth \in Nat /\ depth > 0 /\ level[s] \in 1..depth
      /\ \A t \in Sessions : t # s => level[t] # depth
  BY <1>0, TopOfStack
<1>1. TypeOK'
  BY <1>t DEF SessionInv, BeginResolve, Guest, bvars, TypeOK, States, Ids, LoadStackExact, Issued
<1>2. OneTurnAtATime'
  BY <1>t DEF SessionInv, BeginResolve, Guest, bvars, OneTurnAtATime, TypeOK, Idle
<1>3. CleanBetweenTurns' /\ LoadStackExact' /\ HostFailureFaults' /\ Idle'
  BY <1>t DEF SessionInv, BeginResolve, Guest, bvars, CleanBetweenTurns, LoadStackExact,
         HostFailureFaults, Idle, TypeOK
<1>4. TokensFresh' /\ ResumedAtMostOnce'
  BY <1>t DEF SessionInv, BeginResolve, Guest, bvars, TokensFresh, ResumedAtMostOnce, TypeOK,
         Issued, Ids, Tokens
<1> QED
  BY <1>1, <1>2, <1>3, <1>4 DEF SessionInv

LEMMA EndLoadStep ==
    ASSUME SessionInv, NEW s \in Sessions, EndLoad(s)
    PROVE  SessionInv'
<1> USE SessionAssumption
<1>0. level[s] = depth /\ step[s] # "none"
  BY DEF EndLoad, Guest
<1>t. /\ state[s] = "Running"
      /\ depth \in Nat /\ depth > 0 /\ level[s] \in 1..depth
      /\ \A t \in Sessions : t # s => level[t] # depth
  BY <1>0, TopOfStack
<1>1. TypeOK'
  BY <1>t DEF SessionInv, EndLoad, Guest, bvars, TypeOK, States, Ids, LoadStackExact, Issued
<1>2. OneTurnAtATime'
  BY <1>t DEF SessionInv, EndLoad, Guest, bvars, OneTurnAtATime, TypeOK, Idle
<1>3. CleanBetweenTurns' /\ LoadStackExact' /\ HostFailureFaults' /\ Idle'
  BY <1>t DEF SessionInv, EndLoad, Guest, bvars, CleanBetweenTurns, LoadStackExact,
         HostFailureFaults, Idle, TypeOK
<1>4. TokensFresh' /\ ResumedAtMostOnce'
  BY <1>t DEF SessionInv, EndLoad, Guest, bvars, TokensFresh, ResumedAtMostOnce, TypeOK,
         Issued, Ids, Tokens
<1> QED
  BY <1>1, <1>2, <1>3, <1>4 DEF SessionInv

LEMMA HostReturnsStep ==
    ASSUME SessionInv, NEW s \in Sessions, HostReturns(s)
    PROVE  SessionInv'
<1> USE SessionAssumption
<1>0. level[s] = depth /\ step[s] # "none"
  BY DEF HostReturns, InHost, SessionInv, Idle
<1>t. /\ state[s] = "Running"
      /\ depth \in Nat /\ depth > 0 /\ level[s] \in 1..depth
      /\ \A t \in Sessions : t # s => level[t] # depth
  BY <1>0, TopOfStack
<1>1. TypeOK'
  BY <1>t DEF SessionInv, HostReturns, InHost, bvars, TypeOK, States, Ids, LoadStackExact, Issued
<1>2. OneTurnAtATime'
  BY <1>t DEF SessionInv, HostReturns, InHost, bvars, OneTurnAtATime, TypeOK, Idle
<1>3. CleanBetweenTurns' /\ LoadStackExact' /\ HostFailureFaults' /\ Idle'
  BY <1>t DEF SessionInv, HostReturns, InHost, bvars, CleanBetweenTurns, LoadStackExact,
         HostFailureFaults, Idle, TypeOK
<1>4. TokensFresh' /\ ResumedAtMostOnce'
  BY <1>t DEF SessionInv, HostReturns, InHost, bvars, TokensFresh, ResumedAtMostOnce, TypeOK,
         Issued, Ids, Tokens
<1> QED
  BY <1>1, <1>2, <1>3, <1>4 DEF SessionInv

LEMMA ResolverReturnsScriptStep ==
    ASSUME SessionInv, NEW s \in Sessions, ResolverReturnsScript(s)
    PROVE  SessionInv'
<1> USE SessionAssumption
<1>0. level[s] = depth /\ step[s] # "none"
  BY DEF ResolverReturnsScript, InHost, SessionInv, Idle
<1>t. /\ state[s] = "Running"
      /\ depth \in Nat /\ depth > 0 /\ level[s] \in 1..depth
      /\ \A t \in Sessions : t # s => level[t] # depth
  BY <1>0, TopOfStack
<1>1. TypeOK'
  BY <1>t DEF SessionInv, ResolverReturnsScript, InHost, bvars, TypeOK, States, Ids, LoadStackExact, Issued
<1>2. OneTurnAtATime'
  BY <1>t DEF SessionInv, ResolverReturnsScript, InHost, bvars, OneTurnAtATime, TypeOK, Idle
<1>3. CleanBetweenTurns' /\ LoadStackExact' /\ HostFailureFaults' /\ Idle'
  BY <1>t DEF SessionInv, ResolverReturnsScript, InHost, bvars, CleanBetweenTurns, LoadStackExact,
         HostFailureFaults, Idle, TypeOK
<1>4. TokensFresh' /\ ResumedAtMostOnce'
  BY <1>t DEF SessionInv, ResolverReturnsScript, InHost, bvars, TokensFresh, ResumedAtMostOnce, TypeOK,
         Issued, Ids, Tokens
<1> QED
  BY <1>1, <1>2, <1>3, <1>4 DEF SessionInv

LEMMA HostRaisesStep ==
    ASSUME SessionInv, NEW s \in Sessions, HostRaises(s)
    PROVE  SessionInv'
<1> USE SessionAssumption
<1>0. level[s] = depth /\ step[s] # "none"
  BY DEF HostRaises, InHost, SessionInv, Idle
<1>t. /\ state[s] = "Running"
      /\ depth \in Nat /\ depth > 0 /\ level[s] \in 1..depth
      /\ \A t \in Sessions : t # s => level[t] # depth
  BY <1>0, TopOfStack
<1>1. TypeOK'
  BY <1>t DEF SessionInv, HostRaises, InHost, bvars, TypeOK, States, Ids, LoadStackExact, Issued
<1>2. OneTurnAtATime'
  BY <1>t DEF SessionInv, HostRaises, InHost, bvars, OneTurnAtATime, TypeOK, Idle
<1>3. CleanBetweenTurns' /\ LoadStackExact' /\ HostFailureFaults' /\ Idle'
  BY <1>t DEF SessionInv, HostRaises, InHost, bvars, CleanBetweenTurns, LoadStackExact,
         HostFailureFaults, Idle, TypeOK
<1>4. TokensFresh' /\ ResumedAtMostOnce'
  BY <1>t DEF SessionInv, HostRaises, InHost, bvars, TokensFresh, ResumedAtMostOnce, TypeOK,
         Issued, Ids, Tokens
<1> QED
  BY <1>1, <1>2, <1>3, <1>4 DEF SessionInv

LEMMA StartJobStep ==
    ASSUME SessionInv, NEW s \in Sessions, StartJob(s)
    PROVE  SessionInv'
<1> USE SessionAssumption
<1>0. level[s] = depth /\ step[s] # "none"
  BY DEF StartJob
<1>t. /\ state[s] = "Running"
      /\ depth \in Nat /\ depth > 0 /\ level[s] \in 1..depth
      /\ \A t \in Sessions : t # s => level[t] # depth
  BY <1>0, TopOfStack
<1>1. TypeOK'
  BY <1>t DEF SessionInv, StartJob, bvars, TypeOK, States, Ids, LoadStackExact, Issued
<1>2. OneTurnAtATime'
  BY <1>t DEF SessionInv, StartJob, bvars, OneTurnAtATime, TypeOK, Idle
<1>3. CleanBetweenTurns' /\ LoadStackExact' /\ HostFailureFaults' /\ Idle'
  BY <1>t DEF SessionInv, StartJob, bvars, CleanBetweenTurns, LoadStackExact,
         HostFailureFaults, Idle, TypeOK
<1>4. TokensFresh' /\ ResumedAtMostOnce'
  BY <1>t DEF SessionInv, StartJob, bvars, TokensFresh, ResumedAtMostOnce, TypeOK,
         Issued, Ids, Tokens
<1> QED
  BY <1>1, <1>2, <1>3, <1>4 DEF SessionInv

LEMMA JobReturnsStep ==
    ASSUME SessionInv, NEW s \in Sessions, JobReturns(s)
    PROVE  SessionInv'
<1> USE SessionAssumption
<1>0. level[s] = depth /\ step[s] # "none"
  BY DEF JobReturns, Guest
<1>t. /\ state[s] = "Running"
      /\ depth \in Nat /\ depth > 0 /\ level[s] \in 1..depth
      /\ \A t \in Sessions : t # s => level[t] # depth
  BY <1>0, TopOfStack
<1>1. TypeOK'
  BY <1>t DEF SessionInv, JobReturns, Guest, bvars, TypeOK, States, Ids, LoadStackExact, Issued
<1>2. OneTurnAtATime'
  BY <1>t DEF SessionInv, JobReturns, Guest, bvars, OneTurnAtATime, TypeOK, Idle
<1>3. CleanBetweenTurns' /\ LoadStackExact' /\ HostFailureFaults' /\ Idle'
  BY <1>t DEF SessionInv, JobReturns, Guest, bvars, CleanBetweenTurns, LoadStackExact,
         HostFailureFaults, Idle, TypeOK
<1>4. TokensFresh' /\ ResumedAtMostOnce'
  BY <1>t DEF SessionInv, JobReturns, Guest, bvars, TokensFresh, ResumedAtMostOnce, TypeOK,
         Issued, Ids, Tokens
<1> QED
  BY <1>1, <1>2, <1>3, <1>4 DEF SessionInv

(* The two ways a turn leaves the stack. *)
LEMMA LeaveStep ==
    ASSUME SessionInv, NEW s \in Sessions,
           level[s] = depth, step[s] # "none", host[s] = "none",
           NEW next \in {"Available", "Faulted"},
           state' = [state EXCEPT ![s] = next],
           Leave(s), host' = host
    PROVE  OneTurnAtATime'
<1>t. /\ state[s] = "Running"
      /\ depth \in Nat /\ depth > 0 /\ level[s] \in 1..depth
      /\ \A t \in Sessions : t # s => level[t] # depth
  BY TopOfStack
<1>1. /\ level' \in [Sessions -> Nat]
      /\ level'[s] = 0
      /\ \A t \in Sessions : t # s => level'[t] = level[t]
  BY DEF Leave, SessionInv, TypeOK
<1>2. \A t \in Sessions : t # s => state'[t] = state[t]
  BY DEF SessionInv, TypeOK
<1>3. state'[s] # "Running"
  BY DEF SessionInv, TypeOK
<1>d. depth' = depth - 1 /\ \A t \in Sessions : level[t] \in Nat
  BY DEF Leave, SessionInv, TypeOK
<1>o. OneTurnAtATime
  BY DEF SessionInv
<1>4. \A t \in Sessions : state'[t] = "Running" <=> level'[t] \in 1..depth'
  BY <1>t, <1>1, <1>2, <1>3, <1>d, <1>o DEF OneTurnAtATime
<1>5. \A t \in Sessions : level'[t] \in 0..depth'
  BY <1>t, <1>1, <1>d, <1>o DEF OneTurnAtATime
<1>6. \A t \in Sessions : level'[t] \in 1..(depth' - 1) => host'[t] # "none"
  BY <1>t, <1>1, <1>d, <1>o DEF OneTurnAtATime
<1>7. \A t, u \in Sessions : level'[t] = level'[u] /\ level'[t] # 0 => t = u
  BY <1>1, <1>o DEF OneTurnAtATime
<1>8. \A d \in 1..depth' : \E t \in Sessions : level'[t] = d
  <2> SUFFICES ASSUME NEW d \in 1..depth'
               PROVE  \E t \in Sessions : level'[t] = d
    OBVIOUS
  <2>1. d \in 1..depth /\ d # depth
    BY <1>t, <1>d
  <2>2. PICK t \in Sessions : level[t] = d
    BY <2>1, <1>o DEF OneTurnAtATime
  <2> QED
    BY <2>1, <2>2, <1>1
<1> QED
  BY <1>4, <1>5, <1>6, <1>7, <1>8 DEF OneTurnAtATime

LEMMA FaultStep ==
    ASSUME SessionInv, NEW s \in Sessions,
           level[s] = depth, step[s] # "none", host[s] = "none", loading[s] = 0,
           Fault(s),
           jobs' \in [Sessions -> 0..MaxJobs],
           \A t \in Sessions : t # s => jobs'[t] = jobs[t],
           UNCHANGED <<next_id, load_stack, host, loading, runs, raised>>
    PROVE  SessionInv'
<1> USE SessionAssumption
<1>t. state[s] = "Running"
  BY TopOfStack
<1>d. depth \in Nat /\ depth > 0
  BY TopOfStack
<1>1. TypeOK'
  <2>1. /\ state' \in [Sessions -> States]
        /\ failure' \in [Sessions -> BOOLEAN]
        /\ callbacks' \in [Sessions -> SUBSET Ids]
    BY DEF SessionInv, Fault, TypeOK, States
  <2>2. /\ depth' \in Nat
        /\ level' \in [Sessions -> Nat]
        /\ step' \in [Sessions -> {"none", "action", "checkpoint", "job"}]
    BY <1>d DEF SessionInv, Fault, Leave, TypeOK
  <2> QED
    BY <2>1, <2>2 DEF SessionInv, TypeOK
<1>2. OneTurnAtATime'
  BY LeaveStep DEF Fault
<1>3. LoadStackExact' /\ HostFailureFaults'
  BY <1>t DEF SessionInv, Fault, Leave, LoadStackExact, HostFailureFaults, TypeOK
<1>4. CleanBetweenTurns' /\ Idle'
  BY <1>t DEF SessionInv, Fault, Leave, CleanBetweenTurns, Idle, TypeOK
<1>5. TokensFresh' /\ ResumedAtMostOnce'
  BY <1>t DEF SessionInv, Fault, Leave, TokensFresh, ResumedAtMostOnce, TypeOK,
              Issued, Ids, Tokens
<1> QED
  BY <1>1, <1>2, <1>3, <1>4, <1>5 DEF SessionInv

LEMMA EndActionStep ==
    ASSUME SessionInv, NEW s \in Sessions,
           NEW integrity \in {"Reusable", "Discard"}, EndAction(s, integrity)
    PROVE  SessionInv'
<1> USE SessionAssumption
<1>0. /\ level[s] = depth /\ step[s] = "action"
      /\ host[s] = "none" /\ loading[s] = 0
  BY DEF EndAction, Guest
<1>t. state[s] = "Running"
  BY <1>0, TopOfStack
<1>a. CASE failure[s] \/ integrity = "Discard"
  <2>1. Fault(s) /\ jobs' = jobs
        /\ UNCHANGED <<next_id, load_stack, host, loading, runs, raised>>
    BY <1>a DEF EndAction
  <2>2. jobs' \in [Sessions -> 0..MaxJobs]
    BY <2>1 DEF SessionInv, TypeOK
  <2> QED
    BY <1>0, <2>1, <2>2, FaultStep
<1>b. CASE ~(failure[s] \/ integrity = "Discard")
  <2>1. /\ step' = [step EXCEPT ![s] = "checkpoint"]
        /\ UNCHANGED <<state, bvars, jobs, host, loading, depth, level, runs,
                       raised>>
    BY <1>b DEF EndAction, bvars
  <2>2. TypeOK' /\ OneTurnAtATime'
    BY <2>1 DEF SessionInv, TypeOK, OneTurnAtATime, bvars
  <2>3. CleanBetweenTurns' /\ LoadStackExact' /\ HostFailureFaults' /\ Idle'
    BY <1>0, <1>t, <2>1 DEF SessionInv, CleanBetweenTurns, LoadStackExact,
       HostFailureFaults, Idle, TypeOK, bvars
  <2>4. TokensFresh' /\ ResumedAtMostOnce'
    BY <2>1 DEF SessionInv, TokensFresh, ResumedAtMostOnce, Issued, bvars
  <2> QED
    BY <2>2, <2>3, <2>4 DEF SessionInv
<1> QED
  BY <1>a, <1>b

LEMMA JobThrowsStep ==
    ASSUME SessionInv, NEW s \in Sessions, JobThrows(s)
    PROVE  SessionInv'
<1>1. /\ level[s] = depth /\ step[s] = "job"
      /\ host[s] = "none" /\ loading[s] = 0
      /\ Fault(s) /\ jobs' = jobs
      /\ UNCHANGED <<next_id, load_stack, host, loading, runs, raised>>
  BY DEF JobThrows, Guest
<1>2. jobs' \in [Sessions -> 0..MaxJobs]
  BY <1>1 DEF SessionInv, TypeOK
<1> QED
  BY <1>1, <1>2, FaultStep

LEMMA EndTurnStep ==
    ASSUME SessionInv, NEW s \in Sessions, EndTurn(s)
    PROVE  SessionInv'
<1> USE SessionAssumption
<1>0. /\ level[s] = depth /\ step[s] = "checkpoint" /\ jobs[s] = 0
      /\ UNCHANGED <<next_id, load_stack, jobs, host, loading, runs, raised>>
  BY DEF EndTurn
<1>t. state[s] = "Running"
  BY <1>0, TopOfStack
<1>d. depth \in Nat /\ depth > 0
  BY <1>0, TopOfStack
<1>n. host[s] = "none" /\ loading[s] = 0
  BY <1>0 DEF SessionInv, Idle
<1>a. CASE failure[s]
  <2>1. Fault(s)
    BY <1>a DEF EndTurn
  <2>2. jobs' \in [Sessions -> 0..MaxJobs]
    BY <1>0 DEF SessionInv, TypeOK
  <2> QED
    BY <1>0, <1>n, <2>1, <2>2, FaultStep
<1>b. CASE ~failure[s]
  <2>1. /\ state' = [state EXCEPT ![s] = "Available"]
        /\ Leave(s)
        /\ UNCHANGED <<failure, callbacks>>
    BY <1>b DEF EndTurn
  <2>2. TypeOK'
    BY <1>0, <1>d, <2>1 DEF SessionInv, Leave, TypeOK, States
  <2>3. OneTurnAtATime'
    BY <1>0, <1>n, <2>1, LeaveStep
  <2>4. LoadStackExact' /\ HostFailureFaults'
    BY <1>0, <1>t, <1>b, <2>1 DEF SessionInv, Leave, LoadStackExact,
       HostFailureFaults, TypeOK
  <2>5. CleanBetweenTurns' /\ Idle'
    BY <1>0, <1>n, <1>t, <1>b, <2>1 DEF SessionInv, Leave, CleanBetweenTurns,
       LoadStackExact, Idle, TypeOK
  <2>6. TokensFresh' /\ ResumedAtMostOnce'
    BY <1>0, <1>t, <2>1 DEF SessionInv, TokensFresh, ResumedAtMostOnce, TypeOK,
       Issued
  <2> QED
    BY <2>2, <2>3, <2>4, <2>5, <2>6 DEF SessionInv
<1> QED
  BY <1>a, <1>b

(* The inductive invariant holds of every reachable state. *)
THEOREM SessionInvariant == Spec => []SessionInv
<1>1. Init => SessionInv
  BY SessionInit
<1>2. SessionInv /\ [Next]_vars => SessionInv'
  <2> SUFFICES ASSUME SessionInv, [Next]_vars PROVE SessionInv'
    OBVIOUS
  <2>u. CASE UNCHANGED vars
    BY <2>u DEF SessionInv, TypeOK, OneTurnAtATime, CleanBetweenTurns,
       LoadStackExact, HostFailureFaults, Idle, TokensFresh, ResumedAtMostOnce,
       vars, bvars, Issued
  <2>n. ASSUME NEW s \in Sessions, HostNext(s) \/ GuestNext(s) \/ TurnNext(s)
        PROVE  SessionInv'
    <3>1. CASE HostNext(s)
      BY <3>1, <2>u, BeginTurnStep, ResumeScheduledTurnStep, CloseStep,
         HostReturnsStep, ResolverReturnsScriptStep, HostRaisesStep
         DEF HostNext, Refuse
    <3>2. CASE GuestNext(s)
      BY <3>2, QueueJobStep, ClearTimeoutStep, BeginScheduleStep,
         ScheduleExhaustedStep, CallHostStep, BeginResolveStep, EndLoadStep
         DEF GuestNext
    <3>3. CASE TurnNext(s)
      BY <3>3, EndActionStep, StartJobStep, JobReturnsStep, JobThrowsStep,
         EndTurnStep DEF TurnNext
    <3> QED
      BY <2>n, <3>1, <3>2, <3>3
  <2> QED
    BY <2>u, <2>n DEF Next
<1> QED
  BY <1>1, <1>2, PTL DEF Spec

(* A Session is never re-entered, however deep host bindings nest turns. *)
THEOREM SessionsNotReentered == Spec => []OneTurnAtATime
<1>1. SessionInv => OneTurnAtATime
  BY DEF SessionInv
<1> QED
  BY <1>1, SessionInvariant, PTL

(* Nothing of a turn leaks into the next one. *)
THEOREM TurnsAreClean == Spec => []CleanBetweenTurns
<1>1. SessionInv => CleanBetweenTurns
  BY DEF SessionInv
<1> QED
  BY <1>1, SessionInvariant, PTL

(* A raising host binding faults its Session. *)
THEOREM HostFailuresAreNotLost == Spec => []HostFailureFaults
<1>1. SessionInv => HostFailureFaults
  BY DEF SessionInv
<1> QED
  BY <1>1, SessionInvariant, PTL

(* No scheduled callback is entered twice. *)
THEOREM OneShotCallbacks == Spec => []ResumedAtMostOnce
<1>1. SessionInv => ResumedAtMostOnce
  BY DEF SessionInv
<1> QED
  BY <1>1, SessionInvariant, PTL

(* What a step says of a Session that had faulted or been closed. *)
LEMMA FinalStep ==
    ASSUME SessionInv, [Next]_vars, NEW s \in Sessions,
           state[s] \in {"Faulted", "Closed"}
    PROVE  /\ state[s]' \in {"Faulted", "Closed"}
           /\ callbacks[s]' = {}
           /\ jobs[s]' = jobs[s]
<1> DEFINE Final == /\ state[s]' \in {"Faulted", "Closed"}
                    /\ callbacks[s]' = {}
                    /\ jobs[s]' = jobs[s]
<1>e. callbacks[s] = {} /\ step[s] = "none" /\ host[s] = "none"
  BY DEF SessionInv, TokensFresh, Idle
<1>u. CASE UNCHANGED vars
  BY <1>u, <1>e DEF vars, bvars
<1>n. ASSUME NEW t \in Sessions, HostNext(t) \/ GuestNext(t) \/ TurnNext(t)
      PROVE  Final
  <2>1. CASE HostNext(t)
    <3>1. CASE BeginTurn(t) \/ \E owner \in Sessions, id \in Ids :
                                   ResumeScheduledTurn(t, owner, id)
      BY <3>1, <1>e DEF BeginTurn, ResumeScheduledTurn, Enter, SessionInv, TypeOK,
                        bvars
    <3>2. CASE Refuse(t)
      BY <3>2, <1>u DEF Refuse
    <3>3. CASE Close(t)
      BY <3>3, <1>e DEF Close, SessionInv, TypeOK
    <3>4. CASE HostReturns(t) \/ ResolverReturnsScript(t) \/ HostRaises(t)
      BY <3>4, <1>e DEF HostReturns, ResolverReturnsScript, HostRaises, InHost,
                        SessionInv, TypeOK, bvars
    <3> QED
      BY <2>1, <3>1, <3>2, <3>3, <3>4 DEF HostNext
  <2>2. CASE GuestNext(t)
    <3>1. t # s
      BY <2>2, <1>e DEF GuestNext, QueueJob, ClearTimeout, BeginSchedule,
                        ScheduleExhausted, CallHost, BeginResolve, EndLoad, Guest
    <3> QED
      BY <2>2, <1>e, <3>1 DEF GuestNext, QueueJob, ClearTimeout, BeginSchedule,
         ScheduleExhausted, CallHost, BeginResolve, EndLoad, SessionInv, TypeOK,
         bvars
  <2>3. CASE TurnNext(t)
    <3>1. t # s
      BY <2>3, <1>e DEF TurnNext, EndAction, StartJob, JobReturns, JobThrows,
                        EndTurn, Guest
    <3> QED
      BY <2>3, <1>e, <3>1 DEF TurnNext, EndAction, StartJob, JobReturns, JobThrows,
         EndTurn, Fault, SessionInv, TypeOK, bvars
  <2> QED
    BY <1>n, <2>1, <2>2, <2>3
<1> QED
  BY <1>u, <1>n DEF Next

(* A faulted or closed Session never runs guest code again. *)
THEOREM FaultsAreFinal == Spec => FaultIsFinal
<1>1. SessionInv /\ [Next]_vars =>
        [ \A s \in Sessions : state[s] \in {"Faulted", "Closed"} =>
             /\ state[s]' \in {"Faulted", "Closed"}
             /\ callbacks[s]' = {}
             /\ jobs[s]' = jobs[s] ]_vars
  BY FinalStep
<1> QED
  BY <1>1, SessionInvariant, PTL DEF Spec, FaultIsFinal

(* Why a callback leaves the map of its Session. *)
Accounted(s, id) ==
    \/ runs[<<s, id>>]' = runs[<<s, id>>] + 1
    \/ Guest(s) /\ UNCHANGED state
    \/ host[s] = "scheduler" /\ failure[s]'
    \/ state[s]' \in {"Faulted", "Closed"}

LEMMA CallbackLeaves ==
    ASSUME SessionInv, [Next]_vars, NEW s \in Sessions,
           NEW id \in callbacks[s] \ callbacks[s]'
    PROVE  Accounted(s, id)
<1>0. /\ state \in [Sessions -> States] /\ callbacks \in [Sessions -> SUBSET Ids]
      /\ failure \in [Sessions -> BOOLEAN] /\ runs \in [Tokens -> Nat]
      /\ id \in Ids /\ <<s, id>> \in Tokens
  BY DEF SessionInv, TypeOK, Tokens
<1>1. callbacks' # callbacks
  OBVIOUS
<1>2. ASSUME NEW t \in Sessions, NEW owner \in Sessions, NEW k \in Ids,
             ResumeScheduledTurn(t, owner, k)
      PROVE  Accounted(s, id)
  <2>1. t = s /\ k = id /\ owner = s
    BY <1>0, <1>2 DEF ResumeScheduledTurn
  <2> QED
    BY <1>0, <1>2, <2>1 DEF ResumeScheduledTurn, Accounted
<1>3. ASSUME NEW t \in Sessions, Close(t)
      PROVE  Accounted(s, id)
  BY <1>0, <1>3 DEF Close, Accounted
<1>4. ASSUME NEW t \in Sessions, NEW k \in Ids, ClearTimeout(t, k)
      PROVE  Accounted(s, id)
  BY <1>0, <1>4 DEF ClearTimeout, Accounted
<1>5. ASSUME NEW t \in Sessions, HostRaises(t)
      PROVE  Accounted(s, id)
  <2>1. host[t] = "scheduler" /\ t = s
    BY <1>0, <1>1, <1>5 DEF HostRaises
  <2> QED
    BY <1>0, <1>5, <2>1 DEF HostRaises, Accounted
<1>6. ASSUME NEW t \in Sessions, Fault(t)
      PROVE  Accounted(s, id)
  BY <1>0, <1>6 DEF Fault, Accounted
<1>7. ASSUME NEW t \in Sessions, BeginSchedule(t)
      PROVE  FALSE
  BY <1>0, <1>7 DEF BeginSchedule
<1>8. ASSUME NEW t \in Sessions, HostNext(t)
      PROVE  Accounted(s, id)
  BY <1>1, <1>2, <1>3, <1>5, <1>8
     DEF HostNext, BeginTurn, Refuse, HostReturns, ResolverReturnsScript, bvars, vars
<1>9. ASSUME NEW t \in Sessions, GuestNext(t)
      PROVE  Accounted(s, id)
  BY <1>1, <1>4, <1>7, <1>9
     DEF GuestNext, QueueJob, ScheduleExhausted, CallHost, BeginResolve, EndLoad, bvars
<1>10. ASSUME NEW t \in Sessions, TurnNext(t)
       PROVE  Accounted(s, id)
  BY <1>1, <1>6, <1>10
     DEF TurnNext, EndAction, StartJob, JobReturns, JobThrows, EndTurn, bvars
<1> QED
  BY <1>1, <1>8, <1>9, <1>10 DEF Next, vars, bvars

(* A scheduled callback leaves the map only when it is entered with its own *)
(* token, cleared by its own guest, refused by a raising scheduler, or      *)
(* withdrawn with its Session: no other Session's use of tokens consumes it.*)
THEOREM CallbacksAreNotLost == Spec => CallbackNotLost
<1>1. SessionInv /\ [Next]_vars =>
        [ \A s \in Sessions : \A id \in callbacks[s] \ callbacks[s]' :
             \/ runs[<<s, id>>]' = runs[<<s, id>>] + 1
             \/ Guest(s) /\ UNCHANGED state
             \/ host[s] = "scheduler" /\ failure[s]'
             \/ state[s]' \in {"Faulted", "Closed"} ]_vars
  BY CallbackLeaves DEF Accounted
<1> QED
  BY <1>1, SessionInvariant, PTL DEF Spec, CallbackNotLost

(* The steps of the promised tokens, seen through the refinement mapping. *)
LEMMA WithdrawOrStutter ==
    ASSUME UNCHANGED <<next_id, runs>>,
           \A s \in Sessions : callbacks[s]' \subseteq callbacks[s]
    PROVE  [Promised!Next]_Promised!vars
BY DEF Promised!Next, Promised!Withdraw, Promised!vars, Tokens, Issued

LEMMA ResumeRuns ==
    ASSUME SessionInv, NEW s \in Sessions, NEW owner \in Sessions, NEW id \in Ids,
           ResumeScheduledTurn(s, owner, id)
    PROVE  [Promised!Next]_Promised!vars
<1>1. <<s, id>> \in Tokens /\ owner = s /\ id \in callbacks[s]
  BY DEF Tokens, ResumeScheduledTurn
<1>2. {t \in Tokens : t[2] \in callbacks[t[1]]'}
        = {t \in Tokens : t[2] \in callbacks[t[1]]} \ {<<s, id>>}
  BY <1>1 DEF ResumeScheduledTurn, SessionInv, TypeOK, Tokens
<1>3. Promised!Run(<<s, id>>)
  BY <1>1, <1>2 DEF Promised!Run, ResumeScheduledTurn, Issued, Tokens
<1> QED
  BY <1>1, <1>3 DEF Promised!Next

LEMMA ScheduleIssues ==
    ASSUME SessionInv, NEW s \in Sessions, BeginSchedule(s)
    PROVE  [Promised!Next]_Promised!vars
<1> USE SessionAssumption
<1> DEFINE new == <<s, next_id[s]>>
<1>0. next_id[s] \in Ids /\ next_id' = [next_id EXCEPT ![s] = next_id[s] + 1]
  BY DEF SessionInv, TypeOK, BeginSchedule
<1>1. new \in Tokens
  BY <1>0 DEF Tokens
<1>2. {t \in Tokens : t[2] \in Issued(t[1])'}
        = {t \in Tokens : t[2] \in Issued(t[1])} \union {new}
  BY <1>0, <1>1 DEF SessionInv, TypeOK, Tokens, Issued, Ids
<1>3. {t \in Tokens : t[2] \in callbacks[t[1]]'}
        = {t \in Tokens : t[2] \in callbacks[t[1]]} \union {new}
  BY <1>1 DEF BeginSchedule, SessionInv, TypeOK, Tokens
<1>4. new \notin {t \in Tokens : t[2] \in Issued(t[1])}
  BY <1>0 DEF Issued, Ids
<1>5. PICK t \in Tokens : t = new
  BY <1>1
<1>6. Promised!Issue(t)
  BY <1>2, <1>3, <1>4, <1>5 DEF Promised!Issue, BeginSchedule
<1> QED
  BY <1>6 DEF Promised!Next

(* The callback map implements the one-shot tokens the host is promised. *)
THEOREM SessionsImplementTokens == Spec => ImplementsScheduledTurns
<1>1. Init => Promised!Init
  BY SessionAssumption DEF Init, Promised!Init, Tokens, Ids, Issued
<1>2. SessionInv /\ [Next]_vars => [Promised!Next]_Promised!vars
  <2> SUFFICES ASSUME SessionInv, [Next]_vars
               PROVE  [Promised!Next]_Promised!vars
    OBVIOUS
  <2>t. TypeOK
    BY DEF SessionInv
  <2>u. CASE UNCHANGED vars
    BY <2>u, WithdrawOrStutter DEF vars, bvars
  <2>n. ASSUME NEW s \in Sessions, HostNext(s) \/ GuestNext(s) \/ TurnNext(s)
        PROVE  [Promised!Next]_Promised!vars
    <3>1. CASE \E owner \in Sessions, id \in Ids : ResumeScheduledTurn(s, owner, id)
      BY <3>1, ResumeRuns
    <3>2. CASE BeginSchedule(s)
      BY <3>2, ScheduleIssues
    <3>3. CASE Refuse(s)
      BY <3>3, <2>u DEF Refuse
    <3>4. CASE BeginTurn(s) \/ Close(s) \/ HostReturns(s)
                 \/ ResolverReturnsScript(s) \/ HostRaises(s)
      <4>1. /\ UNCHANGED <<next_id, runs>>
            /\ \A t \in Sessions : callbacks[t]' \subseteq callbacks[t]
        BY <3>4, <2>t DEF BeginTurn, Close, HostReturns, ResolverReturnsScript,
           HostRaises, TypeOK, bvars
      <4> QED
        BY <4>1, WithdrawOrStutter
    <3>5. CASE GuestNext(s) /\ ~BeginSchedule(s)
      <4>1. /\ UNCHANGED <<next_id, runs>>
            /\ \A t \in Sessions : callbacks[t]' \subseteq callbacks[t]
        BY <3>5, <2>t DEF GuestNext, QueueJob, ClearTimeout, ScheduleExhausted,
           CallHost, BeginResolve, EndLoad, TypeOK, bvars
      <4> QED
        BY <4>1, WithdrawOrStutter
    <3>6. CASE TurnNext(s)
      <4>1. /\ UNCHANGED <<next_id, runs>>
            /\ \A t \in Sessions : callbacks[t]' \subseteq callbacks[t]
        BY <3>6, <2>t DEF TurnNext, EndAction, StartJob, JobReturns, JobThrows,
           EndTurn, Fault, TypeOK, bvars
      <4> QED
        BY <4>1, WithdrawOrStutter
    <3> QED
      BY <2>n, <3>1, <3>2, <3>3, <3>4, <3>5, <3>6 DEF HostNext
  <2> QED
    BY <2>u, <2>n DEF Next
<1> QED
  BY <1>1, <1>2, SessionInvariant, PTL
     DEF Spec, ImplementsScheduledTurns, Promised!Spec

(* The native stack is never deeper than there are Sessions: each place on  *)
(* it is held by a Session of its own, so re-entry through other Sessions   *)
(* ends, whatever the host calls from its bindings.                         *)
THEOREM NativeStackBounded ==
    IsFiniteSet(Sessions) => (Spec => [](depth <= Cardinality(Sessions)))
<1>1. ASSUME IsFiniteSet(Sessions), SessionInv
      PROVE  depth <= Cardinality(Sessions)
  <2>1. depth \in Nat
    BY <1>1 DEF SessionInv, TypeOK
  <2>2. \A d \in 1..depth : \E s \in Sessions : level[s] = d
    BY <1>1 DEF SessionInv, OneTurnAtATime
  <2> DEFINE f == [d \in 1..depth |-> CHOOSE s \in Sessions : level[s] = d]
  <2>3. \A d \in 1..depth : f[d] \in Sessions /\ level[f[d]] = d
    BY <2>2
  <2>4. f \in Injection(1..depth, Sessions)
    <3>1. f \in [1..depth -> Sessions]
      BY <2>3
    <3>2. \A c, d \in 1..depth : f[c] = f[d] => c = d
      BY <2>3
    <3> HIDE DEF f
    <3> QED
      BY <3>1, <3>2 DEF Injection, IsInjective
  <2>5. Cardinality(1..depth) <= Cardinality(Sessions)
    <3> HIDE DEF f
    <3> QED
      BY <1>1, <2>4, FS_Injection
  <2>6. Cardinality(1..depth) = IF 1 > depth THEN 0 ELSE depth - 1 + 1
    BY <2>1, FS_Interval
  <2> QED
    BY <2>1, <2>5, <2>6
<1> SUFFICES ASSUME IsFiniteSet(Sessions)
             PROVE  Spec => [](depth <= Cardinality(Sessions))
  OBVIOUS
<1>2. SessionInv => depth <= Cardinality(Sessions)
  BY <1>1
<1> QED
  BY <1>2, SessionInvariant, PTL
=============================================================================
