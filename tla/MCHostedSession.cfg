SPECIFICATION Spec
CONSTANTS
    s1 = s1
    s2 = s2
    Sessions <- MCSessions
    MaxTurnId = 3
    MaxJobs = 1
    MaxLoads = 1
SYMMETRY Symmetry
INVARIANTS
    OneTurnAtATime
    CleanBetweenTurns
    HostFailureFaults
    ResumedAtMostOnce
PROPERTIES
    FaultIsFinal
    CallbackNotLost
    ImplementsScheduledTurns
