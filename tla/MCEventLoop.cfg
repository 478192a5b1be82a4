SPECIFICATION Spec
CONSTANTS
    MaxJobs = 2
    MaxTimers = 2
    MaxTimerRuns = 2
    SafetyLimit = 3
    IntMax = 2147483647
    Delays <- MCDelays
INVARIANTS
    TimersDistinct
    DrainedBetweenTimers
PROPERTIES
    CancellationExact
    TimerFifo
    RequeueAfterCheckpoint
