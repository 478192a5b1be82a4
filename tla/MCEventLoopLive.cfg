SPECIFICATION FairSpec
CONSTANTS
    MaxJobs = 2
    MaxTimers = 2
    MaxTimerRuns = 1
    SafetyLimit = 4
    IntMax = 2147483647
    Delays <- MCDelays
PROPERTIES
    TimerCheckpointEnds
