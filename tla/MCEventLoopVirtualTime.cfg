SPECIFICATION Spec
CONSTANTS
    MaxJobs = 1
    MaxTimers = 2
    MaxTimerRuns = 1
    SafetyLimit = 3
    IntMax = 2147483647
    Delays <- MCDelays
PROPERTIES
    FireAtIsAbsolute
