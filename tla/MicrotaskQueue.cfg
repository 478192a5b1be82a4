SPECIFICATION FairMSpec
CONSTANTS
    MaxJobs = 5
INVARIANTS
    StartedOnceInOrder
    UnstartedRetained
PROPERTIES
    ImplementsJobQueue
    EveryJobStarts
