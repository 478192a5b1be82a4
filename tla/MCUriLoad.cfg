SPECIFICATION Spec
CONSTANTS
    MODES <- MCModes
    URI_CASES <- MCCases
    Repeats = 1
    Options <- MCOptions
    Statuses = {"pass", "fail", "timeout"}
    VerifyLimit = 30
    ISOLATED_WORKERS = 1
    LOAD_WORKERS = 4
INVARIANTS
    ConclusionOnEvidence
    OuterTimeoutOnlyWhenStuck
CHECK_DEADLOCK FALSE
