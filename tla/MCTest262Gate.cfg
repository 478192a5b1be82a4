SPECIFICATION Spec
CONSTANTS
    Modes <- MCModes
    Suite <- MCSuite
    PartialSuite <- MCPartialSuite
    ShardTotal = 2
    Outcomes = {"pass", "fail", "skip"}
    Roots = {"test262/test/", ""}
    PassedMin <- MCPassedMin
    CombinedMin = 1
INVARIANT
    BaselineComplete
PROPERTY
    Ratchet
