CONSTANTS
    Run = {r1, r2, r3}
    Commit = {c1, c2}
    NoRun = NoRun
    NoCommit = NoCommit
    PageSize = 1
    PageLimit = 3
    MaxOthers = 2
    MaxMeddling = 1
CHECK_DEADLOCK FALSE
SPECIFICATION Spec
SYMMETRY MCSymmetry
INVARIANTS ReleaseIsOfTaggedCommit SuccessIsPublished RetryReusesDraft
PROPERTIES OthersAreUntouched FailureHasACause
