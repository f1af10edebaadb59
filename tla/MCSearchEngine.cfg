CONSTANTS
    EntryCount = 3
    RegionCapacity = 2
    TableCount = 2
    Problems <- MCProblems
    InitialRadius = 1
    RadiusGrowth = 2
    BucketWidth = 2
    MaxFloat = 4
    NoScan = NoScan
    NoCandidate = NoCandidate
SPECIFICATION EngineSpec
INVARIANTS NeighborsAreBestEvaluated SnapshotIsFresh LedgersMatchCursors ReasonIsHonest
\* A search ends.
CHECK_DEADLOCK FALSE
