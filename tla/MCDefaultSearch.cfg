CONSTANTS
    EntryCount = 3
    RegionCapacity = 2
    TableCount = 2
    Problems <- MCProblems
    InitialRadius = 1
    RadiusGrowth = 2
    BucketWidth = 2
    MaxFloat = 4
    MaxAdvances = 3
    NoScan = NoScan
    NoCandidate = NoCandidate
    NoBudget = NoBudget
    Unset = Unset
\* A search ends.
CHECK_DEADLOCK FALSE
SPECIFICATION FairSpec
INVARIANTS CollisionsAreExact StepsAreProductive
PROPERTIES SearchFinishes ImplementsSchedule ImplementsSearch
