CONSTANTS
    TableCount = 4
    Requested = 3
    NoTable = NoTable
SPECIFICATION FairSortSpec
INVARIANTS SortedByOneWorker ConsumedOnlyWhenSorted
PROPERTIES SortingEnds
\* SortTables returns.
CHECK_DEADLOCK FALSE
