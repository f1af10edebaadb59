CONSTANTS
    TableCount = 3
    Entries = 2
    MaxAdvances = 2
    NoTable = NoTable
SPECIFICATION FairSpec
INVARIANTS LedgerAgrees QueueIsIncompleteTables
PROPERTIES NoOvertaking RoundCompletes
\* The schedule stops when every table is complete and the radius cannot grow.
CHECK_DEADLOCK FALSE
