CONSTANT MaxCount = 24
SPECIFICATION FairClampSpec
INVARIANTS FindsLongestPrefix ReadsWithinRange
PROPERTIES ClampReturns
\* The function returns.
CHECK_DEADLOCK FALSE
