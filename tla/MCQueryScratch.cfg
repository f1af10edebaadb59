CONSTANTS
    Address = {a1, a2}
    Queries = {q1}
    MaxTables = 2
    PointCounts <- MCPointCounts
    MaxEpoch = 2
    Object <- MCObjects
    MaxDepth = 2
    NoAddress = NoAddress
    NoQuery = NoQuery
SPECIFICATION Spec
INVARIANTS ScratchIsExclusive SeenIsOwnWork CursorsBelongToSearch
SYMMETRY MCSymmetry
