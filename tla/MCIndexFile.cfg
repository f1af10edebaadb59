CONSTANTS
    Bits = 6
    HeaderBytes = 2
    RootBytes = 1
    CoordinateBytes = 1
    EntryBytes = 1
    PageHeaderBytes = 2
    ChildBytes = 1
    MinPage = 4
    MaxPage = 16
    PageUnit = 4
    MaxPoints = 7
    MaxDimensions = 3
    MaxTables = 3
    Configs <- MCConfigs
    ValueRange = {0, 1}
    MaxDamages = 2
CHECK_DEADLOCK FALSE
SPECIFICATION FileSpec
INVARIANTS BuiltFileIsAccepted ReadsStayInFile OpenTablesAreWhole
