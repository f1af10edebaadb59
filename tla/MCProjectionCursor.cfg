CONSTANTS
    EntryCount = 4
    RegionCapacity = 2
    ValueRange <- MCValues
    Bounds <- MCBounds
    Quanta <- MCQuanta
SPECIFICATION Spec
INVARIANTS DeliveredOnceInWindow WindowReportIsExact
