CONSTANTS
    EntryCount = 4
    RegionCapacity = 2
    ValueRange = {0, 1, 2}
    Bounds = {0, 1, 2}
SPECIFICATION Spec
INVARIANT BoundaryIsBackendIndependent
