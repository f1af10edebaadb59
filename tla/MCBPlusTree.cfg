CONSTANTS
    LeafCapacity = 2
    InternalCapacity = 3
    Inputs <- MCInputs
    ValueRange = {0, 1, 2}
    MaxDamages = 2
    DamagedPages = 4
    EntryCount = 7
    Bounds = {0, 1}
    Quanta = {1, 3, 4, 8}
SPECIFICATION Spec
INVARIANTS BuiltIndexIsAccepted OpenIndexIsSearchable
PROPERTIES ImplementsProjectionCursor
\* Build failed, or the index was rejected or is not one that is followed.
CHECK_DEADLOCK FALSE
