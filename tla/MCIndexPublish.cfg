CONSTANTS
    Builder = {b1, b2}
    Reader = {r1}
    Name = {n1, n2}
    Layout = {tree, array}
    Chunks = 2
    MaxCrashes = 1
    NoFile = NoFile
SPECIFICATION Spec
INVARIANTS PathLeadsToWholeIndex OpenedIndexIsWhole SuccessIsDurable TemporaryIsRemoved
PROPERTIES NeverClobbered
