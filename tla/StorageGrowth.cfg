SPECIFICATION Spec
CONSTANTS
    EventLen = {13, 22, 128}
    DefaultBlockSize = 128
    InitialCapacity = 4
    MaxPushed = 9
INVARIANTS
    StorageTypeOK
    EventsAreContiguous
    AssertionHolds
