SPECIFICATION Spec
CONSTANTS
    EventLen = {13, 22, 273}
    DefaultBlockSize = 128
    InitialCapacity = 4
    MaxPushed = 9
INVARIANT AssertionHolds
