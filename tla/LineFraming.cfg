\* Every way the bytes of three lines are cut into pieces of three.
SPECIFICATION FramingFairSpec
CONSTANTS
    Bytes <- MCBytes
    Inputs <- MCInputs
    Requests <- MCRequests
    Garbage <- MCGarbage
    Unloadable <- MCUnloadable
    ChunkSize = 3
INVARIANTS
    FramingTypeOK
    PairedByOrder
    FramingInv
PROPERTIES
    RequestsInOrder
    EveryLineAnswered
CHECK_DEADLOCK FALSE
