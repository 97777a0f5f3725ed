SPECIFICATION Spec
CONSTANTS
    Routes = {"a", "b"}
    FirstFrame = 1
    MaxFrames = 2
    MaxWire = 1
    MaxRequests = 1
    MaxEvents = 1
    BufferSize = 1
    BufferSizes = {2}
INVARIANTS
    TypeOK
    AcceptedInOrder
    NewestQueued
    OwnStatics
PROPERTIES
    FilterWritten
    DisconnectEnds
CHECK_DEADLOCK FALSE
