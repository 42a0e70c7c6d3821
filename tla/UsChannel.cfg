SPECIFICATION FairSpec
CONSTANTS
    MaxFrames = 2
    MaxRows = 2
    PipeLimit = 2
    MaxInputs = 2
    InputLimit = 2
    EventLimit = 1
INVARIANTS
    TypeOK
    HandledAsSent
    EventsWhole
    GesturesMakeSense
    NoCrash
PROPERTIES
    ServerReturns
    ExitSeen
\* the page leaves, or both ends wait for the other
CHECK_DEADLOCK FALSE
