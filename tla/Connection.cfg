SPECIFICATION FairSpec
CONSTANTS
    Bytes <- MCBytes
    Switching <- MCSwitching
    HttpErr <- MCHttpErr
    CloseFrm <- MCCloseFrm
    Pong <- MCPong
    Dirty <- MCDirty
    Thld = 3
    MaxLog = 6
INVARIANTS
    TypeOK
    NothingLost
    ThrottleLimits
    EffectsCovered
PROPERTIES
    FlushedBeforeWriteClose
    ImplementsStream
    DeferredCloseEnds
\* the connection ends: it is closed and freed
CHECK_DEADLOCK FALSE
