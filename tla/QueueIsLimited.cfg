SPECIFICATION Spec
CONSTANTS
    Bytes <- MCBytes
    Switching <- MCSwitching
    HttpErr <- MCHttpErr
    CloseFrm <- MCCloseFrm
    Pong <- MCPong
    Dirty <- MCDirty
    Thld = 3
    MaxLog = 6
INVARIANT
    QueueIsLimited
\* the connection ends: it is closed and freed
CHECK_DEADLOCK FALSE
