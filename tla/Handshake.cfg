SPECIFICATION FairSpec
CONSTANTS
    MaxOptions = 1
    MaxHead = 20
    Requests <- MCRequests
INVARIANTS
    TypeOK
    VerdictOfRequest
    OpenWithChild
    OptionsInForce
PROPERTIES
    HandshakeEnds
\* the server has exited, the handshake is over, or the client sends nothing more
CHECK_DEADLOCK FALSE
