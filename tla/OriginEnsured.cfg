SPECIFICATION Spec
CONSTANTS
    MaxOptions = 1
    MaxHead = 20
    Requests <- MCRequests
INVARIANT OriginEnsured
CHECK_DEADLOCK FALSE
