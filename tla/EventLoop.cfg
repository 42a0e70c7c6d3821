SPECIFICATION FairSpec
CONSTANTS
    f1 = f1
    f2 = f2
    p1 = p1
    p2 = p2
    NoPid = NoPid
    Fds <- TwoFds
    Pids <- TwoPids
    MAX_WS_CLIENTS = 1
INVARIANTS
    TypeOK
    WalkIsLive
    Paired
PROPERTIES
    ImplementsPairing
    LaunchEnds
    ExitEnds
    ChildAccepted
