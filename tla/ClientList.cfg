SPECIFICATION FairSpec
CONSTANTS
    n1 = n1
    n2 = n2
    n3 = n3
    c1 = c1
    c2 = c2
    c3 = c3
    NULL = NULL
    Nodes <- ThreeNodes
    Clients <- ThreeClients
    Slow <- OneClient
INVARIANTS
    TypeOK
    CrashCause
    CleanStop
PROPERTIES
    ImplementsClientSet
    WalkEnds
