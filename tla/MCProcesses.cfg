SPECIFICATION Spec
CONSTANTS
    p1 = p1
    p2 = p2
    p3 = p3
    p4 = p4
    m1 = m1
    m2 = m2
    NULL = NULL
    Proc <- MCProc3
    UserSem <- MCSem1
    NUNIT = 2
    NTERM = 1
    NCTX = 1
    Entry <- Start0
    MaxSem = 1
    MaxSoft = 3
    IoDevs <- DiskAndReceive
    Calls <- ProcessCalls
SYMMETRY Symmetry3
INVARIANTS
    TypeOK
    OnePlace
    CountIsLive
    SemaphoreCountsWaiters
    PanicIsDeadlock
    NoOrphan
    RequestsBalance
PROPERTIES
    OnlyCompletionWakes
    ClockReleasesAll
