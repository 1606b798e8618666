SPECIFICATION Spec
CONSTANTS
    p1 = p1
    p2 = p2
    p3 = p3
    p4 = p4
    m1 = m1
    m2 = m2
    NULL = NULL
    Proc <- MCProc2
    UserSem <- MCSem1
    NUNIT = 1
    NTERM = 0
    NCTX = 3
    Entry <- Start0
    MaxSem = 1
    MaxSoft = 3
    IoDevs <- Dev1
    Calls <- ContextCalls
SYMMETRY Symmetry2
INVARIANTS
    SemaphoreCountsWaiters
PROPERTIES
    ContextKept
