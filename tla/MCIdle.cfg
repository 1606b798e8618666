SPECIFICATION Spec
CONSTANTS
    p1 = p1
    p2 = p2
    p3 = p3
    p4 = p4
    m1 = m1
    m2 = m2
    NULL = NULL
    Proc <- MCProc3
    UserSem <- None
    NUNIT = 1
    NTERM = 0
    NCTX = 1
    Entry <- Start0
    MaxSem = 1
    MaxSoft = 3
    IoDevs <- Dev1
    Calls <- IdleCalls
SYMMETRY Symmetry3
INVARIANTS
    WaitHasNoneReady
