SPECIFICATION Spec
CONSTANTS
    p1 = p1
    p2 = p2
    p3 = p3
    p4 = p4
    m1 = m1
    m2 = m2
    NULL = NULL
    Proc <- MCProc3
    UserSem <- MCSem1
    NUNIT = 0
    NTERM = 0
    NCTX = 1
    Entry <- Start0
    MaxSem = 1
    MaxSoft = 3
    IoDevs <- None
    Calls <- KillCalls
SYMMETRY Symmetry3
INVARIANTS
    FreedIsUnlinked
