CONSTANTS
    Pcb = {p1, p2}
    NULL = NULL
    HALF = 4
    SCALE = 1
    MaxTime = 9
SPECIFICATION Spec
SYMMETRY Symmetry
INVARIANTS
    TypeOK
    TimeAccounted
PROPERTIES
    NoMoreThanRealTime
