CONSTANTS
    Proc = {p1, p2, p3, p4}
    Addr = {10, 20}
    NULL = 99
    MaxInUse <- QueuesAndTree
SYMMETRY PcbSymmetry
SPECIFICATION Spec
INVARIANTS
    TypeOK
    RingsDoublyLinked
    AslSound
    SiblingsLinked
    OneList
PROPERTY Implements
