CONSTANTS
    p1 = p1
    p2 = p2
    p3 = p3
    Procs = {p1, p2, p3}
    InitProc = p1
    Blocks = {b1, b2}
    Values = {0, 1}
    Absent = Absent
    Torn = Torn
    MAXOPBLOCKS = 2
    LOGSIZE = 4
    Size = 3
SPECIFICATION Spec
SYMMETRY Symmetry
INVARIANTS
    SpaceReserved
    NoLostWakeup
    DurableAtReturn
PROPERTY Implements
