CONSTANTS
    Procs = {p1, p2}
    Blocks = {k1, k2, k3}
    Values = {0, 1}
    None = None
    NBUF = 2
SPECIFICATION FairSpec
CHECK_DEADLOCK FALSE
INVARIANTS
    KeepsBlock
PROPERTIES
    IsStore
    Woken
