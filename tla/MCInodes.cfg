CONSTANTS
    Procs = {p1, p2}
    ninodes = 4
    NINODE = 3
    Names = {"a", "b"}
    Calls <- SmallCalls
SPECIFICATION Spec
SYMMETRY Symmetry
INVARIANTS
    RefsCounted
    OneCopy
    NamesHold
    NoCircularWait
    NoPanic
