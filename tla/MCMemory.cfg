CONSTANTS
    NPROC = 3
    NPAGES = 24
    PGSIZE = 2
    FANOUT = 3
    WORD = 64
    MAXARG = 2
    Increments <- SmallIncrements
    Programs <- SmallPrograms
SPECIFICATION Spec
INVARIANTS
    PagesAccounted
    SizeMapped
    NoPanic
