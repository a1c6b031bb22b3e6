SPECIFICATION Spec
CONSTANTS
    NBLOCKS = 6
    NINODES = 3
    NDIRECT = 1
    BSIZE = 2
    FileSizes <- OneFile
    Procs = {p1, p2}
    p1 = p1
    p2 = p2
    NFILE = 2
    NOFILE = 1
    MAXOPBLOCKS = 6
    UINT = 64
    Counts <- SmallCounts
SYMMETRY Symmetry
INVARIANTS
    BlocksAccounted
    ReadsBack
