CONSTANTS
    Procs = {p1, p2, p3}
    Killable = {p1, p2, p3}
    None = None
    NUM = 8
    UINT16 = 16
SPECIFICATION FairSpec
INVARIANTS
    DescsAccounted
    DoneMeansServed
PROPERTY Completes
