CONSTANTS
    NPROC = 4
    Cpus = {1, 2}
    Tasks = {1, 2, 3}
    Nice <- MixedNice
    MaxLag = 60
SPECIFICATION FairSpec
INVARIANTS
    FairShare
    BoundedWait
PROPERTY
    NoStarvation
