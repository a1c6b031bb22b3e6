CONSTANTS
    NPROC = 8
    Loads <- ShapesAndTies
    MaxRuntime = 8
    MaxDrift = 164
SPECIFICATION Spec
INVARIANTS
    RedBlack
    NeverStuck
PROPERTY
    Refines
