CONSTANTS
    NPROC = 4
    Loads <- OnlyTies
    MaxRuntime = 1
    MaxDrift = 164
SPECIFICATION Spec
INVARIANT
    WeightIsSum
