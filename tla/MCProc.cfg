SPECIFICATION Spec
CONSTANTS
    NPROC = 3
    Cpus = {c1, c2}
    BootCpu = c1
    Killable = {2}
    Sleepers = {2}
    MaxSleep = 1
INVARIANTS
    OneCpuPerProcess
    RunnableNotLost
    NoLostExit
    NoLostTick
    ParentAlive
    SchedInv
