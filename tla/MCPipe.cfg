CONSTANTS
    Writers = {w1, w2}
    Readers = {r1}
    Killable = {r1}
    Nobody = Nobody
    Bytes = {0, 1}
    PIPESIZE = 2
    UINT = 4
    Lengths = {1, 3}
SPECIFICATION FairSpec
CHECK_DEADLOCK FALSE
INVARIANTS
    ReaderSleepsOnEmpty
    NoUseAfterFree
PROPERTIES
    IsFifo
    WriterWoken
