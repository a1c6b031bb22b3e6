SPECIFICATION Spec
CONSTANTS
    p1 = p1
    p2 = p2
    Readers = {p1}
    Writers = {p2}
    INPUT_BUF_SIZE = 2
    UART_TX_BUF_SIZE = 1
    UINT = 4
    FIFO = 2
    RX = 1
    MaxCount = 2
INVARIANTS
    NeverWedged
    SleepsForReason
    
    OutputPending
