------------------------------- MODULE Console -------------------------------
(***************************************************************************)
(* The console: lines of input and echo (kernel/console.c), and the UART   *)
(* with its transmit buffer (kernel/uart.c).  The actors are the processes *)
(* that read and write, the interrupt handler and the device.  A step ends *)
(* where a lock is released, or where the UART may change between a test   *)
(* of LSR and the write of THR that relies on it.                          *)
(***************************************************************************)
EXTENDS Integers, FiniteSets

CONSTANTS
    Readers, Writers,   \* processes that read() and that write()
    INPUT_BUF_SIZE,
    UART_TX_BUF_SIZE,
    UINT,               \* 2^32, a multiple of INPUT_BUF_SIZE
    FIFO,               \* bytes of the transmit FIFO of the device
    RX,                 \* bytes of the receive FIFO
    MaxCount            \* the most that read() and write() are asked for

ASSUME ConsoleAssumption ==
    /\ INPUT_BUF_SIZE \in Nat \ {0} /\ UINT \in Nat /\ UINT > INPUT_BUF_SIZE
    /\ UART_TX_BUF_SIZE \in Nat \ {0} /\ MaxCount \in Nat

ASSUME RingAssumption == UINT % INPUT_BUF_SIZE = 0

Procs == Readers \cup Writers
None == "none"
Intr == "intr"              \* the handler, as the holder of a lock

ASSUME HolderAssumption == {None, Intr} \cap Procs = {}

User == [at |-> "user", n |-> 0, target |-> 0]
NoIntr == [at |-> "off", c |-> None, k |-> 0]

\* Typed characters: an ordinary one, a newline, and control-D, U and H; ^P
\* only prints.
Chars == {"x", "nl", "^D", "^U", "^H"}

VARIABLES
    buf, r, w, e,       \* cons.buf and its read, write and edit index
    cons_lock,          \* who holds cons.lock
    tx,                 \* bytes in uart_tx_buf: uart_tx_w - uart_tx_r
    tx_lock,            \* who holds uart_tx_lock
    fifo, rx,           \* the device: bytes to send, characters received
    irq,                \* the interrupt is pending
    intr,               \* the handler: where it is, its character, bytes to echo
    call, killed        \* where each process is; p->killed

vars == <<buf, r, w, e, cons_lock, tx, tx_lock, fifo, rx, irq, intr, call, killed>>
input == <<buf, r, w, e, cons_lock>>
output == <<tx, tx_lock>>
device == <<fifo, rx, irq>>

\* The FIFOs are cleared, and both kinds of interrupts enabled.
uartinit ==
    /\ tx = 0 /\ tx_lock = None
    /\ fifo = 0 /\ rx = 0 /\ irq = FALSE

consoleinit ==
    /\ buf = [k \in 0..INPUT_BUF_SIZE - 1 |-> None]
    /\ r = 0 /\ w = 0 /\ e = 0 /\ cons_lock = None
    /\ uartinit

Init ==
    /\ consoleinit
    /\ intr = NoIntr
    /\ call = [p \in Procs |-> User] /\ killed = [p \in Procs |-> FALSE]

Buf(k) == buf[k % INPUT_BUF_SIZE]
Minus(a, b) == (a - b) % UINT
Asleep(p, chan) == call[p].at = chan

\* Mutant: uartstart() forgets to wake writers.
WakeupReaders(chan, at) ==
    [p \in Procs |-> IF Asleep(p, chan) /\ chan = "cons.r" THEN [call[p] EXCEPT !.at = at] ELSE call[p]]

\* wakeup(chan): sleepers go on to take the lock again.
Wakeup(chan, at) == [p \in Procs |-> IF Asleep(p, chan) THEN [call[p] EXCEPT !.at = at] ELSE call[p]]

\* The call returns; a killed process is replaced by a new one.
Return(p) ==
    /\ call' = [call EXCEPT ![p] = User]
    /\ killed' = [killed EXCEPT ![p] = FALSE]

-----------------------------------------------------------------------------
(***************************************************************************)
(* consoleread()                                                           *)
(***************************************************************************)
Read(p, n) ==
    /\ call[p].at = "user"
    /\ call' = [call EXCEPT ![p] = [at |-> "read", n |-> n, target |-> n]]
    /\ UNCHANGED <<input, output, device, intr, killed>>

\* acquire(&cons.lock), on entry and at the end of sleep().
ReadLock(p) ==
    /\ call[p].at = "read" /\ cons_lock = None
    /\ cons_lock' = p
    /\ call' = [call EXCEPT ![p].at = "reading"]
    /\ UNCHANGED <<buf, r, w, e, output, device, intr, killed>>

\* No line: give up if killed, and sleep() on &cons.r otherwise.
ReadEmpty(p) ==
    /\ call[p].at = "reading" /\ r = w
    /\ cons_lock' = None
    /\ IF killed[p] THEN Return(p)
       ELSE call' = [call EXCEPT ![p].at = "cons.r"] /\ UNCHANGED killed
    /\ UNCHANGED <<buf, r, w, e, output, device, intr>>

\* A character c, whose place in cons.buf is not looked at again before it is
\* written.  A ^D that ends a read of some bytes is left for the next
\* one; copied is FALSE when copyout() fails.
ReadChar(p, copied) ==
    LET c == Buf(r)
        n == call[p].n - 1
        saved == c = "^D" /\ call[p].n < call[p].target
    IN  /\ call[p].at = "reading" /\ r # w
        /\ r' = IF saved THEN r ELSE (r + 1) % UINT
        /\ buf' = IF saved THEN buf ELSE [buf EXCEPT ![r % INPUT_BUF_SIZE] = None]
        /\ IF c \in {"^D", "nl"} \/ ~copied \/ n = 0
           THEN Return(p) /\ cons_lock' = None
           ELSE /\ call' = [call EXCEPT ![p].n = n]
                /\ UNCHANGED <<cons_lock, killed>>
        /\ UNCHANGED <<w, e, output, device, intr>>

(***************************************************************************)
(* consolewrite() and uartputc()                                           *)
(***************************************************************************)
Write(p, n) ==
    /\ call[p].at = "user"
    /\ call' = [call EXCEPT ![p] = [at |-> "uartputc", n |-> n, target |-> n]]
    /\ UNCHANGED <<input, output, device, intr, killed>>

\* uartputc() with uart_tx_lock: sleep() while the buffer is full.
Putc(p) ==
    /\ call[p].at = "uartputc" /\ tx_lock = None
    /\ IF tx = UART_TX_BUF_SIZE
       THEN call' = [call EXCEPT ![p].at = "uart_tx_r"] /\ UNCHANGED output
       ELSE /\ tx' = tx + 1 /\ tx_lock' = p
            /\ call' = [call EXCEPT ![p].at = "uartstart", ![p].n = @ - 1]
    /\ UNCHANGED <<input, device, intr, killed>>

\* LSR_TX_IDLE
Idle == fifo = 0

\* Mutant: uartstart() does not look at LSR.
MaySendAlways == tx > 0

\* The tests of uartstart(): it takes a byte to send, or returns.
MaySend == tx > 0 /\ Idle

PutcStart(p) ==
    /\ call[p].at = "uartstart"
    /\ IF MaySend
       THEN /\ tx' = tx - 1
            /\ call' = [Wakeup("uart_tx_r", "uartputc") EXCEPT ![p].at = "THR"]
            /\ UNCHANGED <<tx_lock, killed>>
       ELSE /\ tx_lock' = None /\ UNCHANGED tx
            /\ IF call[p].n = 0 THEN Return(p)
               ELSE call' = [call EXCEPT ![p].at = "uartputc"] /\ UNCHANGED killed
    /\ UNCHANGED <<input, device, intr>>

\* WriteReg(THR, c) of uartstart(), which then tries again.
PutcTHR(p) ==
    /\ call[p].at = "THR"
    /\ fifo' = fifo + 1
    /\ call' = [call EXCEPT ![p].at = "uartstart"]
    /\ UNCHANGED <<input, output, rx, irq, intr, killed>>

\* kill() by another process; uartputc() does not look at p->killed.
Kill(p) ==
    /\ call[p].at # "user" /\ ~killed[p]
    /\ killed' = [killed EXCEPT ![p] = TRUE]
    /\ call' = [call EXCEPT ![p].at = IF @ = "cons.r" THEN "read" ELSE @]
    /\ UNCHANGED <<input, output, device, intr>>

-----------------------------------------------------------------------------
(***************************************************************************)
(* The device; rx counts characters, which the handler chooses.            *)
(***************************************************************************)
Receive ==
    /\ rx < RX
    /\ rx' = rx + 1 /\ irq' = TRUE
    /\ UNCHANGED <<input, output, fifo, intr, call, killed>>

\* A byte leaves; the device interrupts when it is ready for more.
Transmit ==
    /\ fifo > 0
    /\ fifo' = fifo - 1 /\ irq' = (irq \/ fifo = 1)
    /\ UNCHANGED <<input, output, rx, intr, call, killed>>

(***************************************************************************)
(* uartintr() and consoleintr()                                            *)
(***************************************************************************)
IntrClaim ==
    /\ irq /\ intr.at = "off"
    /\ irq' = FALSE
    /\ intr' = [NoIntr EXCEPT !.at = "uartgetc"]
    /\ UNCHANGED <<input, output, fifo, rx, call, killed>>

\* uartgetc() has a character, for consoleintr(), or has none left.
IntrGetc(c) ==
    /\ intr.at = "uartgetc" /\ rx > 0
    /\ rx' = rx - 1
    /\ intr' = [NoIntr EXCEPT !.at = "consoleintr", !.c = c]
    /\ UNCHANGED <<input, output, fifo, irq, call, killed>>

\* The characters that ^U removes: back to a newline or to cons.w.
Killed == {k \in 1..Minus(e, w) : \A j \in 1..k : Buf(Minus(e, j)) # "nl"}
HasRoom == Minus(e, r) < INPUT_BUF_SIZE

\* The handler is to call consputc() k times, and to store c after that.
consputc(c, k) == [at |-> "echo", c |-> c, k |-> k]

\* The switch of consoleintr(), with cons.lock: k characters to echo, one for
\* each that is erased.
IntrChar ==
    LET erased == CASE intr.c = "^U" -> Killed
                    [] intr.c = "^H" /\ e # w -> {1}
                    [] OTHER -> {}
        gone == Cardinality(erased)
        stored == intr.c \notin {"^U", "^H"} /\ HasRoom
    IN  /\ intr.at = "consoleintr" /\ cons_lock = None
        /\ cons_lock' = Intr
        /\ e' = Minus(e, gone)
        /\ buf' = [k \in DOMAIN buf |->
              IF \E j \in 1..gone : k = Minus(e, j) % INPUT_BUF_SIZE THEN None ELSE buf[k]]
        /\ intr' = IF stored THEN consputc(intr.c, 1) ELSE consputc(None, gone)
        /\ UNCHANGED <<r, w, output, device, call, killed>>

\* uartputc_sync(): spin until the UART is idle, and write.
IntrEcho ==
    /\ intr.at = "echo" /\ intr.k > 0 /\ Idle
    /\ intr' = [intr EXCEPT !.at = "THR"]
    /\ UNCHANGED <<input, output, device, call, killed>>

IntrTHR ==
    /\ intr.at = "THR"
    /\ fifo' = fifo + 1
    /\ intr' = [intr EXCEPT !.at = "echo", !.k = @ - 1]
    /\ UNCHANGED <<input, output, rx, irq, call, killed>>

\* Mutant: only a newline or ^D makes a line.
LineOnly(c) == c \in {"nl", "^D"}

\* Does storing c complete a line?
EndsLine(c) == c \in {"nl", "^D"} \/ Minus(e + 1, r) = INPUT_BUF_SIZE

\* The end of consoleintr(): the character is stored, and readers are woken
\* for a whole line.
IntrStore ==
    LET line == intr.c # None /\ EndsLine(intr.c)
    IN  /\ intr.at = "echo" /\ intr.k = 0
        /\ IF intr.c = None THEN UNCHANGED <<buf, e>>
           ELSE /\ buf' = [buf EXCEPT ![e % INPUT_BUF_SIZE] = intr.c]
                /\ e' = (e + 1) % UINT
        /\ w' = IF line THEN e' ELSE w
        /\ call' = IF line THEN Wakeup("cons.r", "read") ELSE call
        /\ cons_lock' = None
        /\ intr' = [NoIntr EXCEPT !.at = "uartgetc"]
        /\ UNCHANGED <<r, output, device, killed>>

\* Mutant: the handler sends nothing.
IntrOutputNone ==
    /\ intr.at = "uartgetc" /\ rx = 0 /\ tx_lock = None
    /\ intr' = NoIntr
    /\ UNCHANGED <<input, output, device, call, killed>>

\* No more input: uartintr() takes uart_tx_lock for uartstart().
IntrOutput ==
    /\ intr.at = "uartgetc" /\ rx = 0 /\ tx_lock = None
    /\ tx_lock' = Intr
    /\ intr' = [NoIntr EXCEPT !.at = "uartstart"]
    /\ UNCHANGED <<input, tx, device, call, killed>>

IntrStart ==
    /\ intr.at = "uartstart"
    /\ IF MaySend
       THEN /\ tx' = tx - 1 /\ call' = Wakeup("uart_tx_r", "uartputc")
            /\ intr' = [intr EXCEPT !.at = "startTHR"]
            /\ UNCHANGED tx_lock
       ELSE /\ tx_lock' = None /\ intr' = NoIntr
            /\ UNCHANGED <<tx, call>>
    /\ UNCHANGED <<input, device, killed>>

IntrStartTHR ==
    /\ intr.at = "startTHR"
    /\ fifo' = fifo + 1
    /\ intr' = [intr EXCEPT !.at = "uartstart"]
    /\ UNCHANGED <<input, output, rx, irq, call, killed>>

-----------------------------------------------------------------------------
Handler ==
    IntrClaim \/ (\E c \in Chars : IntrGetc(c)) \/ IntrChar \/ IntrTHR \/ IntrStore \/ IntrStart \/ IntrStartTHR

InCall(p) ==
    \/ ReadLock(p) \/ ReadEmpty(p) \/ (\E copied \in BOOLEAN : ReadChar(p, copied))
    \/ Putc(p) \/ PutcStart(p) \/ PutcTHR(p)

Next ==
    \/ Handler \/ IntrEcho \/ IntrOutput
    \/ Transmit
    \/ Receive
    \/ \E p \in Procs : InCall(p)
    \/ \E p \in Readers : Kill(p)
    \/ \E p \in Readers, n \in 1..MaxCount : Read(p, n)
    \/ \E p \in Writers, n \in 1..MaxCount : Write(p, n)

Spec == Init /\ [][Next]_vars
-----------------------------------------------------------------------------
\* The indices of cons.buf keep their order when they wrap around, and a full
\* buffer always has a line for a reader: otherwise consoleintr() would drop
\* every character, the newline too, and no reader would ever make room.
NeverWedged ==
    /\ Minus(w, r) <= Minus(e, r) /\ Minus(e, r) <= INPUT_BUF_SIZE
    /\ Minus(e, r) = INPUT_BUF_SIZE => w = e

\* Nobody sleeps on a condition that holds: a process sleeps on &cons.r only
\* while there is no line, and on &uart_tx_r only while the buffer is full.
SleepsForReason ==
    \A p \in Procs :
        /\ Asleep(p, "cons.r") => r = w
        /\ Asleep(p, "uart_tx_r") => tx = UART_TX_BUF_SIZE

\* uartstart() and the echo test LSR and write THR without a lock in common:
\* the bytes they write after one idle test fit in the FIFO.
FitsFifo == fifo <= FIFO

\* Bytes in the transmit buffer are not forgotten there, and a writer that
\* sleeps on &uart_tx_r is not either: when uartstart() leaves bytes behind, the
\* UART has bytes to send and will interrupt, or its interrupt is pending, or
\* the handler has yet to call uartstart().
OutputPending ==
    tx > 0 /\ tx_lock = None =>
        fifo > 0 \/ irq \/ intr.at \in {"uartgetc", "consoleintr", "echo", "THR"}
=============================================================================
