---------------------------- MODULE ConsoleProofs ----------------------------
(***************************************************************************)
(* Proofs about module Console, for any processes and buffer sizes.        *)
(*                                                                         *)
(* PlaceInv says who is where while a lock is held.  From it follow, one   *)
(* after the other, that sleepers have a reason to sleep, that output is   *)
(* not forgotten, that the FIFO has room for what two writers of THR may   *)
(* give it, and that the input buffer is never wedged.                     *)
(***************************************************************************)
EXTENDS Console, FiniteSetTheorems, TLAPS

Places == {"user", "read", "reading", "cons.r", "uartputc", "uart_tx_r", "uartstart", "THR"}
Sending == {"uartstart", "THR"}
Echoing == {"echo", "THR"}
Starting == {"uartstart", "startTHR"}

\* The shape of the variables that records are kept in, and the locks: each is
\* held by the process, or the handler, that is in its section.
PlaceInv ==
    /\ call \in [Procs -> [at : Places, n : Int, target : Int]]
    /\ intr = [at |-> intr.at, c |-> intr.c, k |-> intr.k]
    /\ intr.at \in {"off", "uartgetc", "consoleintr"} \cup Echoing \cup Starting
    /\ tx_lock \in Procs \cup {None, Intr} /\ cons_lock \in Procs \cup {None, Intr}
    /\ \A p \in Procs :
        /\ tx_lock = p <=> call[p].at \in Sending
        /\ cons_lock = p <=> call[p].at = "reading"
    /\ tx_lock = Intr <=> intr.at \in Starting
    /\ cons_lock = Intr <=> intr.at \in Echoing

USE ConsoleAssumption, HolderAssumption DEF Places, Sending, Echoing, Starting, Asleep, NoIntr, User,
    input, output, device

\* The handler is not nobody.
LEMMA NamesDiffer == None # Intr
BY DEF None, Intr

\* Every step keeps each lock with the one that is in its section.
LEMMA PlaceStep == PlaceInv /\ [Next]_vars => PlaceInv'
<1> SUFFICES ASSUME PlaceInv, [Next]_vars PROVE PlaceInv'
  OBVIOUS
<1> USE NamesDiffer DEF PlaceInv
<1>1. CASE UNCHANGED vars
  BY <1>1 DEF vars
<1>2. CASE Handler \/ IntrEcho \/ IntrOutput
  <2>1. CASE IntrClaim
    BY <2>1 DEF IntrClaim
  <2>2. ASSUME NEW c \in Chars, IntrGetc(c) PROVE PlaceInv'
    BY <2>2 DEF IntrGetc
  <2>3. CASE IntrChar
    BY <2>3 DEF IntrChar, consputc
  <2>4. CASE IntrTHR
    BY <2>4 DEF IntrTHR
  <2>5. CASE IntrStore
    BY <2>5 DEF IntrStore, Wakeup
  <2>6. CASE IntrStart
    BY <2>6 DEF IntrStart, Wakeup
  <2>7. CASE IntrStartTHR
    BY <2>7 DEF IntrStartTHR
  <2>8. CASE IntrEcho
    BY <2>8 DEF IntrEcho
  <2>9. CASE IntrOutput
    BY <2>9 DEF IntrOutput
  <2> QED BY <1>2, <2>1, <2>2, <2>3, <2>4, <2>5, <2>6, <2>7, <2>8, <2>9 DEF Handler
<1>3. CASE Transmit \/ Receive
  BY <1>3 DEF Transmit, Receive
<1>4. ASSUME NEW p \in Procs, InCall(p) PROVE PlaceInv'
  <2>1. CASE ReadLock(p)
    BY <2>1 DEF ReadLock
  <2>2. CASE ReadEmpty(p)
    BY <2>2 DEF ReadEmpty, Return
  <2>3. ASSUME NEW copied \in BOOLEAN, ReadChar(p, copied) PROVE PlaceInv'
    BY <2>3 DEF ReadChar, Return
  <2>4. CASE Putc(p)
    BY <2>4 DEF Putc
  <2>5. CASE PutcStart(p)
    <3>1. CASE MaySend
      <4> DEFINE woken == Wakeup("uart_tx_r", "uartputc")
      <4>2. /\ woken \in [Procs -> [at : Places, n : Int, target : Int]]
            /\ \A q \in Procs : woken[q].at = IF call[q].at = "uart_tx_r" THEN "uartputc" ELSE call[q].at
        BY DEF Wakeup
      <4>3. call' = [woken EXCEPT ![p].at = "THR"] /\ UNCHANGED <<tx_lock, cons_lock, intr>>
        BY <2>5, <3>1 DEF PutcStart
      <4> HIDE DEF woken
      <4> QED BY <2>5, <4>2, <4>3 DEF PutcStart
    <3>2. CASE ~MaySend
      BY <2>5, <3>2 DEF PutcStart, Return
    <3> QED BY <3>1, <3>2
  <2>6. CASE PutcTHR(p)
    BY <2>6 DEF PutcTHR
  <2> QED BY <1>4, <2>1, <2>2, <2>3, <2>4, <2>5, <2>6 DEF InCall
<1>5. ASSUME NEW p \in Procs, Kill(p) PROVE PlaceInv'
  BY <1>5 DEF Kill
<1>6. ASSUME NEW p \in Procs, NEW n \in 1..MaxCount, Read(p, n) \/ Write(p, n) PROVE PlaceInv'
  BY <1>6 DEF Read, Write
<1> QED BY <1>1, <1>2, <1>3, <1>4, <1>5, <1>6 DEF Next, Procs

-----------------------------------------------------------------------------
(***************************************************************************)
(* Output.                                                                 *)
(***************************************************************************)
\* What a sleeper waits for, and the bytes that are left in the transmit buffer.
TxInv ==
    /\ tx \in Nat /\ fifo \in Nat
    /\ SleepsForReason
    /\ OutputPending

\* uartstart() has tested LSR and will write THR; the FIFO has room for its byte
\* and for that of the echo.
Put == intr.at = "startTHR" \/ \E p \in Procs : call[p].at = "THR"

FifoInv ==
    /\ fifo \in Nat /\ fifo <= 2
    /\ Put => fifo <= 1
    /\ intr.at = "THR" => fifo <= 1
    /\ Put /\ intr.at = "THR" => fifo = 0

\* Every step keeps TxInv: uartstart() wakes the writers whenever it makes room.
LEMMA TxStep == PlaceInv /\ TxInv /\ [Next]_vars => TxInv'
<1> SUFFICES ASSUME PlaceInv, TxInv, [Next]_vars PROVE TxInv'
  OBVIOUS
<1> USE NamesDiffer DEF PlaceInv, TxInv, SleepsForReason, OutputPending
<1>1. CASE UNCHANGED vars
  BY <1>1 DEF vars
<1>2. CASE Handler \/ IntrEcho \/ IntrOutput
  <2>1. CASE IntrClaim
    BY <2>1 DEF IntrClaim
  <2>2. ASSUME NEW c \in Chars, IntrGetc(c) PROVE TxInv'
    BY <2>2 DEF IntrGetc
  <2>3. CASE IntrChar
    BY <2>3 DEF IntrChar, consputc
  <2>4. CASE IntrTHR
    BY <2>4 DEF IntrTHR
  <2>5. CASE IntrStore
    BY <2>5 DEF IntrStore, Wakeup
  <2>6. CASE IntrStart
    BY <2>6 DEF IntrStart, Wakeup, MaySend, Idle
  <2>7. CASE IntrStartTHR
    BY <2>7 DEF IntrStartTHR
  <2>8. CASE IntrEcho
    BY <2>8 DEF IntrEcho
  <2>9. CASE IntrOutput
    BY <2>9 DEF IntrOutput
  <2> QED BY <1>2, <2>1, <2>2, <2>3, <2>4, <2>5, <2>6, <2>7, <2>8, <2>9 DEF Handler
<1>3. CASE Transmit
  <2>1. irq' = (irq \/ fifo = 1)
    BY <1>3 DEF Transmit
  <2>2. fifo = 1 => irq'
    BY <2>1, Zenon
  <2>3. fifo # 1 => fifo' > 0
    BY <1>3 DEF Transmit
  <2> QED BY <1>3, <2>2, <2>3 DEF Transmit
<1>3a. CASE Receive
  BY <1>3a DEF Receive
<1>4. ASSUME NEW p \in Procs, InCall(p) PROVE TxInv'
  <2>1. CASE ReadLock(p)
    BY <2>1 DEF ReadLock
  <2>2. CASE ReadEmpty(p)
    BY <2>2 DEF ReadEmpty, Return
  <2>3. ASSUME NEW copied \in BOOLEAN, ReadChar(p, copied) PROVE TxInv'
    BY <2>3 DEF ReadChar, Return
  <2>4. CASE Putc(p)
    BY <2>4 DEF Putc
  <2>5. CASE PutcStart(p)
    <3>1. CASE MaySend
      <4> DEFINE woken == Wakeup("uart_tx_r", "uartputc")
      <4>1. \A q \in Procs : /\ woken[q].at # "uart_tx_r"
                             /\ woken[q].at = "cons.r" <=> call[q].at = "cons.r"
        BY DEF Wakeup
      <4>2. call' = [woken EXCEPT ![p].at = "THR"] /\ tx' = tx - 1 /\ tx > 0
            /\ tx_lock = p /\ UNCHANGED <<tx_lock, r, w, fifo, irq>>
        BY <2>5, <3>1 DEF PutcStart, MaySend
      <4>3. woken \in [Procs -> [at : Places, n : Int, target : Int]]
        BY DEF Wakeup
      <4> HIDE DEF woken
      <4>4. \A q \in Procs : /\ call'[q].at # "uart_tx_r"
                             /\ call'[q].at = "cons.r" => call[q].at = "cons.r"
        BY <4>1, <4>2, <4>3
      <4>5. tx' \in Nat /\ tx_lock' # None
        BY <4>2
      <4> QED BY <4>2, <4>4, <4>5
    <3>2. CASE ~MaySend
      BY <2>5, <3>2 DEF PutcStart, Return, MaySend, Idle
    <3> QED BY <3>1, <3>2
  <2>6. CASE PutcTHR(p)
    BY <2>6 DEF PutcTHR
  <2> QED BY <1>4, <2>1, <2>2, <2>3, <2>4, <2>5, <2>6 DEF InCall
<1>5. ASSUME NEW p \in Procs, Kill(p) PROVE TxInv'
  BY <1>5 DEF Kill
<1>6. ASSUME NEW p \in Procs, NEW n \in 1..MaxCount, Read(p, n) \/ Write(p, n) PROVE TxInv'
  BY <1>6 DEF Read, Write
<1> QED BY <1>1, <1>2, <1>3, <1>3a, <1>4, <1>5, <1>6 DEF Next, Procs

\* Every step keeps FifoInv: a test of LSR finds the FIFO empty.
LEMMA FifoStep == PlaceInv /\ FifoInv /\ [Next]_vars => FifoInv'
<1> SUFFICES ASSUME PlaceInv, FifoInv, [Next]_vars PROVE FifoInv'
  OBVIOUS
<1> USE NamesDiffer DEF PlaceInv, FifoInv, Put
<1>1. CASE UNCHANGED vars
  BY <1>1 DEF vars
<1>2. CASE Handler \/ IntrEcho \/ IntrOutput
  <2>1. CASE IntrClaim
    BY <2>1 DEF IntrClaim
  <2>2. ASSUME NEW c \in Chars, IntrGetc(c) PROVE FifoInv'
    BY <2>2 DEF IntrGetc
  <2>3. CASE IntrChar
    BY <2>3 DEF IntrChar, consputc
  <2>4. CASE IntrTHR
    BY <2>4 DEF IntrTHR
  <2>5. CASE IntrStore
    BY <2>5 DEF IntrStore, Wakeup
  <2>6. CASE IntrStart
    BY <2>6 DEF IntrStart, Wakeup, MaySend, Idle
  <2>7. CASE IntrStartTHR
    BY <2>7 DEF IntrStartTHR
  <2>8. CASE IntrEcho
    BY <2>8 DEF IntrEcho, Idle
  <2>9. CASE IntrOutput
    BY <2>9 DEF IntrOutput
  <2> QED BY <1>2, <2>1, <2>2, <2>3, <2>4, <2>5, <2>6, <2>7, <2>8, <2>9 DEF Handler
<1>3. CASE Transmit \/ Receive
  BY <1>3 DEF Transmit, Receive
<1>4. ASSUME NEW p \in Procs, InCall(p) PROVE FifoInv'
  <2>1. CASE ReadLock(p)
    BY <2>1 DEF ReadLock
  <2>2. CASE ReadEmpty(p)
    BY <2>2 DEF ReadEmpty, Return
  <2>3. ASSUME NEW copied \in BOOLEAN, ReadChar(p, copied) PROVE FifoInv'
    BY <2>3 DEF ReadChar, Return
  <2>4. CASE Putc(p)
    BY <2>4 DEF Putc
  <2>5. CASE PutcStart(p)
    BY <2>5 DEF PutcStart, Return, Wakeup, MaySend, Idle
  <2>6. CASE PutcTHR(p)
    BY <2>6 DEF PutcTHR
  <2> QED BY <1>4, <2>1, <2>2, <2>3, <2>4, <2>5, <2>6 DEF InCall
<1>5. ASSUME NEW p \in Procs, Kill(p) PROVE FifoInv'
  BY <1>5 DEF Kill
<1>6. ASSUME NEW p \in Procs, NEW n \in 1..MaxCount, Read(p, n) \/ Write(p, n) PROVE FifoInv'
  BY <1>6 DEF Read, Write
<1> QED BY <1>1, <1>2, <1>3, <1>4, <1>5, <1>6 DEF Next, Procs

-----------------------------------------------------------------------------
(***************************************************************************)
(* Input.                                                                  *)
(***************************************************************************)
\* Unsigned arithmetic on numbers that are at most one turn away.
LEMMA ModOnce ==
    ASSUME NEW d \in Int, -UINT <= d, d < 2 * UINT
    PROVE  d % UINT = IF d < 0 THEN d + UINT ELSE IF d < UINT THEN d ELSE d - UINT
<1>1. CASE d < 0
  <2>1. d = UINT * (-1) + (d + UINT)
    OBVIOUS
  <2> QED BY <1>1, <2>1
<1>2. CASE d >= 0 /\ d < UINT
  BY <1>2
<1>3. CASE d >= UINT
  BY <1>3
<1> QED BY <1>1, <1>2, <1>3

Index == 0..UINT - 1

\* Differences and successors of indices.
LEMMA MinusFacts ==
    ASSUME NEW a \in Index, NEW b \in Index
    PROVE  /\ Minus(a, b) = IF a >= b THEN a - b ELSE a - b + UINT
           /\ Minus(a + 1, b) = IF a + 1 = b + UINT THEN 0 ELSE IF a + 1 >= b THEN a + 1 - b ELSE a + 1 - b + UINT
           /\ (a + 1) % UINT = IF a + 1 = UINT THEN 0 ELSE a + 1
<1>1. Minus(a, b) = IF a >= b THEN a - b ELSE a - b + UINT
  <2>1. a - b \in Int /\ -UINT <= a - b /\ a - b < 2 * UINT /\ a - b < UINT
    BY DEF Index
  <2> QED BY <2>1, ModOnce DEF Minus, Index
<1>2. Minus(a + 1, b) = IF a + 1 = b + UINT THEN 0 ELSE IF a + 1 >= b THEN a + 1 - b ELSE a + 1 - b + UINT
  <2>1. a + 1 - b \in Int /\ -UINT <= a + 1 - b /\ a + 1 - b < 2 * UINT /\ a + 1 - b <= UINT
    BY DEF Index
  <2> QED BY <2>1, ModOnce DEF Minus, Index
<1>3. (a + 1) % UINT = IF a + 1 = UINT THEN 0 ELSE a + 1
  <2>1. a + 1 \in Int /\ -UINT <= a + 1 /\ a + 1 < 2 * UINT /\ a + 1 <= UINT /\ a + 1 > 0
    BY DEF Index
  <2> QED BY <2>1, ModOnce DEF Index
<1> QED BY <1>1, <1>2, <1>3

\* The handler stores only a character that it found room for.
IndexInv ==
    /\ r \in Index /\ w \in Index /\ e \in Index
    /\ NeverWedged
    /\ intr.at \in Echoing /\ intr.c # None => Minus(e, r) < INPUT_BUF_SIZE

\* Nothing happens to the indices, and no character is taken for storing.
LEMMA IndexFrame ==
    ASSUME IndexInv, UNCHANGED <<r, w, e>>,
           intr'.at \in Echoing /\ intr'.c # None => intr.at \in Echoing /\ intr.c # None
    PROVE  IndexInv'
BY DEF IndexInv, NeverWedged, Minus

\* ^U and ^H take back no more than what is typed after cons.w.
LEMMA IntrCharIndex ==
    ASSUME PlaceInv, IndexInv, IntrChar
    PROVE  IndexInv'
<1> DEFINE erased == CASE intr.c = "^U" -> Killed
                       [] intr.c = "^H" /\ e # w -> {1}
                       [] OTHER -> {}
           gone == Cardinality(erased)
           len == Minus(e, w)
<1>0. /\ r \in Index /\ w \in Index /\ e \in Index
      /\ Minus(e, w) = IF e >= w THEN e - w ELSE e - w + UINT
      /\ Minus(w, r) = IF w >= r THEN w - r ELSE w - r + UINT
      /\ Minus(e, r) = IF e >= r THEN e - r ELSE e - r + UINT
  BY MinusFacts DEF IndexInv
<1>1. len \in Nat /\ len < UINT
  BY <1>0 DEF Index
<1>2. erased \subseteq 1..len
  <2>1. e # w => 1 \in 1..len
    BY <1>0, <1>1 DEF Index
  <2> QED BY <2>1 DEF Killed
<1>3. gone \in Nat /\ gone <= len
  <2>1. IsFiniteSet(1..len) /\ Cardinality(1..len) = IF 1 > len THEN 0 ELSE len - 1 + 1
    <3>1. 1 \in Int /\ len \in Int
      BY <1>1
    <3> HIDE DEF len
    <3> QED BY <3>1, FS_Interval
  <2>2. Cardinality(1..len) = len
    BY <1>1, <2>1
  <2>3. IsFiniteSet(erased) /\ Cardinality(erased) <= Cardinality(1..len)
    BY <1>2, <2>1, FS_Subset
  <2> QED BY <2>2, <2>3, FS_CardinalityType
<1>4. intr.c \notin {"^U", "^H"} => gone = 0
  BY FS_EmptySet
<1> HIDE DEF erased, gone, len
<1>5. e' = Minus(e, gone) /\ r' = r /\ w' = w
  BY DEF IntrChar, erased, gone
<1>6. intr' = IF intr.c \notin {"^U", "^H"} /\ HasRoom THEN consputc(intr.c, 1) ELSE consputc(None, gone)
  BY DEF IntrChar, erased, gone
<1>7. gone \in Index
  BY <1>1, <1>3 DEF Index
<1>8. e' \in Index /\ e' = IF e >= gone THEN e - gone ELSE e - gone + UINT
  <2>1. e' = IF e >= gone THEN e - gone ELSE e - gone + UINT
    BY <1>0, <1>5, <1>7, MinusFacts
  <2> QED BY <1>0, <1>7, <2>1 DEF Index
<1>9. /\ Minus(e', r) = IF e' >= r THEN e' - r ELSE e' - r + UINT
      /\ Minus(e', r) = Minus(e, r) - gone
  <2>1. Minus(e', r) = IF e' >= r THEN e' - r ELSE e' - r + UINT
    BY <1>0, <1>8, MinusFacts
  <2>2. gone <= Minus(e, r)
    BY <1>0, <1>3 DEF IndexInv, NeverWedged, Index, len
  <2> QED BY <1>0, <1>7, <1>8, <2>1, <2>2 DEF Index
<1>10. NeverWedged'
  <2>1. Minus(w, r) <= Minus(e, r) - gone
    BY <1>0, <1>3 DEF IndexInv, NeverWedged, Index, len
  <2>2. Minus(w', r') = Minus(w, r) /\ Minus(e', r') = Minus(e, r) - gone
    BY <1>5, <1>9
  <2>3. Minus(e', r') <= INPUT_BUF_SIZE
    BY <1>0, <1>3, <2>2 DEF IndexInv, NeverWedged, Index
  <2>4. ASSUME Minus(e', r') = INPUT_BUF_SIZE PROVE w' = e'
    <3>1. gone = 0 /\ Minus(e, r) = INPUT_BUF_SIZE
      BY <1>0, <1>3, <2>2, <2>4 DEF IndexInv, NeverWedged, Index
    <3> QED BY <1>0, <1>5, <1>8, <3>1 DEF IndexInv, NeverWedged, Index
  <2> QED BY <2>1, <2>2, <2>3, <2>4 DEF NeverWedged, Minus
<1>11. intr'.c # None => intr.c \notin {"^U", "^H"} /\ Minus(e, r) < INPUT_BUF_SIZE
  BY <1>6 DEF consputc, HasRoom
<1> QED BY <1>0, <1>4, <1>5, <1>8, <1>9, <1>10, <1>11 DEF IndexInv, Index, Minus

\* A reader takes a character only where there is a line.
LEMMA ReadCharIndex ==
    ASSUME PlaceInv, IndexInv, NEW p \in Procs, NEW copied \in BOOLEAN, ReadChar(p, copied)
    PROVE  IndexInv'
<1>1. intr' = intr /\ intr.at \notin Echoing /\ w' = w /\ e' = e /\ r # w
  BY DEF PlaceInv, ReadChar
<1>2. CASE r' = r
  BY <1>1, <1>2, IndexFrame
<1>3. CASE r' = (r + 1) % UINT
  <2>1. r \in Index /\ w \in Index /\ e \in Index
    BY DEF IndexInv
  <2>2. r' = IF r + 1 = UINT THEN 0 ELSE r + 1
    BY <1>3, <2>1, MinusFacts
  <2>3. r' \in Index
    BY <2>1, <2>2 DEF Index
  <2>4. /\ Minus(w, r) = IF w >= r THEN w - r ELSE w - r + UINT
        /\ Minus(e, r) = IF e >= r THEN e - r ELSE e - r + UINT
        /\ Minus(w, r') = IF w >= r' THEN w - r' ELSE w - r' + UINT
        /\ Minus(e, r') = IF e >= r' THEN e - r' ELSE e - r' + UINT
    BY <2>1, <2>3, MinusFacts
  <2>5. Minus(w, r') = Minus(w, r) - 1
    BY <1>1, <2>1, <2>2, <2>4 DEF Index
  <2>6. Minus(e, r') = Minus(e, r) - 1
    BY <1>1, <2>1, <2>2, <2>4 DEF Index, IndexInv, NeverWedged
  <2>7. NeverWedged'
    <3>1. Minus(w', r') <= Minus(e', r') /\ Minus(e', r') < INPUT_BUF_SIZE
      BY <1>1, <2>1, <2>4, <2>5, <2>6 DEF Index, IndexInv, NeverWedged
    <3>2. Minus(e', r') \in Int
      BY <1>1, <2>1, <2>3, <2>4 DEF Index
    <3>3. Minus(e', r') <= INPUT_BUF_SIZE /\ Minus(e', r') # INPUT_BUF_SIZE
      BY <3>1, <3>2
    <3> QED BY <3>1, <3>3 DEF NeverWedged, Minus
  <2> QED BY <1>1, <2>1, <2>3, <2>7 DEF IndexInv
<1> QED BY <1>2, <1>3 DEF ReadChar

\* The character that fills the buffer completes a line.
LEMMA IntrStoreIndex ==
    ASSUME PlaceInv, IndexInv, IntrStore
    PROVE  IndexInv'
<1>1. r' = r /\ intr'.at = "uartgetc"
  BY DEF PlaceInv, IntrStore
<1>2. CASE intr.c = None
  BY <1>1, <1>2, IndexFrame DEF IntrStore
<1>3. CASE intr.c # None
  <2>1. r \in Index /\ w \in Index /\ e \in Index /\ Minus(e, r) < INPUT_BUF_SIZE
    BY <1>3 DEF IndexInv, IntrStore
  <2>2. e' = (e + 1) % UINT
    BY <1>3 DEF IntrStore
  <2>3. e' = IF e + 1 = UINT THEN 0 ELSE e + 1
    BY <2>1, <2>2, MinusFacts
  <2>4. e' \in Index
    BY <2>1, <2>3 DEF Index
  <2>5. /\ Minus(w, r) = IF w >= r THEN w - r ELSE w - r + UINT
        /\ Minus(e, r) = IF e >= r THEN e - r ELSE e - r + UINT
        /\ Minus(e', r) = IF e' >= r THEN e' - r ELSE e' - r + UINT
        /\ Minus(e + 1, r) = IF e + 1 = r + UINT THEN 0
                             ELSE IF e + 1 >= r THEN e + 1 - r ELSE e + 1 - r + UINT
    BY <2>1, <2>4, MinusFacts
  <2>6. Minus(e', r) = Minus(e, r) + 1 /\ Minus(e + 1, r) = Minus(e, r) + 1
    BY <2>1, <2>3, <2>5 DEF Index
  <2>7. (w' = w /\ Minus(e', r) # INPUT_BUF_SIZE) \/ w' = e'
    BY <1>3, <2>6 DEF IntrStore, EndsLine
  <2>8. w' \in Index /\ Minus(w', r') <= Minus(e', r') /\ Minus(e', r') <= INPUT_BUF_SIZE
    <3>1. Minus(e, r) \in Int /\ Minus(w, r) \in Int /\ Minus(w, r) <= Minus(e, r)
      BY <2>1, <2>5 DEF Index, IndexInv, NeverWedged
    <3>2. Minus(e', r) <= INPUT_BUF_SIZE
      BY <2>1, <2>6, <3>1
    <3>3. CASE w' = w
      BY <1>1, <2>1, <2>6, <3>1, <3>2, <3>3
    <3>4. CASE w' = e'
      BY <1>1, <2>4, <2>6, <3>1, <3>2, <3>4
    <3> QED BY <2>7, <3>3, <3>4
  <2>9. Minus(e', r') = INPUT_BUF_SIZE => w' = e'
    BY <1>1, <2>7
  <2> QED BY <1>1, <2>1, <2>4, <2>8, <2>9 DEF IndexInv, NeverWedged, Minus
<1> QED BY <1>2, <1>3

\* IndexInv is inductive.
LEMMA IndexStep == PlaceInv /\ IndexInv /\ [Next]_vars => IndexInv'
<1> SUFFICES ASSUME PlaceInv, IndexInv, [Next]_vars PROVE IndexInv'
  OBVIOUS
<1>1. CASE UNCHANGED vars
  BY <1>1, IndexFrame DEF vars
<1>2. CASE Handler \/ IntrEcho \/ IntrOutput
  <2>1. CASE IntrClaim \/ IntrStart \/ IntrStartTHR \/ IntrOutput
    BY <2>1, IndexFrame DEF PlaceInv, IntrClaim, IntrStart, IntrStartTHR, IntrOutput
  <2>2. ASSUME NEW c \in Chars, IntrGetc(c) PROVE IndexInv'
    BY <2>2, IndexFrame DEF IntrGetc
  <2>3. CASE IntrTHR \/ IntrEcho
    BY <2>3, IndexFrame DEF PlaceInv, IntrTHR, IntrEcho
  <2>4. CASE IntrChar
    BY <2>4, IntrCharIndex
  <2>5. CASE IntrStore
    BY <2>5, IntrStoreIndex
  <2> QED BY <1>2, <2>1, <2>2, <2>3, <2>4, <2>5 DEF Handler
<1>3. CASE Transmit \/ Receive
  BY <1>3, IndexFrame DEF Transmit, Receive
<1>4. ASSUME NEW p \in Procs, InCall(p) PROVE IndexInv'
  <2>1. CASE ReadLock(p) \/ ReadEmpty(p)
    BY <2>1, IndexFrame DEF ReadLock, ReadEmpty
  <2>2. ASSUME NEW copied \in BOOLEAN, ReadChar(p, copied) PROVE IndexInv'
    BY <2>2, ReadCharIndex
  <2>3. CASE Putc(p) \/ PutcStart(p) \/ PutcTHR(p)
    BY <2>3, IndexFrame DEF Putc, PutcStart, PutcTHR
  <2> QED BY <1>4, <2>1, <2>2, <2>3 DEF InCall
<1>5. ASSUME NEW p \in Procs, Kill(p) PROVE IndexInv'
  BY <1>5, IndexFrame DEF Kill
<1>6. ASSUME NEW p \in Procs, NEW n \in 1..MaxCount, Read(p, n) \/ Write(p, n) PROVE IndexInv'
  BY <1>6, IndexFrame DEF Read, Write
<1> QED BY <1>1, <1>2, <1>3, <1>4, <1>5, <1>6 DEF Next, Procs

-----------------------------------------------------------------------------
\* uartinit() and consoleinit() establish the invariants.
LEMMA InitFacts == Init => PlaceInv /\ TxInv /\ FifoInv /\ IndexInv
<1> SUFFICES ASSUME Init PROVE PlaceInv /\ TxInv /\ FifoInv /\ IndexInv
  OBVIOUS
<1> USE NamesDiffer DEF Init, consoleinit, uartinit
<1>1. PlaceInv
  BY DEF PlaceInv
<1>2. TxInv
  BY DEF TxInv, SleepsForReason, OutputPending
<1>3. FifoInv
  BY DEF FifoInv, Put
<1>4. IndexInv
  <2>1. 0 \in Index /\ Minus(0, 0) = 0
    BY MinusFacts DEF Index
  <2> QED BY <2>1 DEF IndexInv, NeverWedged
<1> QED BY <1>1, <1>2, <1>3, <1>4

\* However the indices of cons.buf wrap around and whatever is typed, they keep
\* their order, and a full buffer has a line that a reader can take.
THEOREM InputNeverWedged == Spec => []NeverWedged
<1>1. IndexInv => NeverWedged
  BY DEF IndexInv
<1> QED BY <1>1, InitFacts, PlaceStep, IndexStep, PTL DEF Spec

\* A reader of the console sleeps only while there is no line, and a writer
\* only while the transmit buffer is full.
THEOREM ConsoleSleepsForReason == Spec => []SleepsForReason
<1>1. TxInv => SleepsForReason
  BY DEF TxInv
<1> QED BY <1>1, InitFacts, PlaceStep, TxStep, PTL DEF Spec

\* Bytes that uartstart() leaves in the transmit buffer will have an interrupt,
\* or the handler is about to look at them.
THEOREM OutputNotForgotten == Spec => []OutputPending
<1>1. TxInv => OutputPending
  BY DEF TxInv
<1> QED BY <1>1, InitFacts, PlaceStep, TxStep, PTL DEF Spec

\* Two bytes of FIFO suffice for uartstart() and the echo of the interrupt
\* handler, which test LSR and write THR without a lock in common.
THEOREM TwoBytesSuffice ==
    ASSUME FIFO \in Nat, FIFO >= 2
    PROVE  Spec => []FitsFifo
<1>1. FifoInv => FitsFifo
  BY DEF FifoInv, FitsFifo
<1> QED BY <1>1, InitFacts, PlaceStep, FifoStep, PTL DEF Spec
==============================================================================
