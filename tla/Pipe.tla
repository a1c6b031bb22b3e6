-------------------------------- MODULE Pipe --------------------------------
(***************************************************************************)
(* A pipe of kernel/pipe.c, between processes that have its write end or   *)
(* its read end open.  pi->lock is explicit and a step is one iteration of *)
(* a loop, since kill() does not take it.  A process has its end open for  *)
(* as long as it is in a system call on it, so an end is closed by the     *)
(* last fileclose() while nobody is in pipewrite() or piperead() there.    *)
(***************************************************************************)
EXTENDS Naturals, Sequences

CONSTANTS
    Writers, Readers,   \* processes that have an end open
    Killable,           \* the processes that kill() may be called for
    Nobody,             \* the holder of a free lock
    Bytes,              \* the values of a byte
    PIPESIZE,
    UINT,               \* 2^32: nread and nwrite are counted modulo UINT
    Lengths             \* the lengths of the reads and writes

Procs == Writers \cup Readers

ASSUME PipeAssumption ==
    /\ Writers \cap Readers = {} /\ Nobody \notin Procs
    /\ PIPESIZE \in Nat \ {0} /\ Lengths \subseteq Nat
    /\ UINT \in Nat /\ UINT % PIPESIZE = 0 /\ UINT > PIPESIZE

VARIABLES
    data, nread, nwrite, readopen, writeopen,   \* struct pipe
    lock,       \* pi->lock
    freed,      \* the page of the pipe was given to kfree()
    open,       \* the processes that have their end open
    killed,
    pc, todo    \* where each process is, and n - i

pipe == <<data, nread, nwrite, readopen, writeopen>>
vars == <<pipe, lock, freed, open, killed, pc, todo>>

\* pipealloc(), and the forks that share the ends.
Init ==
    /\ data = [k \in 0..PIPESIZE - 1 |-> CHOOSE b \in Bytes : TRUE]
    /\ nread = 0 /\ nwrite = 0
    /\ readopen = TRUE /\ writeopen = TRUE
    /\ lock = Nobody
    /\ freed = FALSE
    /\ open = Procs
    /\ killed = [p \in Procs |-> FALSE]
    /\ pc = [p \in Procs |-> "user"]
    /\ todo = [p \in Procs |-> 0]

GoTo(p, l) == pc' = [pc EXCEPT ![p] = l]

\* wakeup() of the processes that sleep at from, with p going on to l.
\* Back from sleep() they acquire pi->lock again.
Wakeup(from, p, l) ==
    pc' = [q \in Procs |->
            IF q = p THEN l
            ELSE IF pc[q] # from THEN pc[q]
            ELSE IF from = "read_asleep" THEN "read" ELSE "write"]

Full == nwrite = (nread + PIPESIZE) % UINT
Empty == nread = nwrite

-----------------------------------------------------------------------------
\* A system call.  usertrap() does not let a killed process make one.
Call(p, n) ==
    /\ pc[p] = "user" /\ p \in open /\ ~killed[p]
    /\ todo' = [todo EXCEPT ![p] = n]
    /\ GoTo(p, IF p \in Writers THEN "write" ELSE "read")
    /\ UNCHANGED <<pipe, lock, freed, open, killed>>

\* acquire(&pi->lock)
Acquire(p) ==
    /\ pc[p] \in {"write", "read", "close"}
    /\ lock = Nobody
    /\ lock' = p
    /\ GoTo(p, CASE pc[p] = "write" -> "write_loop"
                 [] pc[p] = "read" -> "read_loop"
                 [] OTHER -> "close_locked")
    /\ UNCHANGED <<pipe, freed, open, killed, todo>>

\* release(&pi->lock) and the return.
Return(p) ==
    /\ lock' = Nobody
    /\ todo' = [todo EXCEPT ![p] = 0]

\* The reader is gone, or the writer was killed: -1.
WriteFail(p) ==
    /\ pc[p] = "write_loop" /\ todo[p] > 0
    /\ ~readopen \/ killed[p]
    /\ Return(p)
    /\ GoTo(p, "user")
    /\ UNCHANGED <<pipe, freed, open, killed>>

WriteTest(p) ==
    /\ pc[p] = "write_loop" /\ todo[p] > 0
    /\ readopen /\ ~killed[p]
    /\ GoTo(p, "write_room")
    /\ UNCHANGED <<pipe, lock, freed, open, killed, todo>>

\* Mutant: sleeps without waking the readers.
WriteFullQuiet(p) ==
    /\ pc[p] = "write_room" /\ Full
    /\ GoTo(p, "write_asleep")
    /\ lock' = Nobody
    /\ UNCHANGED <<pipe, freed, open, killed, todo>>

\* wakeup(&pi->nread); sleep(&pi->nwrite, &pi->lock)
WriteFull(p) ==
    /\ pc[p] = "write_room" /\ Full
    /\ Wakeup("read_asleep", p, "write_asleep")
    /\ lock' = Nobody
    /\ UNCHANGED <<pipe, freed, open, killed, todo>>

\* Mutant: nwrite is not reduced for the ring.
WriteByteAt0(p, b) ==
    /\ pc[p] = "write_room" /\ ~Full
    /\ data' = [data EXCEPT ![IF nwrite < PIPESIZE THEN nwrite ELSE 0] = b]
    /\ nwrite' = (nwrite + 1) % UINT
    /\ todo' = [todo EXCEPT ![p] = @ - 1]
    /\ GoTo(p, "write_loop")
    /\ UNCHANGED <<nread, readopen, writeopen, lock, freed, open, killed>>

WriteByte(p, b) ==
    /\ pc[p] = "write_room" /\ ~Full
    /\ data' = [data EXCEPT ![nwrite % PIPESIZE] = b]
    /\ nwrite' = (nwrite + 1) % UINT
    /\ todo' = [todo EXCEPT ![p] = @ - 1]
    /\ GoTo(p, "write_loop")
    /\ UNCHANGED <<nread, readopen, writeopen, lock, freed, open, killed>>

\* All is written, or copyin() failed: wakeup(&pi->nread); return i.
WriteDone(p) ==
    /\ \/ pc[p] = "write_loop" /\ todo[p] = 0
       \/ pc[p] = "write_room" /\ ~Full
    /\ Wakeup("read_asleep", p, "user")
    /\ Return(p)
    /\ UNCHANGED <<pipe, freed, open, killed>>

-----------------------------------------------------------------------------
ReadWait == Empty /\ writeopen

ReadFail(p) ==
    /\ pc[p] = "read_loop" /\ ReadWait /\ killed[p]
    /\ Return(p)
    /\ GoTo(p, "user")
    /\ UNCHANGED <<pipe, freed, open, killed>>

\* The two parts of the test of the loop, and what follows it.
ReadTest(p) ==
    /\ pc[p] = "read_loop"
    /\ ReadWait => ~killed[p]
    /\ GoTo(p, IF ReadWait THEN "read_sleep" ELSE "read_copy")
    /\ UNCHANGED <<pipe, lock, freed, open, killed, todo>>

\* sleep(&pi->nread, &pi->lock)
ReadSleep(p) ==
    /\ pc[p] = "read_sleep"
    /\ GoTo(p, "read_asleep")
    /\ lock' = Nobody
    /\ UNCHANGED <<pipe, freed, open, killed, todo>>

ReadByte(p) ==
    /\ pc[p] = "read_copy" /\ todo[p] > 0 /\ ~Empty
    /\ nread' = (nread + 1) % UINT
    /\ todo' = [todo EXCEPT ![p] = @ - 1]
    /\ UNCHANGED <<data, nwrite, readopen, writeopen, lock, freed, open, killed, pc>>

\* Mutant: wakes no writer.
ReadDoneQuiet(p) ==
    /\ pc[p] = "read_copy"
    /\ todo[p] = 0 \/ Empty
    /\ GoTo(p, "user")
    /\ Return(p)
    /\ UNCHANGED <<pipe, freed, open, killed>>

\* wakeup(&pi->nwrite); return i
ReadDone(p) ==
    /\ pc[p] = "read_copy"
    /\ todo[p] = 0 \/ Empty
    /\ Wakeup("write_asleep", p, "user")
    /\ Return(p)
    /\ UNCHANGED <<pipe, freed, open, killed>>

\* copyout() fails when the byte is taken: it is lost.
ReadFault(p) ==
    /\ pc[p] = "read_copy" /\ todo[p] > 0 /\ ~Empty
    /\ nread' = (nread + 1) % UINT
    /\ Wakeup("write_asleep", p, "user")
    /\ Return(p)
    /\ UNCHANGED <<data, nwrite, readopen, writeopen, freed, open, killed>>

-----------------------------------------------------------------------------
Ends(p) == IF p \in Writers THEN Writers ELSE Readers

\* fileclose(): the last one of its end calls pipeclose().
Close(p) ==
    /\ pc[p] = "user" /\ p \in open
    /\ open' = open \ {p}
    /\ IF (open \ {p}) \cap Ends(p) = {} THEN GoTo(p, "close") ELSE UNCHANGED pc
    /\ UNCHANGED <<pipe, lock, freed, killed, todo>>

\* Mutant: frees the pipe with the first end.
LastEndFirst(w) == TRUE

\* Whether the other end is closed already.
LastEnd(w) == IF w THEN ~readopen ELSE ~writeopen

pipeclose(p) ==
    /\ pc[p] = "close_locked"
    /\ IF p \in Writers
       THEN writeopen' = FALSE /\ Wakeup("read_asleep", p, "user") /\ UNCHANGED readopen
       ELSE readopen' = FALSE /\ Wakeup("write_asleep", p, "user") /\ UNCHANGED writeopen
    /\ lock' = Nobody
    /\ freed' = LastEnd(p \in Writers)
    /\ UNCHANGED <<data, nread, nwrite, open, killed, todo>>

\* kill() from outside: it wakes a sleeper, whatever it waits for.
Kill(p) ==
    /\ p \in Killable /\ ~killed[p]
    /\ killed' = [killed EXCEPT ![p] = TRUE]
    /\ GoTo(p, CASE pc[p] = "read_asleep" -> "read"
                 [] pc[p] = "write_asleep" -> "write"
                 [] OTHER -> pc[p])
    /\ UNCHANGED <<pipe, lock, freed, open, todo>>

Write(p) ==
    \/ WriteFail(p) \/ WriteTest(p) \/ WriteFull(p) \/ WriteDone(p)
    \/ \E b \in Bytes : WriteByte(p, b)

Read(p) ==
    \/ ReadFail(p) \/ ReadTest(p) \/ ReadSleep(p) \/ ReadByte(p)
    \/ ReadDone(p) \/ ReadFault(p)

Step(p) == Acquire(p) \/ Write(p) \/ Read(p) \/ pipeclose(p)

Next == \E p \in Procs :
    Step(p) \/ Close(p) \/ Kill(p) \/ \E n \in Lengths : Call(p, n)

Spec == Init /\ [][Next]_vars

\* The scheduler runs every process again and again; a reader goes on
\* reading, or closes its end.
FairSpec ==
    /\ Spec
    /\ \A p \in Procs : WF_vars(Step(p))
    /\ \A p \in Readers : WF_vars(Close(p) \/ \E n \in Lengths : Call(p, n))

-----------------------------------------------------------------------------
\* The bytes from nread to nwrite.
Contents ==
    [k \in 1..(nwrite + UINT - nread) % UINT |-> data[(nread + k - 1) % PIPESIZE]]

F == INSTANCE Fifo WITH Capacity <- PIPESIZE, stream <- Contents

\* Several readers and writers, whose counters wrap around, share a first in
\* first out queue of PIPESIZE bytes.
IsFifo == F!FSpec

\* "pipe-empty": while nobody holds pi->lock, a reader sleeps only if there
\* is nothing to read and somebody may still write.
ReaderSleepsOnEmpty ==
    lock = Nobody => \A p \in Readers : pc[p] = "read_asleep" => Empty /\ writeopen

\* pipeclose() gives the page of the pipe back when nobody can reach the
\* pipe any more.
NoUseAfterFree ==
    freed => open = {} /\ lock = Nobody /\ \A p \in Procs : pc[p] = "user"

\* As long as somebody reads, or the read end is closed, a writer that
\* sleeps on a full pipe is woken: piperead() and pipeclose() do it.
WriterWoken == \A p \in Writers : pc[p] = "write_asleep" ~> pc[p] # "write_asleep"
=============================================================================
