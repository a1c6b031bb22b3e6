-------------------------------- MODULE Log ---------------------------------
(***************************************************************************)
(* The redo log of kernel/log.c with the part of the buffer cache and of   *)
(* the disk it works on.  A step is a section under log.lock, or one disk  *)
(* block written; the machine may crash between any two steps, and in the  *)
(* middle of writing a data block.  The header fills less than one sector, *)
(* so its write is atomic.                                                 *)
(*                                                                         *)
(* sleep(&log, &log.lock) releases the lock and sleeps in one step, as     *)
(* module Proc shows.                                                      *)
(***************************************************************************)
EXTENDS Naturals, Sequences, FiniteSets, FiniteSetsExt

CONSTANTS
    Procs,          \* the processes that make file system calls
    InitProc,       \* the first process, which runs fsinit() at boot
    Blocks,         \* the blocks of the file system outside the log
    Values,         \* the contents a system call may give a block
    Absent, Torn,   \* no cached copy; a block whose write a crash cut short
    MAXOPBLOCKS,    \* the most blocks one system call writes
    LOGSIZE,        \* the space begin_op() shares out
    Size            \* sb->nlog: the blocks of the log on disk, with its header

ASSUME LogAssumption ==
    /\ InitProc \in Procs
    /\ MAXOPBLOCKS \in Nat \ {0} /\ LOGSIZE \in Nat /\ Size \in Nat \ {0}
    /\ {Absent, Torn} \cap Values = {}

VARIABLES
    outstanding, committing, lh,    \* struct log; lh holds lh.block[0..n-1]
    cache, pins,                    \* cached copies, and their pins by the log
    header, logBlock, home,         \* the disk
    pc, tail,                       \* where each process is, its loop counter
    buffer,                         \* the block a process modifies, locked
    touched,                        \* the blocks its system call wrote
    panic                           \* what the machine has stopped with

memory == <<outstanding, committing, lh, cache, pins>>
disk == <<header, logBlock, home>>
control == <<pc, tail, buffer, touched, panic>>
vars == <<memory, disk, control>>

Free == "none"
Content(b) == IF cache[b] = Absent THEN home[b] ELSE cache[b]
Booting == pc[InitProc] \in {"read_head", "recover"}
GoTo(p, l) == pc' = [pc EXCEPT ![p] = l]

\* wakeup(&log), with process p going on to l.
Wakeup(p, l) ==
    pc' = [q \in Procs |-> IF q = p THEN l ELSE IF pc[q] = "asleep" THEN "woken" ELSE pc[q]]

\* A disk made by mkfs, before the first boot.
Init ==
    /\ outstanding = 0 /\ committing = FALSE /\ lh = <<>>
    /\ cache = [b \in Blocks |-> Absent]
    /\ pins = [b \in Blocks |-> 0]
    /\ header = <<>>
    /\ logBlock = [k \in 1..Size |-> Torn]
    /\ home \in [Blocks -> Values]
    /\ pc = [p \in Procs |-> IF p = InitProc THEN "read_head" ELSE "out"]
    /\ tail = [p \in Procs |-> 0]
    /\ buffer = [p \in Procs |-> Free]
    /\ touched = [p \in Procs |-> {}]
    /\ panic = Free

\* Mutant: begin_op() forgets what the calls that are in progress may write.
NoSpaceForgetful == Len(lh) + MAXOPBLOCKS > LOGSIZE

NoSpace == Len(lh) + (outstanding + 1) * MAXOPBLOCKS > LOGSIZE

\* begin_op() finds room.  A process woken in begin_op() tests again.
BeginOp(p) ==
    /\ pc[p] \in {"out", "woken"} /\ ~Booting
    /\ ~committing /\ ~NoSpace
    /\ outstanding' = outstanding + 1
    /\ GoTo(p, "op")
    /\ UNCHANGED <<committing, lh, cache, pins, disk, tail, buffer, touched, panic>>

\* begin_op() sleeps.
BeginOpWait(p) ==
    /\ pc[p] \in {"out", "woken"} /\ ~Booting
    /\ committing \/ NoSpace
    /\ GoTo(p, "asleep")
    /\ UNCHANGED <<memory, disk, tail, buffer, touched, panic>>

\* A system call locks a buffer with bread() and modifies it.  It keeps to
\* MAXOPBLOCKS blocks.
Modify(p, b, v) ==
    /\ pc[p] = "op"
    /\ \A q \in Procs : buffer[q] # b
    /\ Cardinality(touched[p] \cup {b}) <= MAXOPBLOCKS
    /\ cache' = [cache EXCEPT ![b] = v]
    /\ buffer' = [buffer EXCEPT ![p] = b]
    /\ touched' = [touched EXCEPT ![p] = @ \cup {b}]
    /\ GoTo(p, "modified")
    /\ UNCHANGED <<outstanding, committing, lh, pins, disk, tail, panic>>

TooBig == Len(lh) >= LOGSIZE \/ Len(lh) >= Size - 1

\* log_write() and the brelse() after it.
log_write(p) ==
    /\ pc[p] = "modified"
    /\ ~TooBig /\ outstanding >= 1
    /\ IF \E k \in DOMAIN lh : lh[k] = buffer[p]
       THEN UNCHANGED <<lh, pins>>
       ELSE /\ lh' = Append(lh, buffer[p])
            /\ pins' = [pins EXCEPT ![buffer[p]] = @ + 1]
    /\ buffer' = [buffer EXCEPT ![p] = Free]
    /\ GoTo(p, "op")
    /\ UNCHANGED <<outstanding, committing, cache, disk, tail, touched, panic>>

\* Both of its tests panic(), which stops the machine.
log_writePanic(p) ==
    /\ pc[p] = "modified"
    /\ TooBig \/ outstanding < 1
    /\ panic' = IF TooBig THEN "too big a transaction" ELSE "log_write outside of trans"
    /\ UNCHANGED <<memory, disk, pc, tail, buffer, touched>>

\* end_op() up to its first release().  The last call commits; commit() does
\* nothing when nothing was logged.
end_op(p) ==
    /\ pc[p] = "op"
    /\ outstanding' = outstanding - 1
    /\ IF outstanding' = 0
       THEN committing' = TRUE /\ GoTo(p, IF Len(lh) > 0 THEN "write_log" ELSE "finish")
       ELSE UNCHANGED committing /\ Wakeup(p, "out")
    /\ touched' = [touched EXCEPT ![p] = {}]
    /\ panic' = IF committing THEN "log.committing" ELSE Free
    /\ UNCHANGED <<lh, cache, pins, disk, tail, buffer>>

\* One block of write_log(): from the cache to the log.
write_log(p) ==
    /\ pc[p] = "write_log" /\ tail[p] < Len(lh)
    /\ logBlock' = [logBlock EXCEPT ![tail[p] + 1] = Content(lh[tail[p] + 1])]
    /\ cache' = [cache EXCEPT ![lh[tail[p] + 1]] = Content(lh[tail[p] + 1])]
    /\ tail' = [tail EXCEPT ![p] = @ + 1]
    /\ UNCHANGED <<outstanding, committing, lh, pins, header, home, pc, buffer, touched, panic>>

\* Mutant: the header goes out before the blocks of the log.
write_headEarly(p) ==
    /\ pc[p] = "write_log"
    /\ header' = lh
    /\ IF tail[p] = Len(lh)
       THEN tail' = [tail EXCEPT ![p] = 0] /\ GoTo(p, "install")
       ELSE UNCHANGED <<tail, pc>>
    /\ UNCHANGED <<memory, logBlock, home, buffer, touched, panic>>

\* write_head(): "This is the true point at which the current transaction
\* commits."
write_head(p) ==
    /\ pc[p] = "write_log" /\ tail[p] = Len(lh)
    /\ header' = lh
    /\ tail' = [tail EXCEPT ![p] = 0]
    /\ GoTo(p, "install")
    /\ UNCHANGED <<memory, logBlock, home, buffer, touched, panic>>

\* Both bread()s, the memmove() and the bwrite() of install_trans().
Install(p, b) ==
    /\ home' = [home EXCEPT ![b] = logBlock[tail[p] + 1]]
    /\ cache' = [cache EXCEPT ![b] = logBlock[tail[p] + 1]]
    /\ tail' = [tail EXCEPT ![p] = @ + 1]

\* One block of install_trans(0).
install_trans(p) ==
    /\ pc[p] = "install" /\ tail[p] < Len(lh)
    /\ Install(p, lh[tail[p] + 1])
    /\ pins' = [pins EXCEPT ![lh[tail[p] + 1]] = @ - 1]
    /\ UNCHANGED <<outstanding, committing, lh, header, logBlock, pc, buffer, touched, panic>>

\* Mutant: the last block is not installed.
EraseEarly(p) ==
    /\ pc[p] = "install" /\ tail[p] = Len(lh) - 1
    /\ lh' = <<>>
    /\ header' = <<>>
    /\ tail' = [tail EXCEPT ![p] = 0]
    /\ GoTo(p, "finish")
    /\ UNCHANGED <<outstanding, committing, cache, pins, logBlock, home, buffer, touched, panic>>

\* log.lh.n = 0 and the second write_head() of commit().
Erase(p) ==
    /\ pc[p] = "install" /\ tail[p] = Len(lh)
    /\ lh' = <<>>
    /\ header' = <<>>
    /\ tail' = [tail EXCEPT ![p] = 0]
    /\ GoTo(p, "finish")
    /\ UNCHANGED <<outstanding, committing, cache, pins, logBlock, home, buffer, touched, panic>>

\* Mutant: nobody is woken after the commit.
end_opFinishQuiet(p) ==
    /\ pc[p] = "finish"
    /\ committing' = FALSE
    /\ GoTo(p, "out")
    /\ UNCHANGED <<outstanding, lh, cache, pins, disk, tail, buffer, touched, panic>>

\* The second half of end_op().
end_opFinish(p) ==
    /\ pc[p] = "finish"
    /\ committing' = FALSE
    /\ Wakeup(p, "out")
    /\ UNCHANGED <<outstanding, lh, cache, pins, disk, tail, buffer, touched, panic>>

\* recover_from_log() at boot: read_head(), install_trans(1), write_head().
read_head ==
    /\ pc[InitProc] = "read_head"
    /\ lh' = header
    /\ GoTo(InitProc, "recover")
    /\ UNCHANGED <<outstanding, committing, cache, pins, disk, tail, buffer, touched, panic>>

Recover ==
    /\ pc[InitProc] = "recover" /\ tail[InitProc] < Len(lh)
    /\ Install(InitProc, lh[tail[InitProc] + 1])
    /\ UNCHANGED <<outstanding, committing, lh, pins, header, logBlock, pc, buffer, touched, panic>>

RecoverErase ==
    /\ pc[InitProc] = "recover" /\ tail[InitProc] = Len(lh)
    /\ lh' = <<>>
    /\ header' = <<>>
    /\ tail' = [tail EXCEPT ![InitProc] = 0]
    /\ GoTo(InitProc, "out")
    /\ UNCHANGED <<outstanding, committing, cache, pins, logBlock, home, buffer, touched, panic>>

\* bread() of a block that is not cached, by a reader.
Read(b) ==
    /\ ~Booting /\ cache[b] = Absent
    /\ cache' = [cache EXCEPT ![b] = home[b]]
    /\ UNCHANGED <<outstanding, committing, lh, pins, disk, control>>

\* bget() gives the buffer of b, which nobody refers to, to another block.
Recycle(b) ==
    /\ cache[b] # Absent /\ pins[b] = 0 /\ \A p \in Procs : buffer[p] # b
    /\ cache' = [cache EXCEPT ![b] = Absent]
    /\ UNCHANGED <<outstanding, committing, lh, pins, disk, control>>

\* The machine goes down and boots again.  A data block that is being
\* written may be torn.
Crash ==
    /\ \/ UNCHANGED <<logBlock, home>>
       \/ \E p \in Procs :
            /\ pc[p] = "write_log" /\ tail[p] < Len(lh)
            /\ logBlock' = [logBlock EXCEPT ![tail[p] + 1] = Torn]
            /\ UNCHANGED home
       \/ \E p \in Procs :
            /\ pc[p] \in {"install", "recover"} /\ tail[p] < Len(lh)
            /\ home' = [home EXCEPT ![lh[tail[p] + 1]] = Torn]
            /\ UNCHANGED logBlock
    /\ UNCHANGED header
    /\ outstanding' = 0 /\ committing' = FALSE /\ lh' = <<>>
    /\ cache' = [b \in Blocks |-> Absent]
    /\ pins' = [b \in Blocks |-> 0]
    /\ pc' = [p \in Procs |-> IF p = InitProc THEN "read_head" ELSE "out"]
    /\ tail' = [p \in Procs |-> 0]
    /\ buffer' = [p \in Procs |-> Free]
    /\ touched' = [p \in Procs |-> {}]
    /\ panic' = Free

Step(p) ==
    \/ BeginOp(p) \/ BeginOpWait(p) \/ log_write(p) \/ log_writePanic(p) \/ end_op(p)
    \/ write_log(p) \/ write_head(p) \/ install_trans(p) \/ Erase(p) \/ end_opFinish(p)

Boot == read_head \/ Recover \/ RecoverErase

Next ==
    \/ panic = Free /\ \E p \in Procs : Step(p)
    \/ panic = Free /\ \E p \in Procs, b \in Blocks, v \in Values : Modify(p, b, v)
    \/ panic = Free /\ Boot
    \/ panic = Free /\ \E b \in Blocks : Read(b) \/ Recycle(b)
    \/ Crash

Spec == Init /\ [][Next]_vars

-----------------------------------------------------------------------------
InOp == {p \in Procs : pc[p] \in {"op", "modified"}}

\* What p may still add to the log.
Claim(p) == MAXOPBLOCKS - Cardinality({b \in touched[p] : \E k \in DOMAIN lh : lh[k] = b})

\* begin_op() "sleeps until the last outstanding end_op() commits" when the
\* log may run out: what is logged and what the calls in progress may still
\* log fits in LOGSIZE.
SpaceReserved == Len(lh) + MapThenSumSet(Claim, InOp) <= LOGSIZE

\* A process sleeps in begin_op() only while somebody is bound to wake it: a
\* call in progress, or the process that commits.
NoLostWakeup ==
    \A p \in Procs : pc[p] = "asleep" => committing \/ outstanding > 0

\* The disk as recover_from_log() would leave it.
Recovered == [b \in Blocks |->
    IF \E k \in DOMAIN header : header[k] = b
    THEN logBlock[CHOOSE k \in DOMAIN header : header[k] = b] ELSE home[b]]

\* When commit() is done, before other calls may begin, all that was written
\* survives a crash.
DurableAtReturn ==
    \A p \in Procs : pc[p] = "finish" => \A b \in Blocks : Content(b) = Recovered[b]

AL == INSTANCE AtomicLog WITH
    mem <- IF Booting THEN Recovered ELSE [b \in Blocks |-> Content(b)],
    durable <- Recovered,
    active <- InOp

\* The log makes system calls atomic with respect to crashes: a crash at any
\* step, during recovery too, leaves what the last commit left.
Implements == AL!ASpec
=============================================================================
