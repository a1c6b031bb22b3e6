------------------------------- MODULE Bcache -------------------------------
(***************************************************************************)
(* The buffer cache of kernel/bio.c with the sleeplocks of                 *)
(* kernel/sleeplock.c.  A step is a section under bcache.lock or under the *)
(* spinlock of a sleeplock, or a transfer from or to the disk.             *)
(*                                                                         *)
(* A process that changes a buffer writes it with bwrite(), or pins it as  *)
(* log_write() does until it is written as install_trans() does.           *)
(***************************************************************************)
EXTENDS Naturals, Sequences, FiniteSets

CONSTANTS
    Procs,
    Blocks,     \* disk blocks
    Values,     \* what a block may contain
    None,       \* nobody, no block, no buffer
    NBUF

Bufs == 1..NBUF

ASSUME BcacheAssumption ==
    /\ NBUF \in Nat \ {0} /\ None \notin Procs \cup Blocks \cup Bufs
    /\ IsFiniteSet(Procs) /\ Values # {}

VARIABLES
    list,                           \* head.next first, head.prev last
    blockno, valid, refcnt, data,   \* struct buf
    locked,                         \* who has the sleeplock of each buffer
    pinned,                         \* the buffers log_write() has pinned
    disk,
    pc, want, got,                  \* each process: its bread() and buffer
    panicked

bufs == <<blockno, valid, refcnt, data>>
vars == <<list, bufs, locked, pinned, disk, pc, want, got, panicked>>

\* binit() puts each buffer in front of those before it.
Init ==
    /\ list = [i \in Bufs |-> NBUF + 1 - i]
    /\ blockno = [b \in Bufs |-> None]
    /\ valid = [b \in Bufs |-> FALSE]
    /\ refcnt = [b \in Bufs |-> 0]
    /\ data = [b \in Bufs |-> CHOOSE v \in Values : TRUE]
    /\ locked = [b \in Bufs |-> None]
    /\ pinned = {}
    /\ disk \in [Blocks -> Values]
    /\ pc = [p \in Procs |-> "out"]
    /\ want = [p \in Procs |-> None]
    /\ got = [p \in Procs |-> None]
    /\ panicked = FALSE

GoTo(p, l) == pc' = [pc EXCEPT ![p] = l]

-----------------------------------------------------------------------------
Call(p, k) ==
    /\ pc[p] = "out"
    /\ want' = [want EXCEPT ![p] = k]
    /\ GoTo(p, "bget")
    /\ UNCHANGED <<list, bufs, locked, pinned, disk, got, panicked>>

Cached(k) == {b \in Bufs : blockno[b] = k}
Unused == {b \in Bufs : refcnt[b] = 0}

bgetHit(p, b) ==
    /\ pc[p] = "bget" /\ b \in Cached(want[p])
    /\ refcnt' = [refcnt EXCEPT ![b] = @ + 1]
    /\ got' = [got EXCEPT ![p] = b]
    /\ GoTo(p, "lock")
    /\ UNCHANGED <<list, blockno, valid, data, locked, pinned, disk, want, panicked>>

\* Mutant: takes the least recently used buffer, in use or not.
LeastRecentlyUsedAny(b) == b = list[Len(list)]

\* The unused buffer that is last in the list.
LeastRecentlyUsed(b) ==
    LET unused == SelectSeq(list, LAMBDA c : c \in Unused)
    IN  b \in Unused /\ b = unused[Len(unused)]

\* Mutant: the recycled buffer still counts as read.
bgetMissValid(p, b) ==
    /\ pc[p] = "bget" /\ Cached(want[p]) = {} /\ LeastRecentlyUsed(b)
    /\ blockno' = [blockno EXCEPT ![b] = want[p]]
    /\ refcnt' = [refcnt EXCEPT ![b] = 1]
    /\ got' = [got EXCEPT ![p] = b]
    /\ GoTo(p, "lock")
    /\ UNCHANGED <<list, valid, data, locked, pinned, disk, want, panicked>>

bgetMiss(p, b) ==
    /\ pc[p] = "bget" /\ Cached(want[p]) = {} /\ LeastRecentlyUsed(b)
    /\ blockno' = [blockno EXCEPT ![b] = want[p]]
    /\ valid' = [valid EXCEPT ![b] = FALSE]
    /\ refcnt' = [refcnt EXCEPT ![b] = 1]
    /\ got' = [got EXCEPT ![p] = b]
    /\ GoTo(p, "lock")
    /\ UNCHANGED <<list, data, locked, pinned, disk, want, panicked>>

\* panic("bget: no buffers")
bgetPanic(p) ==
    /\ pc[p] = "bget" /\ Cached(want[p]) = {} /\ Unused = {}
    /\ panicked' = TRUE
    /\ UNCHANGED <<list, bufs, locked, pinned, disk, pc, want, got>>

\* acquiresleep(&b->lock)
acquiresleep(p) ==
    /\ pc[p] = "lock" /\ locked[got[p]] = None
    /\ locked' = [locked EXCEPT ![got[p]] = p]
    /\ GoTo(p, "bread")
    /\ UNCHANGED <<list, bufs, pinned, disk, want, got, panicked>>

acquiresleepWait(p) ==
    /\ pc[p] = "lock" /\ locked[got[p]] # None
    /\ GoTo(p, "asleep")
    /\ UNCHANGED <<list, bufs, locked, pinned, disk, want, got, panicked>>

\* kill() makes a sleeper RUNNABLE, and it tries again.
Kill(p) ==
    /\ pc[p] = "asleep"
    /\ GoTo(p, "lock")
    /\ UNCHANGED <<list, bufs, locked, pinned, disk, want, got, panicked>>

\* The rest of bread(): virtio_disk_rw(b, 0) unless the buffer is valid.
bread(p) ==
    /\ pc[p] = "bread"
    /\ valid' = [valid EXCEPT ![got[p]] = TRUE]
    /\ data' = [data EXCEPT ![got[p]] = IF valid[got[p]] THEN @ ELSE disk[blockno[got[p]]]]
    /\ GoTo(p, "holds")
    /\ UNCHANGED <<list, blockno, refcnt, locked, pinned, disk, want, got, panicked>>

-----------------------------------------------------------------------------
\* The owner changes the buffer; bwrite().
bwrite(p, v) ==
    /\ pc[p] = "holds" /\ got[p] \notin pinned
    /\ data' = [data EXCEPT ![got[p]] = v]
    /\ disk' = [disk EXCEPT ![blockno[got[p]]] = v]
    /\ UNCHANGED <<list, blockno, valid, refcnt, locked, pinned, pc, want, got, panicked>>

\* The owner changes the buffer, and log_write() pins it the first time.
bpin(p, v) ==
    /\ pc[p] = "holds"
    /\ data' = [data EXCEPT ![got[p]] = v]
    /\ refcnt' = [refcnt EXCEPT ![got[p]] = IF got[p] \in pinned THEN @ ELSE @ + 1]
    /\ pinned' = pinned \cup {got[p]}
    /\ UNCHANGED <<list, blockno, valid, locked, disk, pc, want, got, panicked>>

\* install_trans() writes it and unpins it.
bunpin(p) ==
    /\ pc[p] = "holds" /\ got[p] \in pinned
    /\ disk' = [disk EXCEPT ![blockno[got[p]]] = data[got[p]]]
    /\ refcnt' = [refcnt EXCEPT ![got[p]] = @ - 1]
    /\ pinned' = pinned \ {got[p]}
    /\ UNCHANGED <<list, blockno, valid, data, locked, pc, want, got, panicked>>

\* Mutant: releasesleep() wakes nobody.
releasesleepQuiet(p) ==
    /\ pc[p] = "holds"
    /\ locked' = [locked EXCEPT ![got[p]] = None]
    /\ GoTo(p, "brelse")
    /\ UNCHANGED <<list, bufs, pinned, disk, want, got, panicked>>

\* brelse(), first releasesleep(&b->lock),
releasesleep(p) ==
    /\ pc[p] = "holds"
    /\ locked' = [locked EXCEPT ![got[p]] = None]
    /\ pc' = [q \in Procs |->
                IF q = p THEN "brelse"
                ELSE IF pc[q] = "asleep" /\ got[q] = got[p] THEN "lock" ELSE pc[q]]
    /\ UNCHANGED <<list, bufs, pinned, disk, want, got, panicked>>

\* then the reference; an unused buffer becomes the most recently used.
brelse(p) ==
    /\ pc[p] = "brelse"
    /\ refcnt' = [refcnt EXCEPT ![got[p]] = @ - 1]
    /\ list' = IF refcnt[got[p]] = 1
               THEN <<got[p]>> \o SelectSeq(list, LAMBDA c : c # got[p]) ELSE list
    /\ want' = [want EXCEPT ![p] = None]
    /\ got' = [got EXCEPT ![p] = None]
    /\ GoTo(p, "out")
    /\ UNCHANGED <<blockno, valid, data, locked, pinned, disk, panicked>>

-----------------------------------------------------------------------------
bget(p) == bgetPanic(p) \/ \E b \in Bufs : bgetHit(p, b) \/ bgetMiss(p, b)

Step(p) ==
    \/ bget(p) \/ acquiresleep(p) \/ acquiresleepWait(p) \/ bread(p)
    \/ releasesleep(p) \/ brelse(p)

Use(p) == bunpin(p) \/ \E v \in Values : bwrite(p, v) \/ bpin(p, v)

Next ==
    /\ ~panicked
    /\ \E p \in Procs : Step(p) \/ Use(p) \/ Kill(p) \/ \E k \in Blocks : Call(p, k)

Spec == Init /\ [][Next]_vars

\* Every process that can run is run; an owner that writes again and again
\* still releases the buffer in the end.
FairSpec ==
    /\ Spec
    /\ \A p \in Procs : WF_vars(~panicked /\ Step(p))

-----------------------------------------------------------------------------
\* Between bget() and brelse() the buffer a process has got stays the
\* buffer of the block it asked for: nobody recycles it while the process
\* waits for the sleeplock.
KeepsBlock == \A p \in Procs : got[p] # None => blockno[got[p]] = want[p]

\* The contents of a block are those of its buffer, once that has been read.
Contents == [k \in Blocks |->
    IF \E b \in Cached(k) : valid[b] THEN data[CHOOSE b \in Cached(k) : valid[b]] ELSE disk[k]]

Holds(p, k) == pc[p] = "holds" /\ want[p] = k

Owner == [k \in Blocks |->
    IF \E p \in Procs : Holds(p, k) THEN CHOOSE p \in Procs : Holds(p, k) ELSE None]

S == INSTANCE BlockStore WITH contents <- Contents, owner <- Owner

\* The cache is coherent: each block has one owner at a time and the
\* contents the last one left, whatever is recycled, pinned or read again.
IsStore == S!SSpec

\* A process that waits for a buffer is woken.
Woken == \A p \in Procs : pc[p] = "asleep" ~> (pc[p] # "asleep" \/ panicked)
=============================================================================
