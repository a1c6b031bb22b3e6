------------------------------- MODULE Virtio -------------------------------
(***************************************************************************)
(* The disk driver of kernel/virtio_disk.c and the device behind it.       *)
(*                                                                         *)
(* A step is a section under vdisk_lock, one turn of the loop of           *)
(* virtio_disk_intr(), or a step of the device, which works in parallel,   *)
(* takes the requests it has been told of in any order, and writes the     *)
(* used ring.  A process holds the lock of its buffer, so it is named by   *)
(* the process.  What a transfer moves is left to the buffer cache; here a *)
(* transfer is served or not, and the status the device reports is 0.      *)
(***************************************************************************)
EXTENDS Naturals, FiniteSets, FiniteSetsExt, Functions

CONSTANTS
    Procs,      \* the processes that call virtio_disk_rw()
    Killable,   \* those that kill() may wake
    None,       \* a null pointer, or a descriptor without a next one
    NUM,        \* descriptors
    UINT16      \* 2^16: avail->idx and used->idx are counted modulo UINT16

Descs == 0..NUM - 1

ASSUME VirtioAssumption ==
    /\ NUM \in Nat /\ NUM >= 3 /\ NUM % 3 # 0
    /\ UINT16 \in Nat /\ UINT16 > NUM /\ UINT16 % NUM = 0
    /\ None \notin Procs \cup Descs

VARIABLES
    free, next, info,           \* disk.free, desc[].next if flagged, info[].b
    ring, availIdx,             \* disk.avail
    used, usedIdx, used_idx,    \* disk.used->ring and ->idx, disk.used_idx
    busy,                       \* b->disk
    pc, idx,                    \* each process, and its idx[0]
    seen, taken, irq,           \* the device: avail->idx it knows, the heads
                                \* it works on, its interrupt line
    intr,                       \* virtio_disk_intr() holds vdisk_lock
    served                      \* how often the device served the request

driver == <<free, next, info, busy>>
rings == <<ring, availIdx, used, usedIdx, used_idx>>
device == <<seen, taken, irq>>
vars == <<driver, rings, device, pc, idx, intr, served>>

Init ==
    /\ free = [d \in Descs |-> TRUE]
    /\ next = [d \in Descs |-> None]
    /\ info = [d \in Descs |-> None]
    /\ ring = [d \in Descs |-> 0] /\ used = [d \in Descs |-> 0]
    /\ availIdx = 0 /\ usedIdx = 0 /\ used_idx = 0
    /\ busy = [p \in Procs |-> FALSE]
    /\ pc = [p \in Procs |-> "out"]
    /\ idx = [p \in Procs |-> None]
    /\ seen = 0 /\ taken = {} /\ irq = FALSE
    /\ intr = FALSE
    /\ served = [p \in Procs |-> 0]

FreeDescs == {d \in Descs : free[d]}

\* wakeup(&disk.free[0]), with p going on to l.
WakeupFree(p, l) ==
    pc' = [q \in Procs |-> IF q = p THEN l ELSE IF pc[q] = "no_desc" THEN "alloc" ELSE pc[q]]

-----------------------------------------------------------------------------
Call(p) ==
    /\ pc[p] = "out"
    /\ pc' = [pc EXCEPT ![p] = "alloc"]
    /\ UNCHANGED <<driver, rings, device, idx, intr, served>>

\* alloc3_desc() fails.  It got one or two descriptors, since NUM is no
\* multiple of 3; it frees them, and free_desc() wakes the processes that wait
\* for descriptors.  Then the caller sleeps too.
AllocFails(p) ==
    /\ pc[p] = "alloc" /\ ~intr
    /\ Cardinality(FreeDescs) < 3
    /\ WakeupFree(p, "no_desc")
    /\ UNCHANGED <<driver, rings, device, idx, intr, served>>

EnoughDescs == Cardinality(FreeDescs) >= 3

\* alloc3_desc() takes the first free descriptors; the request is formatted,
\* put into the ring and announced, and the caller sleeps.  The device sees
\* it when avail->idx moves, and its interrupt has to wait for vdisk_lock.
Submit(p) ==
    /\ pc[p] = "alloc" /\ ~intr
    /\ EnoughDescs
    /\ LET i0 == Min(FreeDescs)
           i1 == Min(FreeDescs \ {i0})
           i2 == Min(FreeDescs \ {i0, i1})
       IN  /\ free' = [free EXCEPT ![i0] = FALSE, ![i1] = FALSE, ![i2] = FALSE]
           /\ next' = [next EXCEPT ![i0] = i1, ![i1] = i2, ![i2] = None]
           /\ info' = [info EXCEPT ![i0] = p]
           /\ ring' = [ring EXCEPT ![availIdx % NUM] = i0]
           /\ idx' = [idx EXCEPT ![p] = i0]
    /\ availIdx' = (availIdx + 1) % UINT16
    /\ busy' = [busy EXCEPT ![p] = TRUE]
    /\ pc' = [pc EXCEPT ![p] = "asleep"]
    /\ UNCHANGED <<used, usedIdx, used_idx, device, intr, served>>

\* Woken for nothing: while(b->disk == 1) sleep(...).
SleepAgain(p) ==
    /\ pc[p] = "woken" /\ ~intr /\ busy[p]
    /\ pc' = [pc EXCEPT ![p] = "asleep"]
    /\ UNCHANGED <<driver, rings, device, idx, intr, served>>

\* The descriptors that free_chain() visits from d.
Chain(d) == {d, next[d], next[next[d]]}

\* Mutant: only the head is freed.
free_chainHead(p, d) ==
    /\ free' = [free EXCEPT ![d] = TRUE]
    /\ next' = [next EXCEPT ![d] = None]
    /\ WakeupFree(p, "out")

free_chain(p, d) ==
    /\ free' = [e \in Descs |-> free[e] \/ e \in Chain(d)]
    /\ next' = [e \in Descs |-> IF e \in Chain(d) THEN None ELSE next[e]]
    /\ WakeupFree(p, "out")

\* Mutant: b->disk is not tested again after sleep().
FinishEarly(p) ==
    /\ pc[p] = "woken" /\ ~intr
    /\ info' = [info EXCEPT ![idx[p]] = None]
    /\ free_chain(p, idx[p])
    /\ idx' = [idx EXCEPT ![p] = None]
    /\ served' = [served EXCEPT ![p] = 0]
    /\ UNCHANGED <<busy, rings, device, intr>>

\* The wait is over.
Finish(p) ==
    /\ pc[p] = "woken" /\ ~intr /\ ~busy[p]
    /\ info' = [info EXCEPT ![idx[p]] = None]
    /\ free_chain(p, idx[p])
    /\ idx' = [idx EXCEPT ![p] = None]
    /\ served' = [served EXCEPT ![p] = 0]
    /\ UNCHANGED <<busy, rings, device, intr>>

\* kill() makes any sleeper RUNNABLE.
Kill(p) ==
    /\ p \in Killable /\ pc[p] \in {"asleep", "no_desc"}
    /\ pc' = [pc EXCEPT ![p] = IF @ = "asleep" THEN "woken" ELSE "alloc"]
    /\ UNCHANGED <<driver, rings, device, idx, intr, served>>

-----------------------------------------------------------------------------
\* The device reads the next entry of the avail ring, which is dead then,
Fetch ==
    /\ seen # availIdx
    /\ taken' = taken \cup {ring[seen % NUM]}
    /\ ring' = [ring EXCEPT ![seen % NUM] = 0]
    /\ seen' = (seen + 1) % UINT16
    /\ UNCHANGED <<driver, availIdx, used, usedIdx, used_idx, irq, pc, idx, intr, served>>

\* moves the data, and reports in the used ring.
Serve(d) ==
    /\ d \in taken
    /\ taken' = taken \ {d}
    /\ served' = [p \in Procs |-> IF info[d] = p THEN served[p] + 1 ELSE served[p]]
    /\ used' = [used EXCEPT ![usedIdx % NUM] = d]
    /\ usedIdx' = (usedIdx + 1) % UINT16
    /\ irq' = TRUE
    /\ UNCHANGED <<driver, ring, availIdx, used_idx, seen, pc, idx, intr>>

\* virtio_disk_intr() acknowledges the interrupt first.
IntrBegin ==
    /\ irq /\ ~intr
    /\ intr' = TRUE
    /\ irq' = FALSE
    /\ UNCHANGED <<driver, rings, seen, taken, pc, idx, served>>

\* One entry of the used ring: b->disk = 0; wakeup(b).
IntrEntry ==
    /\ intr /\ used_idx # usedIdx
    /\ LET p == info[used[used_idx % NUM]]
       IN  /\ busy' = [busy EXCEPT ![p] = FALSE]
           /\ pc' = [pc EXCEPT ![p] = IF @ = "asleep" THEN "woken" ELSE @]
    /\ used' = [used EXCEPT ![used_idx % NUM] = 0]
    /\ used_idx' = (used_idx + 1) % UINT16
    /\ UNCHANGED <<free, next, info, ring, availIdx, usedIdx, device, idx, intr, served>>

\* Mutant: returns without looking for more entries.
IntrEndOnce ==
    /\ intr
    /\ intr' = FALSE
    /\ UNCHANGED <<driver, rings, device, pc, idx, served>>

IntrEnd ==
    /\ intr /\ used_idx = usedIdx
    /\ intr' = FALSE
    /\ UNCHANGED <<driver, rings, device, pc, idx, served>>

-----------------------------------------------------------------------------
Rw(p) == AllocFails(p) \/ Submit(p) \/ SleepAgain(p) \/ Finish(p)
Intr == IntrBegin \/ IntrEntry \/ IntrEnd

Next ==
    \/ \E p \in Procs : Call(p) \/ Rw(p) \/ Kill(p)
    \/ Fetch \/ \E d \in Descs : Serve(d)
    \/ Intr

Spec == Init /\ [][Next]_vars

\* The device serves every request it has taken, interrupts are delivered,
\* and a process that spins for vdisk_lock gets it in the end: nobody holds it
\* for long.
FairSpec ==
    /\ Spec
    /\ WF_vars(Fetch) /\ \A d \in Descs : WF_vars(Serve(d))
    /\ WF_vars(Intr)
    /\ \A p \in Procs : SF_vars(Rw(p))

-----------------------------------------------------------------------------
InFlight == {p \in Procs : pc[p] \in {"asleep", "woken"}}

\* Every request in flight has three descriptors of its own and the others
\* are free: none leaks, none is freed twice (panic("free_desc 2")) and none
\* is given to two requests, however many interrupts and wakeups come.
DescsAccounted ==
    /\ \A p \in InFlight : Cardinality(Chain(idx[p])) = 3 /\ None \notin Chain(idx[p])
    /\ \A p, q \in InFlight : p # q => Chain(idx[p]) \cap Chain(idx[q]) = {}
    /\ {d \in Descs : ~free[d]} = UNION {Chain(idx[p]) : p \in InFlight}

\* virtio_disk_rw() returns only when the device is done with the request,
\* which it serves once.
DoneMeansServed ==
    \A p \in InFlight : served[p] <= 1 /\ (~busy[p] => served[p] = 1)

\* Every transfer that is submitted ends.
Completes == \A p \in Procs : pc[p] = "asleep" ~> pc[p] = "out"
=============================================================================
