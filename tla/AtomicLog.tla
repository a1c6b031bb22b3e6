----------------------------- MODULE AtomicLog ------------------------------
(***************************************************************************)
(* What kernel/log.c promises the file system: the writes of the system    *)
(* calls between begin_op() and end_op() reach the disk together, in a     *)
(* commit that no system call is in the middle of, and a crash takes the   *)
(* file system back to the last commit.                                    *)
(***************************************************************************)
CONSTANTS Procs, Blocks, Values

VARIABLES
    mem,        \* the blocks as the system calls see them
    durable,    \* the blocks as a reboot would find them
    active      \* the processes between begin_op() and end_op()

avars == <<mem, durable, active>>

AInit ==
    /\ mem \in [Blocks -> Values]
    /\ durable = mem
    /\ active = {}

ABegin(p) ==
    /\ p \notin active
    /\ active' = active \cup {p}
    /\ UNCHANGED <<mem, durable>>

AWrite(p, b, v) ==
    /\ p \in active
    /\ mem' = [mem EXCEPT ![b] = v]
    /\ UNCHANGED <<durable, active>>

AEnd(p) ==
    /\ p \in active
    /\ active' = active \ {p}
    /\ UNCHANGED <<mem, durable>>

ACommit ==
    /\ active = {}
    /\ durable' = mem
    /\ UNCHANGED <<mem, active>>

ACrash ==
    /\ mem' = durable
    /\ active' = {}
    /\ UNCHANGED durable

ANext ==
    \/ \E p \in Procs : ABegin(p) \/ AEnd(p)
    \/ \E p \in Procs, b \in Blocks, v \in Values : AWrite(p, b, v)
    \/ ACommit
    \/ ACrash

ASpec == AInit /\ [][ANext]_avars
=============================================================================
