-------------------------------- MODULE Proc --------------------------------
(***************************************************************************)
(* Processes and the per-CPU scheduler of kernel/proc.c.                   *)
(*                                                                         *)
(* Every CPU runs scheduler(); a process's kernel thread takes steps only  *)
(* while some CPU has switched to it.  One step of the model is one        *)
(* critical section of one lock, or one iteration of a loop over the       *)
(* process table; p->lock is explicit because it is handed over across     *)
(* swtch().  runnableTasks->lock is not: insertProcess() and               *)
(* retrieveProcess() hold it for their whole body and take no other lock.  *)
(*                                                                         *)
(* Which process retrieveProcess() returns and whether checkPreemption()   *)
(* answers 1 depend on virtual runtimes, which modules RBTree and RunQueue *)
(* treat.  Here any member of the tree may be returned and a timer tick    *)
(* may or may not preempt, so what holds here holds for every policy.      *)
(***************************************************************************)
EXTENDS Integers

CONSTANTS
    NPROC,          \* size of proc[]
    Cpus,           \* the CPUs in scheduler()
    BootCpu,        \* the CPU whose timer interrupts call clockintr()
    Killable,       \* process slots that kill() may be called for
    Sleepers,       \* process slots whose programs call sleep(n)
    MaxSleep        \* bound: 1 <= n <= MaxSleep

ASSUME NPROCAssumption == NPROC \in Nat \ {0}
ASSUME CpusAssumption == 0 \notin Cpus /\ BootCpu \in Cpus
ASSUME KillableAssumption == Killable \subseteq 2..NPROC
ASSUME SleepAssumption == Sleepers \subseteq 1..NPROC /\ MaxSleep \in Nat

Procs == 1..NPROC
NULL == 0           \* the null pointer, and the holder of a free lock
initproc == 1       \* userinit() finds every slot UNUSED and takes the first

TICKS == NPROC + 1  \* the channel &ticks; wait() sleeps on the address of its proc

ProcState == {"UNUSED", "USED", "SLEEPING", "RUNNABLE", "RUNNING", "ZOMBIE"}

(***************************************************************************)
(* Where a kernel thread stands.  A thread at one of Interruptible holds   *)
(* no spinlock, so a timer interrupt can reach it.                         *)
(***************************************************************************)
Interruptible ==
    {"user", "syscall", "fork_parent", "fork_runnable", "fork_insert",
     "wait_acquire", "tick_acquire", "exit_acquire"}
Resumable == {"forkret", "sleep_ret", "yield_ret"}
AtSched == {"sleep_sched", "yield_sched", "exit_sched"}
Waking == {"exit_wake_init", "exit_wake_parent"}
HoldsWaitLock ==
    {"wait_scan", "wait_sleep", "exit_reparent", "exit_zombie"} \cup Waking
HoldsTicksLock == {"tick_check", "tick_sleep"}
PC == Interruptible \cup Resumable \cup AtSched \cup HoldsWaitLock
        \cup HoldsTicksLock \cup {"wait_set", "tick_set", "dead"}

VARIABLES
    state, chan, killed, parent,    \* fields of struct proc
    plock,          \* p->lock: the CPU that holds it
    wait_lock, tickslock,   \* the CPU that holds each
    tree,           \* the processes linked into runnableTasks
    cpc, cp, cproc, \* scheduler() on each CPU: position, local p, c->proc
    pc,             \* where each process's kernel thread stands
    ret,            \* the point a timer interrupt broke into
    np,             \* fork(): the child being made
    left,           \* sys_sleep(): n - (ticks - ticks0)
    clk,            \* clockintr() on BootCpu: the slot its wakeup() is at, or NULL
    i, ri, havekids \* loop variables of wakeup() and wait(), of reparent(),
                    \* and wait()'s flag; live only under wait_lock

procVars == <<state, chan, killed, parent>>
cpuVars == <<cpc, cp, cproc>>
scan == <<i, ri, havekids>>
clock == <<tickslock, left, clk>>
vars == <<procVars, plock, wait_lock, tree, cpuVars, pc, ret, np, clock, scan>>

TypeOK ==
    /\ state \in [Procs -> ProcState]
    /\ chan \in [Procs -> Procs \cup {NULL, TICKS}]
    /\ killed \in [Procs -> BOOLEAN]
    /\ parent \in [Procs -> Procs \cup {NULL}]
    /\ plock \in [Procs -> Cpus \cup {NULL}]
    /\ wait_lock \in Cpus \cup {NULL}
    /\ tree \in SUBSET Procs
    /\ cpc \in [Cpus -> {"loop", "claimed", "swtched", "back"}]
    /\ cp \in [Cpus -> Procs \cup {NULL}]
    /\ cproc \in [Cpus -> Procs \cup {NULL}]
    /\ pc \in [Procs -> PC]
    /\ ret \in [Procs -> Interruptible]
    /\ np \in [Procs -> Procs \cup {NULL}]
    /\ tickslock \in Cpus \cup {NULL}
    /\ left \in [Procs -> 0..MaxSleep]
    /\ clk \in 0..NPROC + 1
    /\ i \in 1..NPROC + 1
    /\ ri \in 1..NPROC + 1
    /\ havekids \in BOOLEAN

(***************************************************************************)
(* After procinit() and userinit(): init is the only process.              *)
(***************************************************************************)
Init ==
    /\ state = [p \in Procs |-> IF p = initproc THEN "RUNNABLE" ELSE "UNUSED"]
    /\ chan = [p \in Procs |-> NULL]
    /\ killed = [p \in Procs |-> FALSE]
    /\ parent = [p \in Procs |-> NULL]
    /\ plock = [p \in Procs |-> NULL]
    /\ wait_lock = NULL
    /\ tree = {initproc}
    /\ cpc = [c \in Cpus |-> "loop"]
    /\ cp = [c \in Cpus |-> NULL]
    /\ cproc = [c \in Cpus |-> NULL]
    /\ pc = [p \in Procs |-> IF p = initproc THEN "forkret" ELSE "dead"]
    /\ ret = [p \in Procs |-> "user"]
    /\ np = [p \in Procs |-> NULL]
    /\ tickslock = NULL
    /\ left = [p \in Procs |-> 0]
    /\ clk = NULL
    /\ i = 1
    /\ ri = 1
    /\ havekids = FALSE

-----------------------------------------------------------------------------
(***************************************************************************)
(* scheduler()                                                             *)
(***************************************************************************)

\* clockintr() runs on c: whatever it interrupted there stands still.
InIntr(c) == c = BootCpu /\ clk # NULL

\* retrieveProcess() reads p->state without p->lock and gives up when it is
\* not RUNNABLE; the caller then loops, having changed nothing.
Retrieve(c) ==
    /\ cpc[c] = "loop"
    /\ ~InIntr(c)
    /\ \E p \in tree :
        /\ state[p] = "RUNNABLE"
        /\ tree' = tree \ {p}
        /\ cp' = [cp EXCEPT ![c] = p]
    /\ cpc' = [cpc EXCEPT ![c] = "claimed"]
    /\ UNCHANGED <<procVars, plock, wait_lock, cproc, pc, ret, np, scan, clock>>

\* p->lock stays held across the swtch; the thread resumed releases it.
Dispatch(c) ==
    /\ cpc[c] = "claimed"
    /\ ~InIntr(c)
    /\ plock[cp[c]] = NULL
    /\ state[cp[c]] = "RUNNABLE"
    /\ plock' = [plock EXCEPT ![cp[c]] = c]
    /\ state' = [state EXCEPT ![cp[c]] = "RUNNING"]
    /\ cproc' = [cproc EXCEPT ![c] = cp[c]]
    /\ cpc' = [cpc EXCEPT ![c] = "swtched"]
    /\ UNCHANGED <<chan, killed, parent, wait_lock, tree, cp, pc, ret, np, scan, clock>>

\* Mutant: c->proc keeps pointing at the process that left.
SchedulerBackKeepsProc(c) ==
    /\ cpc[c] = "back"
    /\ plock' = [plock EXCEPT ![cp[c]] = NULL]
    /\ cp' = [cp EXCEPT ![c] = NULL]
    /\ cpc' = [cpc EXCEPT ![c] = "loop"]
    /\ UNCHANGED <<procVars, wait_lock, tree, cproc, pc, ret, np, scan, clock>>

\* swtch() has come back: c->proc = 0; release(&p->lock).
SchedulerBack(c) ==
    /\ cpc[c] = "back"
    /\ cproc' = [cproc EXCEPT ![c] = NULL]
    /\ plock' = [plock EXCEPT ![cp[c]] = NULL]
    /\ cp' = [cp EXCEPT ![c] = NULL]
    /\ cpc' = [cpc EXCEPT ![c] = "loop"]
    /\ UNCHANGED <<procVars, wait_lock, tree, pc, ret, np, scan, clock>>

-----------------------------------------------------------------------------
(***************************************************************************)
(* Kernel threads.  Runs(c, p): CPU c has switched to p.                   *)
(***************************************************************************)
Runs(c, p) == cpc[c] = "swtched" /\ cproc[c] = p /\ ~InIntr(c)

GoTo(p, l) == pc' = [pc EXCEPT ![p] = l]

\* usertrap() for a system call: a killed process is turned to exit().  A
\* kill() that comes after this test is noticed on the way back to user mode.
Trap(c, p) ==
    /\ Runs(c, p)
    /\ pc[p] = "user"
    /\ ~killed[p]
    /\ GoTo(p, "syscall")
    /\ UNCHANGED <<procVars, plock, wait_lock, tree, cpuVars, ret, np, scan, clock>>

\* The thread is in syscall(), about to enter the handler.
Syscall(c, p) == Runs(c, p) /\ pc[p] = "syscall"

\* Mutant: the acquire is missing.
AcquireOwnSkipped(c, p) == UNCHANGED plock

\* acquire(&p->lock), by p itself.
AcquireOwn(c, p) == plock[p] = NULL /\ plock' = [plock EXCEPT ![p] = c]

\* release(&wait_lock); the scan variables are dead from here on and get
\* the values the next scan starts with.
ReleaseWaitLock ==
    /\ wait_lock' = NULL
    /\ i' = 1
    /\ ri' = 1
    /\ havekids' = FALSE

\* sched(): leave the thread where it will resume, and switch to scheduler().
Sched(c, p) ==
    /\ Runs(c, p)
    /\ pc[p] \in AtSched
    /\ GoTo(p, CASE pc[p] = "sleep_sched" -> "sleep_ret"
                 [] pc[p] = "yield_sched" -> "yield_ret"
                 [] OTHER -> "dead")
    /\ cpc' = [cpc EXCEPT ![c] = "back"]
    /\ UNCHANGED <<procVars, plock, wait_lock, tree, cp, cproc, ret, np, scan, clock>>

Forkret(c, p) ==
    /\ Runs(c, p)
    /\ pc[p] = "forkret"
    /\ plock' = [plock EXCEPT ![p] = NULL]
    /\ GoTo(p, "user")
    /\ UNCHANGED <<procVars, wait_lock, tree, cpuVars, ret, np, scan, clock>>

\* A timer interrupt whose yield() preempts.  From user mode a killed
\* process exits instead; in the kernel it is preempted like any other.
Yield(c, p) ==
    /\ Runs(c, p)
    /\ pc[p] \in Interruptible
    /\ pc[p] = "user" => ~killed[p]
    /\ AcquireOwn(c, p)
    /\ state' = [state EXCEPT ![p] = "RUNNABLE"]
    /\ tree' = tree \cup {p}
    /\ ret' = [ret EXCEPT ![p] = pc[p]]
    /\ GoTo(p, "yield_sched")
    /\ UNCHANGED <<chan, killed, parent, wait_lock, cpuVars, np, scan, clock>>

YieldRet(c, p) ==
    /\ Runs(c, p)
    /\ pc[p] = "yield_ret"
    /\ plock' = [plock EXCEPT ![p] = NULL]
    /\ GoTo(p, ret[p])
    /\ ret' = [ret EXCEPT ![p] = "user"]
    /\ UNCHANGED <<procVars, wait_lock, tree, cpuVars, np, scan, clock>>

-----------------------------------------------------------------------------
(***************************************************************************)
(* fork()                                                                  *)
(***************************************************************************)

\* allocproc() and the copying up to release(&np->lock), all under np->lock.
\* killed is not among the fields allocproc() sets.
ForkAlloc(c, p) ==
    /\ Syscall(c, p)
    /\ \E q \in Procs :
        /\ state[q] = "UNUSED"
        /\ plock[q] = NULL
        /\ state' = [state EXCEPT ![q] = "USED"]
        /\ np' = [np EXCEPT ![p] = q]
        /\ pc' = [pc EXCEPT ![p] = "fork_parent", ![q] = "forkret"]
    /\ UNCHANGED <<chan, killed, parent, plock, wait_lock, tree, cpuVars,
                   ret, scan, clock>>

\* A page allocation fails: freeproc() undoes allocproc() before np->lock is
\* released.
ForkFail(c, p) ==
    /\ Syscall(c, p)
    /\ \E q \in Procs :
        /\ state[q] = "UNUSED"
        /\ plock[q] = NULL
        /\ killed' = [killed EXCEPT ![q] = FALSE]
    /\ GoTo(p, "user")
    /\ UNCHANGED <<state, chan, parent, plock, wait_lock, tree, cpuVars, ret, np, scan, clock>>

ForkParent(c, p) ==
    /\ Runs(c, p)
    /\ pc[p] = "fork_parent"
    /\ wait_lock = NULL
    /\ parent' = [parent EXCEPT ![np[p]] = p]
    /\ GoTo(p, "fork_runnable")
    /\ UNCHANGED <<state, chan, killed, plock, wait_lock, tree, cpuVars, ret, np, scan, clock>>

ForkRunnable(c, p) ==
    /\ Runs(c, p)
    /\ pc[p] = "fork_runnable"
    /\ plock[np[p]] = NULL
    /\ state' = [state EXCEPT ![np[p]] = "RUNNABLE"]
    /\ GoTo(p, "fork_insert")
    /\ UNCHANGED <<chan, killed, parent, plock, wait_lock, tree, cpuVars, ret, np, scan, clock>>

\* insertProcess(runnableTasks, np), with np->lock already released.
ForkInsert(c, p) ==
    /\ Runs(c, p)
    /\ pc[p] = "fork_insert"
    /\ tree' = tree \cup {np[p]}
    /\ np' = [np EXCEPT ![p] = NULL]
    /\ GoTo(p, "user")
    /\ UNCHANGED <<procVars, plock, wait_lock, cpuVars, ret, scan, clock>>

-----------------------------------------------------------------------------
(***************************************************************************)
(* kill() and wakeup().  Both make a sleeper RUNNABLE and insert it while  *)
(* they hold its lock.                                                     *)
(***************************************************************************)
\* Mutant: the insertProcess() is missing.
MakeRunnableOnly(q) ==
    /\ state' = [state EXCEPT ![q] = "RUNNABLE"]
    /\ UNCHANGED tree

MakeRunnable(q) ==
    /\ state' = [state EXCEPT ![q] = "RUNNABLE"]
    /\ tree' = tree \cup {q}

\* kill(pid), at the slot whose pid matches.  An UNUSED slot has pid 0 and
\* matches kill(0).
Kill(c, p, q) ==
    /\ Syscall(c, p)
    /\ plock[q] = NULL
    /\ killed' = [killed EXCEPT ![q] = TRUE]
    /\ IF state[q] = "SLEEPING" THEN MakeRunnable(q) ELSE UNCHANGED <<state, tree>>
    /\ GoTo(p, "user")
    /\ UNCHANGED <<chan, parent, plock, wait_lock, cpuVars, ret, np, scan, clock>>

\* The loop of wakeup(ch) at slot q; me is myproc().
WakeupSlot(q, me, ch) ==
    /\ q # me => plock[q] = NULL
    /\ IF q # me /\ state[q] = "SLEEPING" /\ chan[q] = ch
         THEN MakeRunnable(q) ELSE UNCHANGED <<state, tree>>

-----------------------------------------------------------------------------
(***************************************************************************)
(* exit(), with reparent().  Closing the files is left out.                *)
(***************************************************************************)

\* Called by sys_exit(), or by usertrap() for a process that was killed or
\* trapped for no good reason.
\* init never gets here: exit() panics for it, and Killable excludes it.
ExitCall(c, p) ==
    /\ Runs(c, p)
    /\ pc[p] \in {"user", "syscall"}
    /\ p # initproc
    /\ GoTo(p, "exit_acquire")
    /\ UNCHANGED <<procVars, plock, wait_lock, tree, cpuVars, ret, np, scan, clock>>

\* Mutant: the call of reparent() is missing.
ExitAcquireNoReparent(c, p) ==
    /\ Runs(c, p)
    /\ pc[p] = "exit_acquire"
    /\ wait_lock = NULL
    /\ wait_lock' = c
    /\ GoTo(p, "exit_wake_parent")
    /\ UNCHANGED <<procVars, plock, tree, cpuVars, ret, np, scan, clock>>

ExitAcquire(c, p) ==
    /\ Runs(c, p)
    /\ pc[p] = "exit_acquire"
    /\ wait_lock = NULL
    /\ wait_lock' = c
    /\ GoTo(p, "exit_reparent")
    /\ UNCHANGED <<procVars, plock, tree, cpuVars, ret, np, scan, clock>>

ExitReparent(c, p) ==
    /\ Runs(c, p)
    /\ pc[p] = "exit_reparent"
    /\ IF ri > NPROC
         THEN GoTo(p, "exit_wake_parent") /\ UNCHANGED <<parent, ri>>
         ELSE /\ ri' = ri + 1
              /\ IF parent[ri] = p
                   THEN /\ parent' = [parent EXCEPT ![ri] = initproc]
                        /\ GoTo(p, "exit_wake_init")
                   ELSE UNCHANGED <<parent, pc>>
    /\ UNCHANGED <<state, chan, killed, plock, wait_lock, tree, cpuVars,
                   ret, np, i, havekids, clock>>

\* wakeup(initproc) inside reparent(), and wakeup(p->parent) after it.
ExitWakeup(c, p) ==
    /\ Runs(c, p)
    /\ pc[p] \in Waking
    /\ i <= NPROC
    /\ WakeupSlot(i, p, IF pc[p] = "exit_wake_init" THEN initproc ELSE parent[p])
    /\ i' = i + 1
    /\ UNCHANGED <<chan, killed, parent, plock, wait_lock, cpuVars, pc,
                   ret, np, ri, havekids, clock>>

ExitWakeupDone(c, p) ==
    /\ Runs(c, p)
    /\ pc[p] \in Waking
    /\ i > NPROC
    /\ i' = 1
    /\ GoTo(p, IF pc[p] = "exit_wake_init" THEN "exit_reparent" ELSE "exit_zombie")
    /\ UNCHANGED <<procVars, plock, wait_lock, tree, cpuVars, ret, np, ri, havekids, clock>>

\* acquire(&p->lock); p->state = ZOMBIE; release(&wait_lock).
ExitZombie(c, p) ==
    /\ Runs(c, p)
    /\ pc[p] = "exit_zombie"
    /\ AcquireOwn(c, p)
    /\ state' = [state EXCEPT ![p] = "ZOMBIE"]
    /\ ReleaseWaitLock
    /\ GoTo(p, "exit_sched")
    /\ UNCHANGED <<chan, killed, parent, tree, cpuVars, ret, np, clock>>

-----------------------------------------------------------------------------
(***************************************************************************)
(* wait()                                                                  *)
(***************************************************************************)
WaitCall(c, p) ==
    /\ Syscall(c, p)
    /\ GoTo(p, "wait_acquire")
    /\ UNCHANGED <<procVars, plock, wait_lock, tree, cpuVars, ret, np, scan, clock>>

\* acquire(&wait_lock), on entry and at the end of sleep().
WaitAcquire(c, p) ==
    /\ Runs(c, p)
    /\ pc[p] = "wait_acquire"
    /\ wait_lock = NULL
    /\ wait_lock' = c
    /\ GoTo(p, "wait_scan")
    /\ UNCHANGED <<procVars, plock, tree, cpuVars, ret, np, scan, clock>>

\* One slot that holds no zombie child.
WaitScan(c, p) ==
    /\ Runs(c, p)
    /\ pc[p] = "wait_scan"
    /\ i <= NPROC
    /\ parent[i] = p => plock[i] = NULL /\ state[i] # "ZOMBIE"
    /\ havekids' = (havekids \/ parent[i] = p)
    /\ i' = i + 1
    /\ UNCHANGED <<procVars, plock, wait_lock, tree, cpuVars, pc, ret, np, ri, clock>>

freeproc(q) ==
    /\ state' = [state EXCEPT ![q] = "UNUSED"]
    /\ chan' = [chan EXCEPT ![q] = NULL]
    /\ killed' = [killed EXCEPT ![q] = FALSE]
    /\ parent' = [parent EXCEPT ![q] = NULL]

ZombieChild(p, q) == parent[q] = p /\ plock[q] = NULL /\ state[q] = "ZOMBIE"

\* A zombie child is found.  It is freed, unless copyout() of its exit
\* status fails; either way wait() returns.
WaitReap(c, p) ==
    /\ Runs(c, p)
    /\ pc[p] = "wait_scan"
    /\ i <= NPROC
    /\ ZombieChild(p, i)
    /\ freeproc(i) \/ UNCHANGED procVars
    /\ ReleaseWaitLock
    /\ GoTo(p, "user")
    /\ UNCHANGED <<plock, tree, cpuVars, ret, np, clock>>

\* The scan is over; killed(p) takes p->lock, and is called only if there
\* are children.
WaitDecide(c, p) ==
    /\ Runs(c, p)
    /\ pc[p] = "wait_scan"
    /\ i > NPROC
    /\ havekids => plock[p] = NULL
    /\ IF ~havekids \/ killed[p]
         THEN ReleaseWaitLock /\ GoTo(p, "user")
         ELSE UNCHANGED <<wait_lock, scan>> /\ GoTo(p, "wait_sleep")
    /\ UNCHANGED <<procVars, plock, tree, cpuVars, ret, np, clock>>

-----------------------------------------------------------------------------
(***************************************************************************)
(* sys_sleep() and clockintr()                                             *)
(***************************************************************************)

\* acquire(&tickslock); ticks0 = ticks.
TickCall(c, p) ==
    /\ Syscall(c, p)
    /\ p \in Sleepers
    /\ tickslock = NULL
    /\ tickslock' = c
    /\ \E n \in 1..MaxSleep : left' = [left EXCEPT ![p] = n]
    /\ GoTo(p, "tick_check")
    /\ UNCHANGED <<procVars, plock, wait_lock, tree, cpuVars, ret, np, clk, scan>>

\* acquire(&tickslock) at the end of sleep().
TickAcquire(c, p) ==
    /\ Runs(c, p)
    /\ pc[p] = "tick_acquire"
    /\ tickslock = NULL
    /\ tickslock' = c
    /\ GoTo(p, "tick_check")
    /\ UNCHANGED <<procVars, plock, wait_lock, tree, cpuVars, ret, np, left, clk, scan>>

\* while(ticks - ticks0 < n), and killed(p), which takes p->lock.
TickCheck(c, p) ==
    /\ Runs(c, p)
    /\ pc[p] = "tick_check"
    /\ left[p] > 0 => plock[p] = NULL
    /\ IF left[p] = 0 \/ killed[p]
         THEN /\ tickslock' = NULL
              /\ left' = [left EXCEPT ![p] = 0]
              /\ GoTo(p, "user")
         ELSE UNCHANGED <<tickslock, left>> /\ GoTo(p, "tick_sleep")
    /\ UNCHANGED <<procVars, plock, wait_lock, tree, cpuVars, ret, np, clk, scan>>

InterruptsOn(c) ==
    \/ cpc[c] \in {"loop", "claimed"}
    \/ \E p \in Procs : Runs(c, p) /\ pc[p] \in Interruptible

\* The timer interrupts BootCpu, in scheduler() or under a thread that has
\* interrupts on: acquire(&tickslock); ticks++.
ClockTick ==
    /\ clk = NULL /\ InterruptsOn(BootCpu)
    /\ tickslock = NULL
    /\ tickslock' = BootCpu
    /\ left' = [p \in Procs |-> IF left[p] > 0 THEN left[p] - 1 ELSE 0]
    /\ clk' = 1
    /\ UNCHANGED <<procVars, plock, wait_lock, tree, cpuVars, pc, ret, np, scan>>

\* wakeup(&ticks), where myproc() is BootCpu's c->proc.
ClockWakeup ==
    /\ clk \in Procs
    /\ WakeupSlot(clk, cproc[BootCpu], TICKS)
    /\ clk' = clk + 1
    /\ UNCHANGED <<chan, killed, parent, plock, wait_lock, cpuVars, pc, ret, np,
                   tickslock, left, scan>>

ClockDone ==
    /\ clk > NPROC
    /\ tickslock' = NULL
    /\ clk' = NULL
    /\ UNCHANGED <<procVars, plock, wait_lock, tree, cpuVars, pc, ret, np, left, scan>>

-----------------------------------------------------------------------------
(***************************************************************************)
(* sleep(chan, lk), called with (p, &wait_lock) and (&ticks, &tickslock)   *)
(***************************************************************************)

\* acquire(&p->lock); release(lk).
SleepAcquire(c, p) ==
    /\ Runs(c, p)
    /\ pc[p] \in {"wait_sleep", "tick_sleep"}
    /\ AcquireOwn(c, p)
    /\ IF pc[p] = "wait_sleep"
         THEN ReleaseWaitLock /\ GoTo(p, "wait_set") /\ UNCHANGED tickslock
         ELSE tickslock' = NULL /\ GoTo(p, "tick_set") /\ UNCHANGED <<wait_lock, scan>>
    /\ UNCHANGED <<procVars, tree, cpuVars, ret, np, left, clk>>

SleepSet(c, p) ==
    /\ Runs(c, p)
    /\ pc[p] \in {"wait_set", "tick_set"}
    /\ chan' = [chan EXCEPT ![p] = IF pc[p] = "wait_set" THEN p ELSE TICKS]
    /\ state' = [state EXCEPT ![p] = "SLEEPING"]
    /\ GoTo(p, "sleep_sched")
    /\ UNCHANGED <<killed, parent, plock, wait_lock, tree, cpuVars, ret, np, clock, scan>>

\* Back from sched(): p->chan = 0; release(&p->lock); the caller's lock is next.
SleepRet(c, p) ==
    /\ Runs(c, p)
    /\ pc[p] = "sleep_ret"
    /\ chan' = [chan EXCEPT ![p] = NULL]
    /\ plock' = [plock EXCEPT ![p] = NULL]
    /\ GoTo(p, IF chan[p] = TICKS THEN "tick_acquire" ELSE "wait_acquire")
    /\ UNCHANGED <<state, killed, parent, wait_lock, tree, cpuVars, ret, np, clock, scan>>

-----------------------------------------------------------------------------
Scheduler(c) == Retrieve(c) \/ Dispatch(c) \/ SchedulerBack(c)

Fork(c, p) ==
    \/ ForkAlloc(c, p) \/ ForkFail(c, p) \/ ForkParent(c, p)
    \/ ForkRunnable(c, p) \/ ForkInsert(c, p)

Exit(c, p) ==
    \/ ExitCall(c, p) \/ ExitAcquire(c, p) \/ ExitReparent(c, p)
    \/ ExitWakeup(c, p) \/ ExitWakeupDone(c, p) \/ ExitZombie(c, p)

Wait(c, p) ==
    \/ WaitCall(c, p) \/ WaitAcquire(c, p) \/ WaitScan(c, p) \/ WaitReap(c, p)
    \/ WaitDecide(c, p)

Tick(c, p) == TickCall(c, p) \/ TickAcquire(c, p) \/ TickCheck(c, p)

Sleep(c, p) == SleepAcquire(c, p) \/ SleepSet(c, p) \/ SleepRet(c, p)

Clock == ClockTick \/ ClockWakeup \/ ClockDone

Thread(c, p) ==
    \/ Sched(c, p) \/ Forkret(c, p) \/ Yield(c, p) \/ YieldRet(c, p) \/ Trap(c, p)
    \/ Fork(c, p) \/ Exit(c, p) \/ Wait(c, p) \/ Tick(c, p) \/ Sleep(c, p)
    \/ \E q \in Killable : Kill(c, p, q)

Next ==
    \/ \E c \in Cpus : Scheduler(c) \/ \E p \in Procs : Thread(c, p)
    \/ Clock

Spec == Init /\ [][Next]_vars

-----------------------------------------------------------------------------
(***************************************************************************)
(* Properties                                                              *)
(***************************************************************************)
\* The point in the system call a thread is at, seen through a timer
\* interrupt that broke into it.
Stage(p) == IF pc[p] \in {"yield_sched", "yield_ret"} THEN ret[p] ELSE pc[p]

OnCpu(c, p) == cpc[c] \in {"swtched", "back"} /\ cp[c] = p
Claimed(c, p) == cpc[c] = "claimed" /\ cp[c] = p

\* Two CPUs are never on the kernel stack of the same process, although
\* yield() puts a process into the tree, where another CPU may take it,
\* before it has switched away from its stack.
OneCpuPerProcess ==
    \A p \in Procs : \A c, d \in Cpus : OnCpu(c, p) /\ OnCpu(d, p) => c = d

\* A RUNNABLE process is never lost: it is in the tree, or one CPU has just
\* taken it out to run it, or the fork() that made it RUNNABLE has yet to
\* insert it.
RunnableNotLost ==
    \A p \in Procs : state[p] = "RUNNABLE" =>
        \/ p \in tree
        \/ \E c \in Cpus : Claimed(c, p)
        \/ \E q \in Procs : np[q] = p /\ Stage(q) = "fork_insert"

\* Every process in the tree is RUNNABLE and claimed by no CPU.
\* retrieveProcess() leaves a minimum that is not RUNNABLE in place and
\* returns 0, which would stop every CPU for good.
TreeIsRunnable ==
    \A p \in tree : state[p] = "RUNNABLE" /\ \A c \in Cpus : ~Claimed(c, p)

\* The slot wait() frees and allocproc() hands out again is off every CPU
\* and out of the tree: the zombie has left its kernel stack.
FreeSlotIsIdle ==
    \A p \in Procs : state[p] \in {"UNUSED", "USED"} =>
        p \notin tree /\ \A c \in Cpus : ~OnCpu(c, p) /\ ~Claimed(c, p)

\* No lost wakeup: nobody sleeps in wait() while one of its children is a
\* zombie, except while the process giving that child away holds wait_lock.
NoLostExit ==
    wait_lock = NULL => \A p, q \in Procs :
        ~(state[p] = "SLEEPING" /\ chan[p] = p /\ parent[q] = p /\ state[q] = "ZOMBIE")

\* No lost tick: once clockintr() has released tickslock, nobody is still
\* asleep in sys_sleep() whose time is up.
NoLostTick ==
    tickslock = NULL => \A p \in Procs :
        ~(state[p] = "SLEEPING" /\ chan[p] = TICKS /\ left[p] = 0)

\* Outside exit()'s critical section every started process other than init
\* has a parent that can still wait for it.
ParentAlive ==
    wait_lock = NULL => \A q \in Procs \ {initproc} :
        state[q] \in {"SLEEPING", "RUNNABLE", "RUNNING", "ZOMBIE"} =>
            parent[q] # NULL /\ state[parent[q]] \notin {"UNUSED", "USED", "ZOMBIE"}

\* What sched() panics about: a thread that calls it holds p->lock and no
\* other lock, and has left the RUNNING state.
SchedPrecondition ==
    \A c \in Cpus, p \in Procs : Runs(c, p) /\ pc[p] \in AtSched =>
        /\ \A q \in Procs : plock[q] = c <=> q = p
        /\ wait_lock # c /\ tickslock # c
        /\ state[p] # "RUNNING"

-----------------------------------------------------------------------------
(***************************************************************************)
(* The inductive invariant behind the properties about CPUs, locks and the *)
(* tree.  It says, for each place a process can be, what its state, its    *)
(* lock and its kernel thread look like there.                             *)
(***************************************************************************)

\* fork() has a child in hand that nobody else touches.
Forking(p) == Stage(p) \in {"fork_parent", "fork_runnable", "fork_insert"}

CpuInv ==
    \A c \in Cpus :
        /\ cpc[c] = "loop" <=> cp[c] = NULL
        /\ cproc[c] = IF cpc[c] \in {"swtched", "back"} THEN cp[c] ELSE NULL

ClaimInv ==
    \A p \in Procs, c \in Cpus : Claimed(c, p) =>
        /\ state[p] = "RUNNABLE"
        /\ p \notin tree
        /\ \A d \in Cpus : Claimed(d, p) => d = c

\* A process on a CPU holds p->lock from the moment it prepares to leave
\* until scheduler() has come back, and from scheduler()'s acquire until
\* the resumed thread releases it.
OnCpuInv ==
    \A p \in Procs, c \in Cpus : OnCpu(c, p) =>
        \/ /\ cpc[c] = "swtched"
           /\ state[p] = "RUNNING"
           /\ pc[p] \in Interruptible \cup HoldsWaitLock \cup HoldsTicksLock
           /\ plock[p] = NULL
        \/ /\ cpc[c] = "swtched"
           /\ state[p] = "RUNNING"
           /\ pc[p] \in Resumable \cup {"wait_set", "tick_set"}
           /\ plock[p] = c
        \/ /\ cpc[c] = "swtched"
           /\ \/ pc[p] = "sleep_sched" /\ state[p] = "SLEEPING"
              \/ pc[p] = "yield_sched" /\ state[p] = "RUNNABLE"
              \/ pc[p] = "exit_sched" /\ state[p] = "ZOMBIE"
           /\ plock[p] = c
        \/ /\ cpc[c] = "back"
           /\ \/ pc[p] = "sleep_ret" /\ state[p] = "SLEEPING"
              \/ pc[p] = "yield_ret" /\ state[p] = "RUNNABLE"
              \/ pc[p] = "dead" /\ state[p] = "ZOMBIE"
           /\ plock[p] = c

OffCpuInv ==
    \A p \in Procs : (\A c \in Cpus : ~OnCpu(c, p)) =>
        /\ plock[p] = NULL
        /\ \/ state[p] = "RUNNABLE" /\ pc[p] \in Resumable
           \/ state[p] = "SLEEPING" /\ pc[p] = "sleep_ret"
           \/ state[p] \in {"ZOMBIE", "UNUSED"} /\ pc[p] = "dead"
           \/ state[p] = "USED" /\ pc[p] = "forkret"

\* Each child in hand belongs to one fork(), is USED until it is made
\* RUNNABLE, and is then in the tree of no one until it is inserted.
ChildInHand(p) ==
    /\ Forking(p) <=> np[p] # NULL
    /\ Forking(p) =>
        /\ state[np[p]] = IF Stage(p) = "fork_insert" THEN "RUNNABLE" ELSE "USED"
        /\ np[p] \notin tree
        /\ \A c \in Cpus : ~Claimed(c, np[p]) /\ ~OnCpu(c, np[p])
        /\ \A q \in Procs : np[q] = np[p] => q = p

ForkInv == \A p \in Procs : ChildInHand(p)

\* wait_lock and tickslock are held exactly by the threads, and by the
\* interrupt handler, that stand between acquire and release.
LockInv ==
    /\ \A p \in Procs, c \in Cpus : OnCpu(c, p) =>
        /\ pc[p] \in HoldsWaitLock <=> wait_lock = c
        /\ pc[p] \in HoldsTicksLock => tickslock = c
    /\ \A c \in Cpus :
        /\ wait_lock = c => cpc[c] = "swtched"
        /\ tickslock = c =>
            \/ InIntr(c)
            \/ cpc[c] = "swtched" /\ pc[cp[c]] \in HoldsTicksLock
    /\ clk # NULL =>
        /\ tickslock = BootCpu
        /\ \/ cpc[BootCpu] \in {"loop", "claimed"}
           \/ cpc[BootCpu] = "swtched" /\ pc[cp[BootCpu]] \in Interruptible

\* Where every process is.
PlaceInv ==
    /\ CpuInv
    /\ ClaimInv
    /\ OneCpuPerProcess
    /\ TreeIsRunnable
    /\ OnCpuInv
    /\ OffCpuInv
    /\ ForkInv
    /\ RunnableNotLost

\* The invariant that makes swtch() safe.
SchedInv == TypeOK /\ PlaceInv /\ LockInv
=============================================================================
