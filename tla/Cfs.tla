-------------------------------- MODULE Cfs --------------------------------
(***************************************************************************)
(* Time sharing in kernel/proc.c and kernel/trap.c: timer ticks, the       *)
(* accounting of runtime, checkPreemption() and the time slices that       *)
(* retrieveProcess() hands out, for a fixed set of processes.              *)
(*                                                                         *)
(* The run queue is the one of module ReadyQueue, which RunQueue shows the *)
(* red-black tree to be.  The code only compares virtual runtimes, so they *)
(* are kept relative to the smallest one.                                  *)
(***************************************************************************)
EXTENDS RBTree, Sequences, FiniteSetsExt

CONSTANTS
    Cpus,
    Tasks,          \* the processes, all started before the model begins
    Nice,           \* their nice values
    MaxLag          \* bound on the distance between virtual runtimes

ASSUME CfsAssumption ==
    /\ Tasks \subseteq Procs /\ Cardinality(Tasks) > Cardinality(Cpus)    \* no CPU is idle for long
    /\ Nice \in [Tasks -> 0..20] /\ MaxLag \in Nat

VARIABLES
    queue,              \* runnableTasks, in the order of virtualRuntime
    period,             \* runnableTasks->period
    state,              \* p->state
    virtualRuntime,
    currentRuntime,
    maximumExecution,   \* p->maximumExecutiontime
    pc,                 \* where each CPU is in scheduler() or yield()
    proc,               \* the process each CPU works with
    seen,               \* the min_vRuntime that yield() read on each CPU
    due,                \* the CPUs whose timer has yet to fire in this interval
    total,              \* ghost: all its ticks, relative to the smallest
    waited              \* ghost: intervals since it was queued, up to MaxWait + 1

taskVars == <<state, virtualRuntime, currentRuntime>>
cpuVars == <<pc, proc, seen>>
ghosts == <<total, waited>>
vars == <<queue, period, maximumExecution, taskVars, cpuVars, due, ghosts>>

RQ == INSTANCE ReadyQueue WITH Procs <- Tasks, Runtimes <- Nat

weight == [p \in Tasks |-> calculateWeight(Nice[p])]

\* Every process is queued, and has yet to run.
Init ==
    /\ virtualRuntime = [p \in Tasks |-> 0]
    /\ queue \in [1..Cardinality(Tasks) -> Tasks] /\ RQ!Ordered
    /\ period = latency
    /\ state = [p \in Tasks |-> "RUNNABLE"]
    /\ currentRuntime = [p \in Tasks |-> 0]
    /\ maximumExecution = [p \in Tasks |-> 0]
    /\ pc = [c \in Cpus |-> "idle"]
    /\ proc = [c \in Cpus |-> NULL]
    /\ seen = [c \in Cpus |-> NULL]
    /\ due = Cpus
    /\ total = virtualRuntime
    /\ waited = [p \in Tasks |-> 0]

MaxPeriod == Max({latency, Cardinality(Tasks) * min_granularity})
MaxWait == (Cardinality(Tasks) - 1) * MaxPeriod

min_vRuntime == IF queue = <<>> THEN NULL ELSE Head(queue)

\* The fields of runnableTasks that the time slices come from.
fields ==
    [count |-> Len(queue), period |-> period, min_vRuntime |-> min_vRuntime,
     rbTreeWeight |-> MapThenSumSet(LAMBDA p : weight[p], RQ!Queued)]

Goto(c, l) == pc' = [pc EXCEPT ![c] = l]

Relative(vr) ==
    LET least == Min({vr[p] : p \in Tasks})
    IN  [p \in Tasks |-> vr[p] - least]

-----------------------------------------------------------------------------
(***************************************************************************)
(* scheduler()                                                             *)
(***************************************************************************)
\* retrieveProcess() finds a process, and it is one that may run.
Ready == queue # <<>> /\ state[Head(queue)] = "RUNNABLE"

\* retrieveProcess().
Retrieve(c) ==
    /\ pc[c] = "idle" /\ Ready
    /\ queue' = Tail(queue)
    /\ period' = NewPeriod(fields)
    /\ maximumExecution' =
          [maximumExecution EXCEPT ![Head(queue)] = maximumExecutiontime(fields, weight)]
    /\ proc' = [proc EXCEPT ![c] = Head(queue)]
    /\ Goto(c, "chosen")
    /\ waited' = [waited EXCEPT ![Head(queue)] = 0]
    /\ UNCHANGED <<due, taskVars, seen, total>>

Run(c) ==
    /\ pc[c] = "chosen"
    /\ state' = [state EXCEPT ![proc[c]] = "RUNNING"]
    /\ Goto(c, "run")
    /\ UNCHANGED <<due, queue, period, virtualRuntime, currentRuntime, maximumExecution, proc, seen,
                   total, waited>>

-----------------------------------------------------------------------------
(***************************************************************************)
(* Timer interrupts: usertrap() and kerneltrap(), and yield()              *)
(***************************************************************************)
\* The timers of all CPUs fire once in an interval (timerinit() in start.c); a
\* CPU that has yet to choose a process does so well within an interval.
TimerFires(c) ==
    /\ c \in due
    /\ due' = IF due = {c} THEN Cpus ELSE due \ {c}
    /\ waited' = [p \in Tasks |->
                    IF due = {c} /\ p \in RQ!Queued THEN Min({waited[p] + 1, MaxWait + 1})
                                                     ELSE waited[p]]

\* yield() reads min_vRuntime without the lock of the tree, so the process
\* it looks at may have left the tree when it looks.
Tick(c) ==
    /\ pc[c] = "run"
    /\ TimerFires(c)
    /\ total[proc[c]] < MaxLag /\ virtualRuntime[proc[c]] + currentRuntime[proc[c]] < MaxLag
    /\ seen' = [seen EXCEPT ![c] = min_vRuntime]
    /\ Goto(c, "yield")
    /\ total' = Relative([total EXCEPT ![proc[c]] = @ + 1])
    /\ UNCHANGED <<queue, period, state, virtualRuntime, maximumExecution, proc>>

UserTick(c) ==
    /\ Tick(c)
    /\ currentRuntime' = [currentRuntime EXCEPT ![proc[c]] = @ + 1]

\* Mutant: a process goes on while nobody has a smaller runtime.
checkPreemptionLeast(current, least) ==
    /\ least # NULL /\ state[least] = "RUNNABLE"
    /\ virtualRuntime[current] > virtualRuntime[least]

checkPreemption(current, least) ==
    \/ /\ currentRuntime[current] >= maximumExecution[current]
       /\ currentRuntime[current] >= min_granularity
    \/ /\ least # NULL /\ state[least] = "RUNNABLE"
       /\ virtualRuntime[current] > virtualRuntime[least]
       /\ currentRuntime[current] = 0 \/ currentRuntime[current] >= min_granularity

\* Mutant: the process is queued but still RUNNING.
YieldRunning(c) ==
    LET p == proc[c]
    IN  /\ pc[c] = "yield"
        /\ seen' = [seen EXCEPT ![c] = NULL]
        /\ IF checkPreemption(p, seen[c])
           THEN /\ virtualRuntime' = [virtualRuntime EXCEPT ![p] = @ + currentRuntime[p]]
                /\ currentRuntime' = [currentRuntime EXCEPT ![p] = 0]
                /\ Goto(c, "insert")
           ELSE Goto(c, "run") /\ UNCHANGED <<virtualRuntime, currentRuntime>>
        /\ UNCHANGED <<due, queue, period, state, maximumExecution, proc, ghosts>>

\* yield(), up to the call of insertProcess().
Yield(c) ==
    LET p == proc[c]
    IN  /\ pc[c] = "yield"
        /\ seen' = [seen EXCEPT ![c] = NULL]
        /\ IF checkPreemption(p, seen[c])
           THEN /\ state' = [state EXCEPT ![p] = "RUNNABLE"]
                /\ virtualRuntime' = [virtualRuntime EXCEPT ![p] = @ + currentRuntime[p]]
                /\ currentRuntime' = [currentRuntime EXCEPT ![p] = 0]
                /\ Goto(c, "insert")
           ELSE Goto(c, "run") /\ UNCHANGED taskVars
        /\ UNCHANGED <<due, queue, period, maximumExecution, proc, ghosts>>

\* Where insertProcess() puts p when the runtimes are vr.
Insert(p, vr) ==
    /\ \E k \in 0..Len(queue) : RQ!IsPlace(queue, vr, k, p) /\ queue' = RQ!InsertAt(queue, k, p)
    /\ virtualRuntime' = Relative(vr)

\* Mutant: a preempted process goes to the front.
YieldInsertFront(c) ==
    /\ pc[c] = "insert"
    /\ queue' = <<proc[c]>> \o queue
    /\ virtualRuntime' = Relative(virtualRuntime)
    /\ Goto(c, "idle")
    /\ proc' = [proc EXCEPT ![c] = NULL]
    /\ UNCHANGED <<due, period, state, currentRuntime, maximumExecution, seen, ghosts>>

\* The rest of yield(): the process is queued and the CPU is back in scheduler().
YieldInsert(c) ==
    /\ pc[c] = "insert"
    /\ Insert(proc[c], virtualRuntime)
    /\ Goto(c, "idle")
    /\ proc' = [proc EXCEPT ![c] = NULL]
    /\ UNCHANGED <<due, period, state, currentRuntime, maximumExecution, seen, ghosts>>

-----------------------------------------------------------------------------
Step(c) == Retrieve(c) \/ Run(c) \/ UserTick(c) \/ Yield(c) \/ YieldInsert(c)

Next == \E c \in Cpus : Step(c)

Spec == Init /\ [][Next]_vars

\* Timer interrupts never stop (timervec in kernelvec.S), and the other
\* steps are straight code.
FairSpec == Spec /\ \A c \in Cpus : WF_vars(Step(c))

-----------------------------------------------------------------------------
OnCpu(p) == \E c \in Cpus : proc[c] = p

\* The order by virtual runtime in insertproc() and the time slices: of
\* processes that never sleep, none is ever more than one period of CPU time
\* ahead of another, whatever their nice values are.
FairShare == \A p, q \in Tasks : total[p] - total[q] <= MaxPeriod

\* No process in the queue waits longer than a period for each of the others.
BoundedWait ==
    \A p \in RQ!Queued : waited[p] <= MaxWait

\* Every process that is queued runs in the end.
NoStarvation == \A p \in Tasks : p \in RQ!Queued ~> OnCpu(p)
=============================================================================
