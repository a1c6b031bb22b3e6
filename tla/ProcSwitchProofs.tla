-------------------------- MODULE ProcSwitchProofs --------------------------
(***************************************************************************)
(* Lemmas for ProcProofs: PlaceInv holds after the steps of the scheduler, *)
(* of sched(), yield() and forkret(), after a step that moves a running    *)
(* thread only, and after a sleeper is woken.                              *)
(***************************************************************************)
EXTENDS Proc, TLAPS

USE DEF procVars, cpuVars, clock, scan

\* The labels at which a running thread does not hold its own p->lock.
Free == Interruptible \cup HoldsWaitLock \cup HoldsTicksLock

ForkLabels == {"fork_parent", "fork_runnable", "fork_insert"}

\* A thread that runs on c is in the state its label calls for.
LEMMA RunsFacts ==
    ASSUME SchedInv, NEW c \in Cpus, NEW p \in Procs, Runs(c, p)
    PROVE  /\ cpc[c] = "swtched" /\ cp[c] = p /\ cproc[c] = p
           /\ OnCpu(c, p)
           /\ pc[p] \in Free => state[p] = "RUNNING" /\ plock[p] = NULL
           /\ pc[p] \notin Free => plock[p] = c
<1>1. cpc[c] = "swtched" /\ cp[c] = p /\ cproc[c] = p /\ OnCpu(c, p)
  BY DEF SchedInv, PlaceInv, CpuInv, Runs, OnCpu
<1> QED
  BY <1>1 DEF SchedInv, PlaceInv, OnCpuInv, Free, Interruptible, HoldsWaitLock,
     HoldsTicksLock, Waking, Resumable

\* A process whose lock is free and that is neither RUNNING nor RUNNABLE is
\* on no CPU.
LEMMA UnlockedIsOff ==
    ASSUME SchedInv, NEW q \in Procs, plock[q] = NULL,
           state[q] \in {"SLEEPING", "ZOMBIE", "UNUSED", "USED"}
    PROVE  \A c \in Cpus : ~OnCpu(c, q) /\ ~Claimed(c, q)
BY CpusAssumption DEF SchedInv, PlaceInv, OnCpuInv, ClaimInv, NULL

\* Once scheduler() gets the lock of the process it claimed, that process
\* has left every other CPU and waits where swtch() will resume it.
LEMMA ClaimedFacts ==
    ASSUME SchedInv, NEW c \in Cpus, cpc[c] = "claimed", plock[cp[c]] = NULL
    PROVE  /\ cp[c] \in Procs /\ state[cp[c]] = "RUNNABLE"
           /\ \A d \in Cpus : ~OnCpu(d, cp[c])
           /\ pc[cp[c]] \in Resumable
<1>1. cp[c] \in Procs
  BY DEF SchedInv, PlaceInv, TypeOK, CpuInv
<1>2. state[cp[c]] = "RUNNABLE"
  BY <1>1 DEF SchedInv, PlaceInv, ClaimInv, Claimed
<1>3. \A d \in Cpus : ~OnCpu(d, cp[c])
  BY <1>1, <1>2, CpusAssumption DEF SchedInv, PlaceInv, OnCpuInv, NULL
<1> QED
  BY <1>1, <1>2, <1>3 DEF SchedInv, PlaceInv, OffCpuInv

-----------------------------------------------------------------------------
(***************************************************************************)
(* PlaceInv, action by action                                              *)
(***************************************************************************)

\* A running thread moves between two labels at which it holds no p->lock.
LEMMA LocalMove ==
    ASSUME SchedInv, NEW c \in Cpus, NEW p \in Procs, Runs(c, p),
           pc[p] \in Free \ ForkLabels, NEW l \in Free \ ForkLabels,
           pc' = [pc EXCEPT ![p] = l],
           UNCHANGED <<state, tree, plock, cpc, cp, cproc, np, ret>>
    PROVE  PlaceInv'
<1> USE DEF SchedInv, PlaceInv, TypeOK, Procs, NULL
<1>1. /\ cpc[c] = "swtched" /\ cp[c] = p /\ state[p] = "RUNNING"
      /\ plock[p] = NULL /\ OnCpu(c, p)
  BY RunsFacts DEF Free
<1>2. /\ pc' = [pc EXCEPT ![p] = l]
      /\ UNCHANGED <<state, tree, plock, cpc, cp, cproc, np, ret>>
      /\ pc[p] \notin {"yield_sched", "yield_ret"} \cup ForkLabels
      /\ l \notin {"yield_sched", "yield_ret"} \cup ForkLabels
  BY DEF Free, Interruptible, HoldsWaitLock, HoldsTicksLock, Waking
<1>3. CpuInv'
  BY <1>1, <1>2 DEF CpuInv
<1>4. ClaimInv'
  BY <1>1, <1>2 DEF ClaimInv, Claimed
<1>5. OneCpuPerProcess'
  BY <1>1, <1>2 DEF OneCpuPerProcess, OnCpu
<1>6. TreeIsRunnable'
  BY <1>1, <1>2 DEF TreeIsRunnable, ClaimInv, Claimed
<1>7. OnCpuInv'
  BY <1>1, <1>2, CpusAssumption DEF OnCpuInv, OnCpu, OneCpuPerProcess, Free
<1>8. OffCpuInv'
  BY <1>1, <1>2 DEF OffCpuInv, OnCpu
<1>9. ForkInv'
  BY <1>1, <1>2 DEF ForkInv, ChildInHand, Forking, Stage, Claimed, OnCpu, ForkLabels
<1>10. RunnableNotLost'
  BY <1>1, <1>2 DEF RunnableNotLost, Claimed, Stage, ForkLabels
<1> QED
  BY <1>3, <1>4, <1>5, <1>6, <1>7, <1>8, <1>9, <1>10

\* A sleeper that has left its CPU becomes RUNNABLE and enters the tree.
LEMMA WakeSleeper ==
    ASSUME SchedInv, NEW q \in Procs, state[q] = "SLEEPING", plock[q] = NULL,
           MakeRunnable(q), UNCHANGED <<plock, cpc, cp, cproc, pc, ret, np>>
    PROVE  PlaceInv'
<1> USE DEF SchedInv, PlaceInv, TypeOK, Procs, NULL
<1>1. state[q] = "SLEEPING" /\ \A c \in Cpus : ~OnCpu(c, q) /\ ~Claimed(c, q)
  BY SMTT(30), UnlockedIsOff
<1>2. /\ state' = [state EXCEPT ![q] = "RUNNABLE"]
      /\ tree' = tree \cup {q}
      /\ UNCHANGED <<plock, cpc, cp, cproc, pc, ret, np>>
  BY DEF MakeRunnable
<1>3. CpuInv'
  BY <1>1, <1>2 DEF CpuInv
<1>4. ClaimInv'
  BY <1>1, <1>2 DEF ClaimInv, Claimed
<1>5. OneCpuPerProcess'
  BY <1>1, <1>2 DEF OneCpuPerProcess, OnCpu
<1>6. TreeIsRunnable'
  BY <1>1, <1>2 DEF TreeIsRunnable, ClaimInv, Claimed
<1>7. OnCpuInv'
  BY <1>1, <1>2 DEF OnCpuInv, OnCpu, OneCpuPerProcess
<1>8. OffCpuInv'
  BY <1>1, <1>2 DEF OffCpuInv, OnCpu, Resumable
<1>9. ForkInv'
  BY <1>1, <1>2 DEF ForkInv, ChildInHand, Forking, Stage, Claimed, OnCpu
<1>10. RunnableNotLost'
  BY <1>1, <1>2 DEF RunnableNotLost, Claimed, Stage
<1> QED
  BY <1>3, <1>4, <1>5, <1>6, <1>7, <1>8, <1>9, <1>10

\* retrieveProcess(): the process leaves the tree and is claimed.
LEMMA RetrievePlace ==
    ASSUME SchedInv, NEW c \in Cpus, Retrieve(c)
    PROVE  PlaceInv'
<1> USE DEF SchedInv, PlaceInv, TypeOK, Procs, NULL
<1>1. cpc[c] = "loop" /\ cp[c] = NULL
  BY DEF Retrieve, CpuInv
<1>2. PICK p \in tree :
        /\ state[p] = "RUNNABLE"
        /\ tree' = tree \ {p}
        /\ cp' = [cp EXCEPT ![c] = p]
        /\ cpc' = [cpc EXCEPT ![c] = "claimed"]
        /\ UNCHANGED <<state, plock, cproc, pc, ret, np>>
  BY DEF Retrieve
<1>3. CpuInv'
  BY <1>1, <1>2 DEF CpuInv
<1>4. ClaimInv'
  BY <1>1, <1>2 DEF ClaimInv, Claimed
<1>5. OneCpuPerProcess'
  BY <1>1, <1>2 DEF OneCpuPerProcess, OnCpu
<1>6. TreeIsRunnable'
  BY <1>1, <1>2 DEF TreeIsRunnable, ClaimInv, Claimed
<1>7. OnCpuInv'
  BY <1>1, <1>2 DEF OnCpuInv, OnCpu, OneCpuPerProcess
<1>8. OffCpuInv'
  BY <1>1, <1>2 DEF OffCpuInv, OnCpu
<1>9. ForkInv'
  BY <1>1, <1>2 DEF ForkInv, ChildInHand, Forking, Stage, Claimed, OnCpu
<1>10. RunnableNotLost'
  BY <1>1, <1>2 DEF RunnableNotLost, Claimed, Stage
<1> QED
  BY <1>3, <1>4, <1>5, <1>6, <1>7, <1>8, <1>9, <1>10

\* scheduler() takes p->lock and switches to the process.
LEMMA DispatchPlace ==
    ASSUME SchedInv, NEW c \in Cpus, Dispatch(c)
    PROVE  PlaceInv'
<1> USE DEF SchedInv, PlaceInv, TypeOK, Procs, NULL
<1>1. cpc[c] = "claimed" /\ cp[c] \in Procs /\ state[cp[c]] = "RUNNABLE" /\ plock[cp[c]] = NULL
      /\ \A d \in Cpus : ~OnCpu(d, cp[c])
      /\ pc[cp[c]] \in Resumable
  BY ClaimedFacts DEF Dispatch
<1>2. /\ plock' = [plock EXCEPT ![cp[c]] = c]
      /\ state' = [state EXCEPT ![cp[c]] = "RUNNING"]
      /\ cproc' = [cproc EXCEPT ![c] = cp[c]]
      /\ cpc' = [cpc EXCEPT ![c] = "swtched"]
      /\ UNCHANGED <<tree, cp, pc, ret, np>>
  BY DEF Dispatch
<1>3. CpuInv'
  BY <1>1, <1>2 DEF CpuInv
<1>4. ClaimInv'
  BY <1>1, <1>2 DEF ClaimInv, Claimed
<1>5. OneCpuPerProcess'
  BY <1>1, <1>2 DEF OneCpuPerProcess, OnCpu
<1>6. TreeIsRunnable'
  BY <1>1, <1>2 DEF TreeIsRunnable, ClaimInv, Claimed
<1>7. OnCpuInv'
  BY <1>1, <1>2 DEF OnCpuInv, OnCpu, OneCpuPerProcess, Claimed
<1>8. OffCpuInv'
  BY <1>1, <1>2 DEF OffCpuInv, OnCpu
<1>9. ForkInv'
  BY <1>1, <1>2 DEF ForkInv, ChildInHand, Forking, Stage, Claimed, OnCpu
<1>10. RunnableNotLost'
  BY <1>1, <1>2 DEF RunnableNotLost, Claimed, Stage
<1> QED
  BY <1>3, <1>4, <1>5, <1>6, <1>7, <1>8, <1>9, <1>10

\* scheduler() lets go of the process it came back from.
LEMMA SchedulerBackPlace ==
    ASSUME SchedInv, NEW c \in Cpus, SchedulerBack(c)
    PROVE  PlaceInv'
<1> USE DEF SchedInv, PlaceInv, TypeOK, Procs, NULL
<1>1. cpc[c] = "back" /\ cp[c] \in Procs /\ OnCpu(c, cp[c])
  BY DEF SchedulerBack, CpuInv, OnCpu
<1>2. /\ cproc' = [cproc EXCEPT ![c] = NULL]
      /\ plock' = [plock EXCEPT ![cp[c]] = NULL]
      /\ cp' = [cp EXCEPT ![c] = NULL]
      /\ cpc' = [cpc EXCEPT ![c] = "loop"]
      /\ UNCHANGED <<state, tree, pc, ret, np>>
  BY DEF SchedulerBack
<1>3. CpuInv'
  BY <1>1, <1>2 DEF CpuInv
<1>4. ClaimInv'
  BY <1>1, <1>2 DEF ClaimInv, Claimed
<1>5. OneCpuPerProcess'
  BY <1>1, <1>2 DEF OneCpuPerProcess, OnCpu
<1>6. TreeIsRunnable'
  BY <1>1, <1>2 DEF TreeIsRunnable, ClaimInv, Claimed
<1>7. OnCpuInv'
  BY <1>1, <1>2 DEF OnCpuInv, OnCpu, OneCpuPerProcess
<1>8. OffCpuInv'
  BY <1>1, <1>2 DEF OffCpuInv, OnCpu, OnCpuInv, OneCpuPerProcess, Resumable
<1>9. ForkInv'
  BY <1>1, <1>2 DEF ForkInv, ChildInHand, Forking, Stage, Claimed, OnCpu
<1>10. RunnableNotLost'
  BY <1>1, <1>2 DEF RunnableNotLost, Claimed, Stage
<1> QED
  BY <1>3, <1>4, <1>5, <1>6, <1>7, <1>8, <1>9, <1>10

\* sched(): the thread leaves the CPU to scheduler(), still locked.
LEMMA SchedPlace ==
    ASSUME SchedInv, NEW c \in Cpus, NEW p \in Procs, Sched(c, p)
    PROVE  PlaceInv'
<1> USE DEF SchedInv, PlaceInv, TypeOK, Procs, NULL
<1>1. cpc[c] = "swtched" /\ cp[c] = p /\ pc[p] \in AtSched /\ OnCpu(c, p)
  BY RunsFacts DEF Sched
<1>2. /\ pc' = [pc EXCEPT ![p] = CASE pc[p] = "sleep_sched" -> "sleep_ret"
                                    [] pc[p] = "yield_sched" -> "yield_ret"
                                    [] OTHER -> "dead"]
      /\ cpc' = [cpc EXCEPT ![c] = "back"]
      /\ UNCHANGED <<state, plock, tree, cp, cproc, ret, np>>
  BY DEF Sched, GoTo
<1>3. CpuInv'
  BY <1>1, <1>2 DEF CpuInv
<1>4. ClaimInv'
  BY <1>1, <1>2 DEF ClaimInv, Claimed
<1>5. OneCpuPerProcess'
  BY <1>1, <1>2 DEF OneCpuPerProcess, OnCpu
<1>6. TreeIsRunnable'
  BY <1>1, <1>2 DEF TreeIsRunnable, ClaimInv, Claimed
<1>7. OnCpuInv'
  BY <1>1, <1>2 DEF OnCpuInv, OnCpu, OneCpuPerProcess, AtSched, Free, Interruptible, HoldsWaitLock, HoldsTicksLock, Waking, Resumable
<1>8. OffCpuInv'
  BY <1>1, <1>2 DEF OffCpuInv, OnCpu
<1>9. ForkInv'
  BY <1>1, <1>2 DEF ForkInv, ChildInHand, Forking, Stage, Claimed, OnCpu, AtSched
<1>10. RunnableNotLost'
  <2>1. \A q \in Procs : Stage(q)' = "fork_insert" <=> Stage(q) = "fork_insert"
    BY SMTT(30), <1>1, <1>2 DEF Stage, AtSched, Interruptible
  <2> QED
    BY <1>1, <1>2, <2>1 DEF RunnableNotLost, Claimed
<1> QED
  BY <1>3, <1>4, <1>5, <1>6, <1>7, <1>8, <1>9, <1>10

\* forkret() releases p->lock.
LEMMA ForkretPlace ==
    ASSUME SchedInv, NEW c \in Cpus, NEW p \in Procs, Forkret(c, p)
    PROVE  PlaceInv'
<1> USE DEF SchedInv, PlaceInv, TypeOK, Procs, NULL
<1>1. cpc[c] = "swtched" /\ cp[c] = p /\ pc[p] = "forkret" /\ state[p] = "RUNNING" /\ OnCpu(c, p)
  BY SMTT(30), RunsFacts DEF Forkret, OnCpuInv
<1>2. /\ plock' = [plock EXCEPT ![p] = NULL]
      /\ pc' = [pc EXCEPT ![p] = "user"]
      /\ UNCHANGED <<state, tree, cpc, cp, cproc, ret, np>>
  BY DEF Forkret, GoTo
<1>3. CpuInv'
  BY <1>1, <1>2 DEF CpuInv
<1>4. ClaimInv'
  BY <1>1, <1>2 DEF ClaimInv, Claimed
<1>5. OneCpuPerProcess'
  BY <1>1, <1>2 DEF OneCpuPerProcess, OnCpu
<1>6. TreeIsRunnable'
  BY <1>1, <1>2 DEF TreeIsRunnable, ClaimInv, Claimed
<1>7. OnCpuInv'
  BY <1>1, <1>2 DEF OnCpuInv, OnCpu, OneCpuPerProcess, Interruptible
<1>8. OffCpuInv'
  BY <1>1, <1>2 DEF OffCpuInv, OnCpu
<1>9. ForkInv'
  BY <1>1, <1>2 DEF ForkInv, ChildInHand, Forking, Stage, Claimed, OnCpu
<1>10. RunnableNotLost'
  BY <1>1, <1>2 DEF RunnableNotLost, Claimed, Stage
<1> QED
  BY <1>3, <1>4, <1>5, <1>6, <1>7, <1>8, <1>9, <1>10

\* yield(): the process enters the tree while it still runs.
LEMMA YieldPlace ==
    ASSUME SchedInv, NEW c \in Cpus, NEW p \in Procs, Yield(c, p)
    PROVE  PlaceInv'
<1> USE DEF SchedInv, PlaceInv, TypeOK, Procs, NULL
<1>1. /\ cpc[c] = "swtched" /\ cp[c] = p /\ state[p] = "RUNNING"
      /\ pc[p] \in Interruptible /\ plock[p] = NULL /\ OnCpu(c, p)
  BY RunsFacts DEF Yield, Free
<1>2. /\ plock' = [plock EXCEPT ![p] = c]
      /\ state' = [state EXCEPT ![p] = "RUNNABLE"]
      /\ tree' = tree \cup {p}
      /\ ret' = [ret EXCEPT ![p] = pc[p]]
      /\ pc' = [pc EXCEPT ![p] = "yield_sched"]
      /\ UNCHANGED <<cpc, cp, cproc, np>>
  BY DEF Yield, AcquireOwn, GoTo
<1>3. CpuInv'
  BY <1>1, <1>2 DEF CpuInv
<1>4. ClaimInv'
  BY <1>1, <1>2 DEF ClaimInv, Claimed
<1>5. OneCpuPerProcess'
  BY <1>1, <1>2 DEF OneCpuPerProcess, OnCpu
<1>6. TreeIsRunnable'
  BY <1>1, <1>2 DEF TreeIsRunnable, ClaimInv, Claimed
<1>7. OnCpuInv'
  BY <1>1, <1>2, CpusAssumption DEF OnCpuInv, OnCpu, OneCpuPerProcess
<1>8. OffCpuInv'
  BY <1>1, <1>2 DEF OffCpuInv, OnCpu
<1>9. ForkInv'
  BY <1>1, <1>2 DEF ForkInv, ChildInHand, Forking, Stage, Claimed, OnCpu, Interruptible
<1>10. RunnableNotLost'
  BY SMTT(30), <1>1, <1>2 DEF RunnableNotLost, Claimed, Stage, Interruptible
<1> QED
  BY <1>3, <1>4, <1>5, <1>6, <1>7, <1>8, <1>9, <1>10

\* Back in yield(): p->lock is released and the interrupt returns.
LEMMA YieldRetPlace ==
    ASSUME SchedInv, NEW c \in Cpus, NEW p \in Procs, YieldRet(c, p)
    PROVE  PlaceInv'
<1> USE DEF SchedInv, PlaceInv, TypeOK, Procs, NULL
<1>1. /\ cpc[c] = "swtched" /\ cp[c] = p /\ pc[p] = "yield_ret" /\ state[p] = "RUNNING"
      /\ OnCpu(c, p) /\ ret[p] \in Interruptible
  BY RunsFacts DEF YieldRet, OnCpuInv
<1>2. /\ plock' = [plock EXCEPT ![p] = NULL]
      /\ pc' = [pc EXCEPT ![p] = ret[p]]
      /\ ret' = [ret EXCEPT ![p] = "user"]
      /\ UNCHANGED <<state, tree, cpc, cp, cproc, np>>
  BY DEF YieldRet, GoTo
<1>3. CpuInv'
  BY <1>1, <1>2 DEF CpuInv
<1>4. ClaimInv'
  BY <1>1, <1>2 DEF ClaimInv, Claimed
<1>5. OneCpuPerProcess'
  BY <1>1, <1>2 DEF OneCpuPerProcess, OnCpu
<1>6. TreeIsRunnable'
  BY <1>1, <1>2 DEF TreeIsRunnable, ClaimInv, Claimed
<1>7. OnCpuInv'
  BY <1>1, <1>2 DEF OnCpuInv, OnCpu, OneCpuPerProcess
<1>8. OffCpuInv'
  BY <1>1, <1>2 DEF OffCpuInv, OnCpu
<1>9. ForkInv'
  BY <1>1, <1>2 DEF ForkInv, ChildInHand, Forking, Stage, Claimed, OnCpu, Interruptible
<1>10. RunnableNotLost'
  <2>1. \A q \in Procs : Stage(q)' = "fork_insert" <=> Stage(q) = "fork_insert"
    BY <1>1, <1>2 DEF Stage, AtSched, Interruptible
  <2> QED
    BY <1>1, <1>2, <2>1 DEF RunnableNotLost, Claimed
<1> QED
  BY <1>3, <1>4, <1>5, <1>6, <1>7, <1>8, <1>9, <1>10
=============================================================================
