--------------------------- MODULE ProcLockProofs ---------------------------
(***************************************************************************)
(* Lemmas for ProcProofs: LockInv and TypeOK hold after every step.        *)
(***************************************************************************)
EXTENDS ProcSwitchProofs

USE DEF procVars, cpuVars, clock, scan

\* Every step keeps the two global locks where LockInv says they are.
LEMMA LockStep == SchedInv /\ [Next]_vars => LockInv'
<1> SUFFICES ASSUME SchedInv, [Next]_vars PROVE LockInv'
  OBVIOUS
<1> USE CpusAssumption DEF SchedInv, PlaceInv, LockInv, TypeOK, NULL, OnCpu, Runs, InIntr,
        Interruptible, HoldsWaitLock, HoldsTicksLock, Waking, Resumable, AtSched,
        GoTo, AcquireOwn, ReleaseWaitLock, CpuInv, OneCpuPerProcess
<1>1. ASSUME NEW c \in Cpus, Retrieve(c) PROVE LockInv'
  BY <1>1 DEF Retrieve
<1>2. ASSUME NEW c \in Cpus, Dispatch(c) PROVE LockInv'
  <2>1. pc[cp[c]] \in Resumable /\ cp[c] \in Procs
    BY <1>2, ClaimedFacts DEF Dispatch
  <2> QED
    BY <1>2, <2>1 DEF Dispatch
<1>3. ASSUME NEW c \in Cpus, SchedulerBack(c) PROVE LockInv'
  BY <1>3 DEF SchedulerBack
<1>4. ASSUME NEW c \in Cpus, NEW p \in Procs, Sched(c, p) PROVE LockInv'
  <2>1. /\ pc'[p] \in {"sleep_ret", "yield_ret", "dead"}
        /\ \A q \in Procs \ {p} : pc'[q] = pc[q]
    BY <1>4 DEF Sched
  <2> HIDE DEF GoTo
  <2> QED
    BY <1>4, <2>1 DEF Sched
<1>5. ASSUME NEW c \in Cpus, NEW p \in Procs, Forkret(c, p) PROVE LockInv'
  BY <1>5 DEF Forkret
<1>6. ASSUME NEW c \in Cpus, NEW p \in Procs, Yield(c, p) PROVE LockInv'
  BY <1>6 DEF Yield
<1>7. ASSUME NEW c \in Cpus, NEW p \in Procs, YieldRet(c, p) PROVE LockInv'
  <2>1. /\ pc'[p] \in Interruptible
        /\ \A q \in Procs \ {p} : pc'[q] = pc[q]
    BY <1>7 DEF YieldRet
  <2> HIDE DEF GoTo
  <2> QED
    BY <1>7, <2>1 DEF YieldRet
<1>8. ASSUME NEW c \in Cpus, NEW p \in Procs, Trap(c, p) PROVE LockInv'
  BY <1>8 DEF Trap
<1>9. ASSUME NEW c \in Cpus, NEW p \in Procs, ForkAlloc(c, p) PROVE LockInv'
  <2>1. PICK q \in Procs :
        /\ state[q] = "UNUSED" /\ plock[q] = NULL
        /\ pc' = [pc EXCEPT ![p] = "fork_parent", ![q] = "forkret"]
    BY <1>9 DEF ForkAlloc
  <2>2. \A d \in Cpus : ~OnCpu(d, q)
    BY <2>1, UnlockedIsOff
  <2>3. /\ pc[p] = "syscall" /\ cpc[c] = "swtched" /\ cp[c] = p
        /\ UNCHANGED <<cpc, cp, wait_lock, tickslock, clk>>
    BY <1>9 DEF ForkAlloc, Syscall
  <2>4. \A r \in Procs, d \in Cpus : OnCpu(d, r) =>
            /\ r # q
            /\ pc'[r] = IF r = p THEN "fork_parent" ELSE pc[r]
    BY <2>1, <2>2
  <2>5. \A r \in Procs, d \in Cpus : OnCpu(d, r) =>
            /\ pc'[r] \in HoldsWaitLock <=> pc[r] \in HoldsWaitLock
            /\ pc'[r] \in HoldsTicksLock <=> pc[r] \in HoldsTicksLock
            /\ pc[r] \in Interruptible => pc'[r] \in Interruptible
    BY <2>3, <2>4
  <2> HIDE DEF HoldsWaitLock, HoldsTicksLock, Interruptible
  <2> QED
    BY <2>3, <2>5
<1>10. ASSUME NEW c \in Cpus, NEW p \in Procs, ForkFail(c, p) PROVE LockInv'
  BY <1>10 DEF ForkFail, Syscall
<1>11. ASSUME NEW c \in Cpus, NEW p \in Procs, ForkParent(c, p) PROVE LockInv'
  BY <1>11 DEF ForkParent
<1>12. ASSUME NEW c \in Cpus, NEW p \in Procs, ForkRunnable(c, p) PROVE LockInv'
  BY <1>12 DEF ForkRunnable
<1>13. ASSUME NEW c \in Cpus, NEW p \in Procs, ForkInsert(c, p) PROVE LockInv'
  BY <1>13 DEF ForkInsert
<1>14. ASSUME NEW c \in Cpus, NEW p \in Procs, ExitCall(c, p) PROVE LockInv'
  BY <1>14 DEF ExitCall
<1>15. ASSUME NEW c \in Cpus, NEW p \in Procs, ExitAcquire(c, p) PROVE LockInv'
  BY <1>15 DEF ExitAcquire
<1>16. ASSUME NEW c \in Cpus, NEW p \in Procs, ExitReparent(c, p) PROVE LockInv'
  BY <1>16 DEF ExitReparent
<1>17. ASSUME NEW c \in Cpus, NEW p \in Procs, ExitWakeup(c, p) PROVE LockInv'
  BY <1>17 DEF ExitWakeup
<1>18. ASSUME NEW c \in Cpus, NEW p \in Procs, ExitWakeupDone(c, p)
      PROVE  LockInv'
  BY <1>18 DEF ExitWakeupDone
<1>19. ASSUME NEW c \in Cpus, NEW p \in Procs, ExitZombie(c, p) PROVE LockInv'
  BY <1>19 DEF ExitZombie
<1>20. ASSUME NEW c \in Cpus, NEW p \in Procs, WaitCall(c, p) PROVE LockInv'
  BY <1>20 DEF WaitCall, Syscall
<1>21. ASSUME NEW c \in Cpus, NEW p \in Procs, WaitAcquire(c, p) PROVE LockInv'
  BY <1>21 DEF WaitAcquire
<1>22. ASSUME NEW c \in Cpus, NEW p \in Procs, WaitScan(c, p) PROVE LockInv'
  BY <1>22 DEF WaitScan
<1>23. ASSUME NEW c \in Cpus, NEW p \in Procs, WaitReap(c, p) PROVE LockInv'
  BY <1>23 DEF WaitReap
<1>24. ASSUME NEW c \in Cpus, NEW p \in Procs, WaitDecide(c, p) PROVE LockInv'
  BY <1>24 DEF WaitDecide
<1>25. ASSUME NEW c \in Cpus, NEW p \in Procs, TickCall(c, p) PROVE LockInv'
  BY <1>25 DEF TickCall, Syscall
<1>26. ASSUME NEW c \in Cpus, NEW p \in Procs, TickAcquire(c, p) PROVE LockInv'
  BY <1>26 DEF TickAcquire
<1>27. ASSUME NEW c \in Cpus, NEW p \in Procs, TickCheck(c, p) PROVE LockInv'
  BY <1>27 DEF TickCheck
<1>28. ASSUME NEW c \in Cpus, NEW p \in Procs, SleepAcquire(c, p) PROVE LockInv'
  <2>1. CASE pc[p] = "wait_sleep"
    BY <1>28, <2>1 DEF SleepAcquire
  <2>2. CASE pc[p] = "tick_sleep"
    BY <1>28, <2>2 DEF SleepAcquire
  <2> QED
    BY <1>28, <2>1, <2>2 DEF SleepAcquire
<1>29. ASSUME NEW c \in Cpus, NEW p \in Procs, SleepSet(c, p) PROVE LockInv'
  BY <1>29 DEF SleepSet
<1>30. ASSUME NEW c \in Cpus, NEW p \in Procs, SleepRet(c, p) PROVE LockInv'
  BY <1>30 DEF SleepRet
<1>31. ASSUME NEW c \in Cpus, NEW p \in Procs, NEW q \in Killable, Kill(c, p, q)
      PROVE  LockInv'
  BY <1>31 DEF Kill, Syscall
<1>32. ASSUME ClockTick PROVE LockInv'
  <2>1. /\ clk = NULL /\ tickslock = NULL /\ tickslock' = BootCpu /\ clk' = 1
        /\ UNCHANGED <<cpc, cp, pc, wait_lock>>
    BY <1>32 DEF ClockTick
  <2>2. \/ cpc[BootCpu] \in {"loop", "claimed"}
        \/ cpc[BootCpu] = "swtched" /\ pc[cp[BootCpu]] \in Interruptible
    BY <1>32 DEF ClockTick, InterruptsOn
  <2>3. \A q \in Procs, d \in Cpus : OnCpu(d, q) => pc[q] \notin HoldsTicksLock
    BY <2>1
  <2> QED
    BY <2>1, <2>2, <2>3
<1>33. ASSUME ClockWakeup PROVE LockInv'
  <2>1. clk # NULL /\ clk' # NULL
    BY <1>33, NPROCAssumption DEF ClockWakeup, Procs
  <2>2. UNCHANGED <<cpc, cp, pc, wait_lock, tickslock>>
    BY <1>33 DEF ClockWakeup
  <2> QED
    BY <2>1, <2>2
<1>34. ASSUME ClockDone PROVE LockInv'
  <2>1. /\ clk # NULL /\ tickslock' = NULL /\ clk' = NULL
        /\ UNCHANGED <<cpc, cp, pc, wait_lock>>
    BY <1>34, NPROCAssumption DEF ClockDone
  <2>2. \A q \in Procs, d \in Cpus : OnCpu(d, q) => pc[q] \notin HoldsTicksLock
    BY <2>1
  <2> QED
    BY <2>1, <2>2
<1>35. ASSUME UNCHANGED vars PROVE LockInv'
  BY <1>35 DEF vars
<1> QED
  BY <1>1, <1>2, <1>3, <1>4, <1>5, <1>6, <1>7, <1>8, <1>9, <1>10, <1>11,
     <1>12, <1>13, <1>14, <1>15, <1>16, <1>17, <1>18, <1>19, <1>20, <1>21,
     <1>22, <1>23, <1>24, <1>25, <1>26, <1>27, <1>28, <1>29, <1>30, <1>31,
     <1>32, <1>33, <1>34, <1>35
  DEF Next, Scheduler, Thread, Fork, Exit, Wait, Tick, Sleep, Clock

-----------------------------------------------------------------------------
(***************************************************************************)
(* TypeOK and LockInv                                                      *)
(***************************************************************************)
\* The labels the actions write, and that PC contains them.
LEMMA PCFacts ==
    /\ {"user", "syscall", "fork_parent", "fork_runnable", "fork_insert",
         "wait_acquire", "tick_acquire", "exit_acquire", "forkret",
         "sleep_ret", "yield_ret", "sleep_sched", "yield_sched",
         "exit_sched", "exit_wake_init", "exit_wake_parent", "wait_scan",
         "wait_sleep", "exit_reparent", "exit_zombie", "tick_check",
         "tick_sleep", "wait_set", "tick_set", "dead"} \subseteq PC
    /\ Interruptible \subseteq PC
    /\ "user" \in Interruptible
BY DEF PC, Interruptible, Resumable, AtSched, HoldsWaitLock, HoldsTicksLock, Waking

\* Waking a sleeper, or not, keeps the types of what it changes.
LEMMA WakeType ==
    ASSUME TypeOK, NEW q \in Procs, MakeRunnable(q) \/ UNCHANGED <<state, tree>>
    PROVE  state' \in [Procs -> ProcState] /\ tree' \in SUBSET Procs
<1>1. CASE UNCHANGED <<state, tree>>
  BY <1>1 DEF TypeOK
<1>2. CASE MakeRunnable(q)
  BY SMTT(30), <1>2 DEF TypeOK, MakeRunnable, ProcState
<1> QED
  BY <1>1, <1>2

\* Every step keeps the types.  SchedInv is needed because fork() inserts
\* np, which must not be null.
LEMMA TypeStep == SchedInv /\ [Next]_vars => TypeOK'
<1> SUFFICES ASSUME SchedInv, [Next]_vars PROVE TypeOK'
  OBVIOUS
<1> USE NPROCAssumption, CpusAssumption, KillableAssumption, SleepAssumption
<1> USE PCFacts DEF SchedInv, TypeOK, Procs, NULL, TICKS, initproc, ProcState, GoTo,
        AcquireOwn, ReleaseWaitLock
<1>1. ASSUME NEW c \in Cpus, Retrieve(c) PROVE TypeOK'
  BY <1>1 DEF Retrieve
<1>2. ASSUME NEW c \in Cpus, Dispatch(c) PROVE TypeOK'
  BY <1>2 DEF Dispatch
<1>3. ASSUME NEW c \in Cpus, SchedulerBack(c) PROVE TypeOK'
  BY <1>3 DEF SchedulerBack
<1>4. ASSUME NEW c \in Cpus, NEW p \in Procs, Sched(c, p) PROVE TypeOK'
  BY SMTT(30), <1>4 DEF Sched
<1>5. ASSUME NEW c \in Cpus, NEW p \in Procs, Forkret(c, p) PROVE TypeOK'
  BY SMTT(30), <1>5 DEF Forkret
<1>6. ASSUME NEW c \in Cpus, NEW p \in Procs, Yield(c, p) PROVE TypeOK'
  BY <1>6 DEF Yield
<1>7. ASSUME NEW c \in Cpus, NEW p \in Procs, YieldRet(c, p) PROVE TypeOK'
  BY SMTT(30), <1>7 DEF YieldRet
<1>8. ASSUME NEW c \in Cpus, NEW p \in Procs, Trap(c, p) PROVE TypeOK'
  BY <1>8 DEF Trap
<1>9. ASSUME NEW c \in Cpus, NEW p \in Procs, ForkAlloc(c, p) PROVE TypeOK'
  <2>1. PICK q \in Procs :
        /\ state' = [state EXCEPT ![q] = "USED"]
        /\ np' = [np EXCEPT ![p] = q]
        /\ pc' = [pc EXCEPT ![p] = "fork_parent", ![q] = "forkret"]
    BY <1>9 DEF ForkAlloc
  <2>2. state' \in [Procs -> ProcState]
    BY <2>1
  <2>3. np' \in [Procs -> Procs \cup {NULL}] /\ pc' \in [Procs -> PC]
    BY <2>1
  <2> QED
    BY <1>9, <2>2, <2>3 DEF ForkAlloc
<1>10. ASSUME NEW c \in Cpus, NEW p \in Procs, ForkFail(c, p) PROVE TypeOK'
  BY <1>10 DEF ForkFail
<1>11. ASSUME NEW c \in Cpus, NEW p \in Procs, ForkParent(c, p) PROVE TypeOK'
  BY <1>11 DEF ForkParent
<1>12. ASSUME NEW c \in Cpus, NEW p \in Procs, ForkRunnable(c, p) PROVE TypeOK'
  BY <1>12 DEF ForkRunnable
<1>13. ASSUME NEW c \in Cpus, NEW p \in Procs, ForkInsert(c, p) PROVE TypeOK'
  <2>1. np[p] \in Procs
    <3>1. ChildInHand(p) /\ pc[p] = "fork_insert"
      BY <1>13 DEF ForkInsert, PlaceInv, ForkInv
    <3>2. np[p] # NULL
      BY <3>1 DEF ChildInHand, Forking, Stage
    <3> QED
      BY <3>2
  <2> QED
    BY <1>13, <2>1 DEF ForkInsert
<1>14. ASSUME NEW c \in Cpus, NEW p \in Procs, ExitCall(c, p) PROVE TypeOK'
  BY <1>14 DEF ExitCall
<1>15. ASSUME NEW c \in Cpus, NEW p \in Procs, ExitAcquire(c, p) PROVE TypeOK'
  BY <1>15 DEF ExitAcquire
<1>16. ASSUME NEW c \in Cpus, NEW p \in Procs, ExitReparent(c, p) PROVE TypeOK'
  <2>1. ri' \in 1..NPROC + 1
    BY <1>16 DEF ExitReparent
  <2>2. pc' \in [Procs -> PC]
    <3>1. \/ UNCHANGED pc
          \/ pc' = [pc EXCEPT ![p] = "exit_wake_parent"]
          \/ pc' = [pc EXCEPT ![p] = "exit_wake_init"]
      BY <1>16 DEF ExitReparent
    <3> QED
      BY <3>1
  <2>3. parent' \in [Procs -> Procs \cup {NULL}]
    <3>1. \/ UNCHANGED parent
          \/ ri \in Procs /\ parent' = [parent EXCEPT ![ri] = initproc]
      BY <1>16 DEF ExitReparent
    <3> QED
      BY <3>1
  <2> QED
    BY SMTT(30), <1>16, <2>1, <2>2, <2>3 DEF ExitReparent
<1>17. ASSUME NEW c \in Cpus, NEW p \in Procs, ExitWakeup(c, p) PROVE TypeOK'
  <2>1. i' \in 1..NPROC + 1 /\ i \in Procs
    BY <1>17 DEF ExitWakeup
  <2>2. state' \in [Procs -> ProcState] /\ tree' \in SUBSET Procs
    <3>1. MakeRunnable(i) \/ UNCHANGED <<state, tree>>
      BY <1>17 DEF ExitWakeup, WakeupSlot
    <3> QED
      BY <2>1, <3>1, WakeType
  <2> QED
    BY SMTT(30), <1>17, <2>1, <2>2 DEF ExitWakeup
<1>18. ASSUME NEW c \in Cpus, NEW p \in Procs, ExitWakeupDone(c, p)
      PROVE  TypeOK'
  <2>1. pc' \in [Procs -> PC] /\ i' \in 1..NPROC + 1
    BY <1>18 DEF ExitWakeupDone
  <2> QED
    BY SMTT(30), <1>18, <2>1 DEF ExitWakeupDone
<1>19. ASSUME NEW c \in Cpus, NEW p \in Procs, ExitZombie(c, p) PROVE TypeOK'
  <2>1. /\ state' \in [Procs -> ProcState] /\ plock' \in [Procs -> Cpus \cup {NULL}]
        /\ pc' \in [Procs -> PC]
    BY <1>19 DEF ExitZombie
  <2>2. /\ wait_lock' \in Cpus \cup {NULL} /\ i' \in 1..NPROC + 1 /\ ri' \in 1..NPROC + 1
        /\ havekids' \in BOOLEAN
    <3>1. ReleaseWaitLock
      BY <1>19 DEF ExitZombie
    <3>2. havekids' \in BOOLEAN
      BY <3>1
    <3>3. wait_lock' = NULL /\ i' = 1 /\ ri' = 1 /\ 1 \in 1..NPROC + 1
      BY <3>1
    <3> QED
      BY <3>2, <3>3
  <2> QED
    BY <1>19, <2>1, <2>2 DEF ExitZombie
<1>20. ASSUME NEW c \in Cpus, NEW p \in Procs, WaitCall(c, p) PROVE TypeOK'
  BY <1>20 DEF WaitCall
<1>21. ASSUME NEW c \in Cpus, NEW p \in Procs, WaitAcquire(c, p) PROVE TypeOK'
  BY <1>21 DEF WaitAcquire
<1>22. ASSUME NEW c \in Cpus, NEW p \in Procs, WaitScan(c, p) PROVE TypeOK'
  <2>1. i' \in 1..NPROC + 1
    BY <1>22 DEF WaitScan
  <2>2. havekids' \in BOOLEAN
    BY <1>22 DEF WaitScan
  <2> QED
    BY SMTT(30), <1>22, <2>1, <2>2 DEF WaitScan
<1>23. ASSUME NEW c \in Cpus, NEW p \in Procs, WaitReap(c, p) PROVE TypeOK'
  <2>1. /\ state' \in [Procs -> ProcState]
        /\ parent' \in [Procs -> Procs \cup {NULL}]
        /\ chan' \in [Procs -> Procs \cup {NULL, TICKS}]
    BY <1>23 DEF WaitReap, freeproc
  <2>2. killed' \in [Procs -> BOOLEAN]
    BY <1>23 DEF WaitReap, freeproc
  <2>3. pc' \in [Procs -> PC]
    BY <1>23 DEF WaitReap
  <2>4. /\ wait_lock' \in Cpus \cup {NULL} /\ i' \in 1..NPROC + 1 /\ ri' \in 1..NPROC + 1
        /\ havekids' \in BOOLEAN
    <3>1. ReleaseWaitLock
      BY <1>23 DEF WaitReap
    <3>2. havekids' \in BOOLEAN
      BY <3>1
    <3>3. wait_lock' = NULL /\ i' = 1 /\ ri' = 1 /\ 1 \in 1..NPROC + 1
      BY <3>1
    <3> QED
      BY <3>2, <3>3
  <2> QED
    BY <1>23, <2>1, <2>2, <2>3, <2>4 DEF WaitReap
<1>24. ASSUME NEW c \in Cpus, NEW p \in Procs, WaitDecide(c, p) PROVE TypeOK'
  <2>1. pc' \in [Procs -> PC]
    <3>1. pc' = [pc EXCEPT ![p] = "user"] \/ pc' = [pc EXCEPT ![p] = "wait_sleep"]
      BY <1>24 DEF WaitDecide
    <3> QED
      BY <3>1
  <2>2. wait_lock' \in Cpus \cup {NULL} /\ i' \in 1..NPROC + 1 /\ ri' \in 1..NPROC + 1
    BY <1>24 DEF WaitDecide
  <2>3. havekids' \in BOOLEAN
    BY <1>24 DEF WaitDecide
  <2> QED
    BY SMTT(30), <1>24, <2>1, <2>2, <2>3 DEF WaitDecide
<1>25. ASSUME NEW c \in Cpus, NEW p \in Procs, TickCall(c, p) PROVE TypeOK'
  <2>1. left' \in [Procs -> 0..MaxSleep]
    <3>1. PICK n \in 1..MaxSleep : left' = [left EXCEPT ![p] = n]
      BY <1>25 DEF TickCall
    <3> QED
      BY <3>1
  <2> QED
    BY <1>25, <2>1 DEF TickCall
<1>26. ASSUME NEW c \in Cpus, NEW p \in Procs, TickAcquire(c, p) PROVE TypeOK'
  BY SMTT(30), <1>26 DEF TickAcquire
<1>27. ASSUME NEW c \in Cpus, NEW p \in Procs, TickCheck(c, p) PROVE TypeOK'
  <2>1. left' \in [Procs -> 0..MaxSleep]
    BY <1>27 DEF TickCheck
  <2>2. pc' \in [Procs -> PC] /\ tickslock' \in Cpus \cup {NULL}
    <3>1. pc' = [pc EXCEPT ![p] = "user"] \/ pc' = [pc EXCEPT ![p] = "tick_sleep"]
      BY SMTT(30), <1>27 DEF TickCheck
    <3> QED
      BY <1>27, <3>1 DEF TickCheck
  <2> QED
    BY SMTT(30), <1>27, <2>1, <2>2 DEF TickCheck
<1>28. ASSUME NEW c \in Cpus, NEW p \in Procs, SleepAcquire(c, p) PROVE TypeOK'
  <2>1. pc' \in [Procs -> PC] /\ plock' \in [Procs -> Cpus \cup {NULL}]
    BY <1>28 DEF SleepAcquire
  <2>2. /\ wait_lock' \in Cpus \cup {NULL} /\ tickslock' \in Cpus \cup {NULL}
        /\ i' \in 1..NPROC + 1 /\ ri' \in 1..NPROC + 1
    BY <1>28 DEF SleepAcquire
  <2>3. havekids' \in BOOLEAN
    BY <1>28 DEF SleepAcquire
  <2> QED
    BY SMTT(30), <1>28, <2>1, <2>2, <2>3 DEF SleepAcquire
<1>29. ASSUME NEW c \in Cpus, NEW p \in Procs, SleepSet(c, p) PROVE TypeOK'
  BY SMTT(30), <1>29 DEF SleepSet
<1>30. ASSUME NEW c \in Cpus, NEW p \in Procs, SleepRet(c, p) PROVE TypeOK'
  BY SMTT(30), <1>30 DEF SleepRet
<1>31. ASSUME NEW c \in Cpus, NEW p \in Procs, NEW q \in Killable, Kill(c, p, q)
      PROVE  TypeOK'
  <2>1. q \in Procs
    OBVIOUS
  <2>2. state' \in [Procs -> ProcState] /\ tree' \in SUBSET Procs
    <3>1. MakeRunnable(q) \/ UNCHANGED <<state, tree>>
      BY <1>31 DEF Kill
    <3> QED
      BY <2>1, <3>1, WakeType
  <2>3. killed' \in [Procs -> BOOLEAN]
    BY <1>31, <2>1 DEF Kill
  <2> QED
    BY SMTT(30), <1>31, <2>2, <2>3 DEF Kill
<1>32. ASSUME ClockTick PROVE TypeOK'
  <2>1. left' \in [Procs -> 0..MaxSleep]
    BY <1>32 DEF ClockTick
  <2>2. clk' \in 0..NPROC + 1
    BY <1>32 DEF ClockTick
  <2> QED
    BY <1>32, <2>1, <2>2 DEF ClockTick
<1>33. ASSUME ClockWakeup PROVE TypeOK'
  <2>1. clk' \in 0..NPROC + 1
    BY <1>33 DEF ClockWakeup
  <2>2. state' \in [Procs -> ProcState] /\ tree' \in SUBSET Procs
    <3>1. clk \in Procs /\ (MakeRunnable(clk) \/ UNCHANGED <<state, tree>>)
      BY <1>33 DEF ClockWakeup, WakeupSlot
    <3> QED
      BY SMTT(30), <3>1, WakeType
  <2> QED
    BY SMTT(30), <1>33, <2>1, <2>2 DEF ClockWakeup
<1>34. ASSUME ClockDone PROVE TypeOK'
  BY SMTT(30), <1>34 DEF ClockDone
<1>35. ASSUME UNCHANGED vars PROVE TypeOK'
  BY <1>35 DEF vars
<1> QED
  BY <1>1, <1>2, <1>3, <1>4, <1>5, <1>6, <1>7, <1>8, <1>9, <1>10, <1>11,
     <1>12, <1>13, <1>14, <1>15, <1>16, <1>17, <1>18, <1>19, <1>20, <1>21,
     <1>22, <1>23, <1>24, <1>25, <1>26, <1>27, <1>28, <1>29, <1>30, <1>31,
     <1>32, <1>33, <1>34, <1>35
  DEF Next, Scheduler, Thread, Fork, Exit, Wait, Tick, Sleep, Clock
=============================================================================
