----------------------------- MODULE ProcProofs -----------------------------
(***************************************************************************)
(* Proofs about module Proc: SchedInv is an inductive invariant, for any   *)
(* number of process slots and CPUs, and implies the properties that make  *)
(* swtch() safe.                                                           *)
(*                                                                         *)
(* PlaceInv depends on few variables, and most steps of a thread change    *)
(* only its own pc among them: LocalMove covers those steps, WakeSleeper   *)
(* the three places that wake a sleeper, and the remaining actions have a  *)
(* lemma each (ProcSwitchProofs, ProcCallProofs).                          *)
(***************************************************************************)
EXTENDS ProcCallProofs, ProcLockProofs

USE DEF procVars, cpuVars, clock, scan

\* A step that changes nothing PlaceInv speaks of.
LEMMA PlaceFrame ==
    ASSUME SchedInv, UNCHANGED <<state, tree, plock, cpc, cp, cproc, pc, ret, np>>
    PROVE  PlaceInv'
BY DEF SchedInv, PlaceInv, CpuInv, ClaimInv, OneCpuPerProcess, TreeIsRunnable, OnCpuInv,
   OffCpuInv, ForkInv, ChildInHand, RunnableNotLost, Claimed, OnCpu, Forking, Stage

\* Every step keeps every process in a place PlaceInv knows.
LEMMA PlaceStep == SchedInv /\ [Next]_vars => PlaceInv'
<1> SUFFICES ASSUME SchedInv, [Next]_vars PROVE PlaceInv'
  OBVIOUS
<1>1. ASSUME NEW c \in Cpus, Retrieve(c) PROVE PlaceInv'
  BY <1>1, RetrievePlace
<1>2. ASSUME NEW c \in Cpus, Dispatch(c) PROVE PlaceInv'
  BY <1>2, DispatchPlace
<1>3. ASSUME NEW c \in Cpus, SchedulerBack(c) PROVE PlaceInv'
  BY <1>3, SchedulerBackPlace
<1>4. ASSUME NEW c \in Cpus, NEW p \in Procs, Sched(c, p) PROVE PlaceInv'
  BY <1>4, SchedPlace
<1>5. ASSUME NEW c \in Cpus, NEW p \in Procs, Forkret(c, p) PROVE PlaceInv'
  BY <1>5, ForkretPlace
<1>6. ASSUME NEW c \in Cpus, NEW p \in Procs, Yield(c, p) PROVE PlaceInv'
  BY <1>6, YieldPlace
<1>7. ASSUME NEW c \in Cpus, NEW p \in Procs, YieldRet(c, p) PROVE PlaceInv'
  BY <1>7, YieldRetPlace
<1>8. ASSUME NEW c \in Cpus, NEW p \in Procs, Trap(c, p) PROVE PlaceInv'
  BY <1>8, LocalMove DEF Trap, GoTo, Free, ForkLabels, Interruptible,
     HoldsWaitLock, HoldsTicksLock, Waking
<1>9. ASSUME NEW c \in Cpus, NEW p \in Procs, ForkAlloc(c, p) PROVE PlaceInv'
  BY <1>9, ForkAllocPlace
<1>10. ASSUME NEW c \in Cpus, NEW p \in Procs, ForkFail(c, p) PROVE PlaceInv'
  BY <1>10, LocalMove DEF ForkFail, Syscall, GoTo, Free, ForkLabels, Interruptible,
     HoldsWaitLock, HoldsTicksLock, Waking
<1>11. ASSUME NEW c \in Cpus, NEW p \in Procs, ForkParent(c, p) PROVE PlaceInv'
  BY <1>11, ForkParentPlace
<1>12. ASSUME NEW c \in Cpus, NEW p \in Procs, ForkRunnable(c, p)
      PROVE  PlaceInv'
  BY <1>12, ForkRunnablePlace
<1>13. ASSUME NEW c \in Cpus, NEW p \in Procs, ForkInsert(c, p) PROVE PlaceInv'
  BY <1>13, ForkInsertPlace
<1>14. ASSUME NEW c \in Cpus, NEW p \in Procs, ExitCall(c, p) PROVE PlaceInv'
  BY <1>14, LocalMove DEF ExitCall, GoTo, Free, ForkLabels, Interruptible,
     HoldsWaitLock, HoldsTicksLock, Waking
<1>15. ASSUME NEW c \in Cpus, NEW p \in Procs, ExitAcquire(c, p) PROVE PlaceInv'
  BY <1>15, LocalMove DEF ExitAcquire, GoTo, Free, ForkLabels, Interruptible,
     HoldsWaitLock, HoldsTicksLock, Waking
<1>16. ASSUME NEW c \in Cpus, NEW p \in Procs, ExitReparent(c, p)
      PROVE  PlaceInv'
  <2>1. CASE UNCHANGED pc
    BY <1>16, <2>1, PlaceFrame DEF ExitReparent
  <2>2. ASSUME NEW l \in Waking, pc' = [pc EXCEPT ![p] = l] PROVE PlaceInv'
    BY <1>16, <2>2, LocalMove DEF ExitReparent, Free, ForkLabels, HoldsWaitLock, Waking
  <2> QED
    BY <1>16, <2>1, <2>2 DEF ExitReparent, GoTo, Waking
<1>17. ASSUME NEW c \in Cpus, NEW p \in Procs, ExitWakeup(c, p) PROVE PlaceInv'
  <2>1. CASE UNCHANGED <<state, tree>>
    BY <1>17, <2>1, PlaceFrame DEF ExitWakeup
  <2>2. CASE MakeRunnable(i) /\ state[i] = "SLEEPING" /\ plock[i] = NULL
    <3>1. i \in Procs
      BY <1>17, NPROCAssumption DEF ExitWakeup, SchedInv, TypeOK, Procs
    <3> QED
      BY <1>17, <2>2, <3>1, WakeSleeper DEF ExitWakeup
  <2> QED
    BY <1>17, <2>1, <2>2 DEF ExitWakeup, WakeupSlot
<1>18. ASSUME NEW c \in Cpus, NEW p \in Procs, ExitWakeupDone(c, p)
      PROVE  PlaceInv'
  BY <1>18, LocalMove DEF ExitWakeupDone, GoTo, Free, ForkLabels, Interruptible,
     HoldsWaitLock, HoldsTicksLock, Waking
<1>19. ASSUME NEW c \in Cpus, NEW p \in Procs, ExitZombie(c, p) PROVE PlaceInv'
  BY <1>19, ExitZombiePlace
<1>20. ASSUME NEW c \in Cpus, NEW p \in Procs, WaitCall(c, p) PROVE PlaceInv'
  BY <1>20, LocalMove DEF WaitCall, Syscall, GoTo, Free, ForkLabels, Interruptible,
     HoldsWaitLock, HoldsTicksLock, Waking
<1>21. ASSUME NEW c \in Cpus, NEW p \in Procs, WaitAcquire(c, p) PROVE PlaceInv'
  BY <1>21, LocalMove DEF WaitAcquire, GoTo, Free, ForkLabels, Interruptible,
     HoldsWaitLock, HoldsTicksLock, Waking
<1>22. ASSUME NEW c \in Cpus, NEW p \in Procs, WaitScan(c, p) PROVE PlaceInv'
  BY <1>22, PlaceFrame DEF WaitScan
<1>23. ASSUME NEW c \in Cpus, NEW p \in Procs, WaitReap(c, p) PROVE PlaceInv'
  BY <1>23, WaitReapPlace
<1>24. ASSUME NEW c \in Cpus, NEW p \in Procs, WaitDecide(c, p) PROVE PlaceInv'
  BY <1>24, LocalMove DEF WaitDecide, GoTo, Free, ForkLabels, Interruptible,
     HoldsWaitLock, HoldsTicksLock, Waking
<1>25. ASSUME NEW c \in Cpus, NEW p \in Procs, TickCall(c, p) PROVE PlaceInv'
  BY <1>25, LocalMove DEF TickCall, Syscall, GoTo, Free, ForkLabels, Interruptible,
     HoldsWaitLock, HoldsTicksLock, Waking
<1>26. ASSUME NEW c \in Cpus, NEW p \in Procs, TickAcquire(c, p) PROVE PlaceInv'
  BY <1>26, LocalMove DEF TickAcquire, GoTo, Free, ForkLabels, Interruptible,
     HoldsWaitLock, HoldsTicksLock, Waking
<1>27. ASSUME NEW c \in Cpus, NEW p \in Procs, TickCheck(c, p) PROVE PlaceInv'
  BY <1>27, LocalMove DEF TickCheck, GoTo, Free, ForkLabels, Interruptible,
     HoldsWaitLock, HoldsTicksLock, Waking
<1>28. ASSUME NEW c \in Cpus, NEW p \in Procs, SleepAcquire(c, p)
      PROVE  PlaceInv'
  BY <1>28, SleepAcquirePlace
<1>29. ASSUME NEW c \in Cpus, NEW p \in Procs, SleepSet(c, p) PROVE PlaceInv'
  BY <1>29, SleepSetPlace
<1>30. ASSUME NEW c \in Cpus, NEW p \in Procs, SleepRet(c, p) PROVE PlaceInv'
  BY <1>30, SleepRetPlace
<1>31. ASSUME NEW c \in Cpus, NEW p \in Procs, NEW q \in Killable, Kill(c, p, q)
      PROVE  PlaceInv'
  <2>1. CASE UNCHANGED <<state, tree>>
    BY <1>31, <2>1, LocalMove DEF Kill, Syscall, GoTo, Free, ForkLabels, Interruptible
  <2>2. CASE MakeRunnable(q) /\ state[q] = "SLEEPING"
    <3>1. q \in Procs
      BY KillableAssumption, NPROCAssumption DEF Procs
    <3> QED
      BY <1>31, <2>2, <3>1, KillWakes
  <2> QED
    BY <1>31, <2>1, <2>2 DEF Kill
<1>32. ASSUME ClockTick PROVE PlaceInv'
  BY <1>32, PlaceFrame DEF ClockTick
<1>33. ASSUME ClockWakeup PROVE PlaceInv'
  <2>1. CASE UNCHANGED <<state, tree>>
    BY <1>33, <2>1, PlaceFrame DEF ClockWakeup
  <2>2. CASE MakeRunnable(clk) /\ state[clk] = "SLEEPING" /\ plock[clk] = NULL
    BY <1>33, <2>2, WakeSleeper DEF ClockWakeup
  <2> QED
    BY <1>33, <2>1, <2>2 DEF ClockWakeup, WakeupSlot
<1>34. ASSUME ClockDone PROVE PlaceInv'
  BY <1>34, PlaceFrame DEF ClockDone
<1>35. ASSUME UNCHANGED vars PROVE PlaceInv'
  BY <1>35, PlaceFrame DEF vars
<1> QED
  BY <1>1, <1>2, <1>3, <1>4, <1>5, <1>6, <1>7, <1>8, <1>9, <1>10, <1>11,
     <1>12, <1>13, <1>14, <1>15, <1>16, <1>17, <1>18, <1>19, <1>20, <1>21,
     <1>22, <1>23, <1>24, <1>25, <1>26, <1>27, <1>28, <1>29, <1>30, <1>31,
     <1>32, <1>33, <1>34, <1>35
  DEF Next, Scheduler, Thread, Fork, Exit, Wait, Tick, Sleep, Clock

-----------------------------------------------------------------------------
(***************************************************************************)
(* The theorems                                                            *)
(***************************************************************************)
\* procinit() and userinit() establish the invariant.
LEMMA InitInv == Init => SchedInv
<1> SUFFICES ASSUME Init PROVE SchedInv
  OBVIOUS
<1> USE NPROCAssumption, CpusAssumption, SleepAssumption DEF Init, Procs, NULL, initproc
<1>1. TypeOK
  <2>1. killed \in [Procs -> BOOLEAN] /\ havekids \in BOOLEAN
    OBVIOUS
  <2>2. pc \in [Procs -> PC] /\ ret \in [Procs -> Interruptible]
    BY PCFacts
  <2>3. /\ 0 \in 0..MaxSleep /\ 0 \in 0..NPROC + 1 /\ 1 \in 1..NPROC + 1
        /\ 1 \in 1..NPROC
    OBVIOUS
  <2>4. left \in [Procs -> 0..MaxSleep] /\ clk \in 0..NPROC + 1
    BY <2>3
  <2> QED
    BY <2>1, <2>2, <2>3, <2>4 DEF TypeOK, ProcState
<1>2. /\ \A c \in Cpus, p \in Procs : ~OnCpu(c, p) /\ ~Claimed(c, p)
      /\ \A p \in Procs : ~Forking(p)
  BY DEF OnCpu, Claimed, Forking, Stage
<1>3. CpuInv /\ ClaimInv /\ OneCpuPerProcess /\ OnCpuInv
  BY <1>2 DEF CpuInv, ClaimInv, OneCpuPerProcess, OnCpuInv
<1>4. TreeIsRunnable /\ RunnableNotLost
  BY <1>2 DEF TreeIsRunnable, RunnableNotLost
<1>5. OffCpuInv
  BY <1>2 DEF OffCpuInv, Resumable
<1>6. ForkInv
  BY <1>2 DEF ForkInv, ChildInHand
<1>7. LockInv
  BY <1>2 DEF LockInv
<1> QED
  BY <1>1, <1>3, <1>4, <1>5, <1>6, <1>7 DEF SchedInv, PlaceInv

\* SchedInv holds in every reachable state, for any table size and any set
\* of CPUs.
THEOREM SchedInvariance == Spec => []SchedInv
<1>1. SchedInv /\ [Next]_vars => SchedInv'
  BY TypeStep, PlaceStep, LockStep DEF SchedInv
<1> QED
  BY <1>1, InitInv, PTL DEF Spec

\* Every field, lock and local of proc.c keeps its type.
THEOREM TypeCorrect == Spec => []TypeOK
<1>1. SchedInv => TypeOK
  BY DEF SchedInv
<1> QED
  BY <1>1, SchedInvariance, PTL

\* swtch() never puts two CPUs on one kernel stack.
THEOREM StackSafety == Spec => []OneCpuPerProcess
<1>1. SchedInv => OneCpuPerProcess
  BY DEF SchedInv, PlaceInv
<1> QED
  BY <1>1, SchedInvariance, PTL

\* yield(), wakeup(), kill() and fork() never lose a RUNNABLE process.
THEOREM NoProcessLost == Spec => []RunnableNotLost
<1>1. SchedInv => RunnableNotLost
  BY DEF SchedInv, PlaceInv
<1> QED
  BY <1>1, SchedInvariance, PTL

\* retrieveProcess() never meets a minimum that it has to leave in the tree.
THEOREM TreeOnlyRunnable == Spec => []TreeIsRunnable
<1>1. SchedInv => TreeIsRunnable
  BY DEF SchedInv, PlaceInv
<1> QED
  BY <1>1, SchedInvariance, PTL

\* wait() frees, and allocproc() hands out, only slots nobody runs on.
THEOREM SlotReuse == Spec => []FreeSlotIsIdle
<1>1. SchedInv => FreeSlotIsIdle
  <2> SUFFICES ASSUME SchedInv, NEW p \in Procs, state[p] \in {"UNUSED", "USED"}
               PROVE  p \notin tree /\ \A c \in Cpus : ~OnCpu(c, p) /\ ~Claimed(c, p)
    BY DEF FreeSlotIsIdle
  <2>1. p \notin tree
    BY DEF SchedInv, PlaceInv, TreeIsRunnable
  <2>2. \A c \in Cpus : ~OnCpu(c, p)
    BY DEF SchedInv, PlaceInv, OnCpuInv
  <2>3. \A c \in Cpus : ~Claimed(c, p)
    BY DEF SchedInv, PlaceInv, ClaimInv
  <2> QED
    BY <2>1, <2>2, <2>3
<1> QED
  BY <1>1, SchedInvariance, PTL

\* None of sched()'s panics about locks and p->state can fire.
THEOREM SchedNeverPanics == Spec => []SchedPrecondition
<1>1. SchedInv => SchedPrecondition
  <2> SUFFICES ASSUME SchedInv, NEW c \in Cpus, NEW p \in Procs, Runs(c, p),
                      pc[p] \in AtSched
               PROVE  /\ \A q \in Procs : plock[q] = c <=> q = p
                      /\ wait_lock # c /\ tickslock # c
                      /\ state[p] # "RUNNING"
    BY DEF SchedPrecondition
  <2>1. OnCpu(c, p) /\ cpc[c] = "swtched" /\ cp[c] = p /\ plock[p] = c
    BY RunsFacts DEF Free, AtSched, Interruptible, HoldsWaitLock, HoldsTicksLock, Waking
  <2>2. state[p] # "RUNNING"
    BY <2>1 DEF SchedInv, PlaceInv, OnCpuInv, AtSched, Interruptible, HoldsWaitLock,
       HoldsTicksLock, Waking, Resumable
  <2>3. ASSUME NEW q \in Procs, plock[q] = c PROVE q = p
    <3>1. PICK d \in Cpus : OnCpu(d, q)
      BY <2>3, CpusAssumption DEF SchedInv, PlaceInv, OffCpuInv, NULL
    <3>2. plock[q] \in {NULL, d}
      BY <3>1 DEF SchedInv, PlaceInv, OnCpuInv
    <3>3. d = c
      BY <3>2, <2>3, CpusAssumption DEF NULL
    <3> QED
      BY <3>1, <3>3, <2>1 DEF OnCpu
  <2>4. wait_lock # c
    BY <2>1 DEF SchedInv, LockInv, AtSched, HoldsWaitLock, Waking
  <2>5. tickslock # c
    BY <2>1 DEF SchedInv, LockInv, AtSched, HoldsTicksLock, Runs
  <2> QED
    BY <2>1, <2>2, <2>3, <2>4, <2>5
<1> QED
  BY <1>1, SchedInvariance, PTL
=============================================================================
