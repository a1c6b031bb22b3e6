--------------------------- MODULE ProcCallProofs ---------------------------
(***************************************************************************)
(* Lemmas for ProcProofs: PlaceInv holds after the steps of fork(), exit(), *)
(* wait(), sleep() and kill().                                             *)
(***************************************************************************)
EXTENDS ProcSwitchProofs

USE DEF procVars, cpuVars, clock, scan

\* fork() sets np->parent.
LEMMA ForkParentPlace ==
    ASSUME SchedInv, NEW c \in Cpus, NEW p \in Procs, ForkParent(c, p)
    PROVE  PlaceInv'
<1> USE DEF SchedInv, PlaceInv, TypeOK, Procs, NULL
<1>1. cpc[c] = "swtched" /\ cp[c] = p /\ pc[p] = "fork_parent" /\ state[p] = "RUNNING"
      /\ plock[p] = NULL /\ OnCpu(c, p)
  BY RunsFacts DEF ForkParent, Free, Interruptible
<1>2. /\ pc' = [pc EXCEPT ![p] = "fork_runnable"]
      /\ UNCHANGED <<state, plock, tree, cpc, cp, cproc, ret, np>>
  BY DEF ForkParent, GoTo
<1>3. CpuInv'
  BY <1>1, <1>2 DEF CpuInv
<1>4. ClaimInv'
  BY <1>1, <1>2 DEF ClaimInv, Claimed
<1>5. OneCpuPerProcess'
  BY <1>1, <1>2 DEF OneCpuPerProcess, OnCpu
<1>6. TreeIsRunnable'
  BY <1>1, <1>2 DEF TreeIsRunnable, ClaimInv, Claimed
<1>7. OnCpuInv'
  BY <1>1, <1>2, CpusAssumption DEF OnCpuInv, OnCpu, OneCpuPerProcess, Interruptible
<1>8. OffCpuInv'
  BY <1>1, <1>2 DEF OffCpuInv, OnCpu
<1>9. ForkInv'
  BY <1>1, <1>2 DEF ForkInv, ChildInHand, Forking, Stage, Claimed, OnCpu
<1>10. RunnableNotLost'
  BY <1>1, <1>2 DEF RunnableNotLost, Claimed, Stage
<1> QED
  BY <1>3, <1>4, <1>5, <1>6, <1>7, <1>8, <1>9, <1>10

\* fork() makes the child RUNNABLE; it is not in the tree yet.
LEMMA ForkRunnablePlace ==
    ASSUME SchedInv, NEW c \in Cpus, NEW p \in Procs, ForkRunnable(c, p)
    PROVE  PlaceInv'
<1> USE DEF SchedInv, PlaceInv, TypeOK, Procs, NULL
<1>1. /\ cpc[c] = "swtched" /\ cp[c] = p /\ pc[p] = "fork_runnable" /\ state[p] = "RUNNING"
      /\ plock[p] = NULL /\ OnCpu(c, p) /\ np[p] \in Procs /\ state[np[p]] = "USED"
      /\ np[p] # p /\ \A d \in Cpus : ~OnCpu(d, np[p]) /\ ~Claimed(d, np[p])
  <2>1. /\ cpc[c] = "swtched" /\ cp[c] = p /\ pc[p] = "fork_runnable" /\ state[p] = "RUNNING"
        /\ plock[p] = NULL /\ OnCpu(c, p)
    BY SMTT(30), RunsFacts DEF ForkRunnable, Free, Interruptible
  <2>2. /\ np[p] \in Procs /\ state[np[p]] = "USED"
        /\ \A d \in Cpus : ~OnCpu(d, np[p]) /\ ~Claimed(d, np[p])
    BY <2>1 DEF ForkInv, ChildInHand, Forking, Stage
  <2> QED
    BY <2>1, <2>2
<1>2. /\ state' = [state EXCEPT ![np[p]] = "RUNNABLE"]
      /\ pc' = [pc EXCEPT ![p] = "fork_insert"]
      /\ UNCHANGED <<plock, tree, cpc, cp, cproc, ret, np>>
  BY DEF ForkRunnable, GoTo
<1>3. CpuInv'
  BY <1>1, <1>2 DEF CpuInv
<1>4. ClaimInv'
  BY <1>1, <1>2 DEF ClaimInv, Claimed
<1>5. OneCpuPerProcess'
  BY <1>1, <1>2 DEF OneCpuPerProcess, OnCpu
<1>6. TreeIsRunnable'
  BY <1>1, <1>2 DEF TreeIsRunnable, ClaimInv, Claimed
<1>7. OnCpuInv'
  BY <1>1, <1>2, CpusAssumption DEF OnCpuInv, OnCpu, OneCpuPerProcess, Interruptible
<1>8. OffCpuInv'
  BY <1>1, <1>2 DEF OffCpuInv, OnCpu, Resumable
<1>9. ForkInv'
  BY <1>1, <1>2 DEF ForkInv, ChildInHand, Forking, Stage, Claimed, OnCpu
<1>10. RunnableNotLost'
  BY SMTT(30), <1>1, <1>2 DEF RunnableNotLost, Claimed, Stage
<1> QED
  BY <1>3, <1>4, <1>5, <1>6, <1>7, <1>8, <1>9, <1>10

\* fork() inserts the child.
LEMMA ForkInsertPlace ==
    ASSUME SchedInv, NEW c \in Cpus, NEW p \in Procs, ForkInsert(c, p)
    PROVE  PlaceInv'
<1> USE DEF SchedInv, PlaceInv, TypeOK, Procs, NULL
<1>1. /\ cpc[c] = "swtched" /\ cp[c] = p /\ pc[p] = "fork_insert" /\ state[p] = "RUNNING"
      /\ plock[p] = NULL /\ OnCpu(c, p) /\ np[p] \in Procs /\ state[np[p]] = "RUNNABLE"
      /\ \A d \in Cpus : ~OnCpu(d, np[p]) /\ ~Claimed(d, np[p])
      /\ \A q \in Procs : np[q] = np[p] => q = p
  BY SMTT(30), RunsFacts DEF ForkInsert, Free, Interruptible, ForkInv, ChildInHand, Forking, Stage
<1>2. /\ tree' = tree \cup {np[p]}
      /\ np' = [np EXCEPT ![p] = NULL]
      /\ pc' = [pc EXCEPT ![p] = "user"]
      /\ UNCHANGED <<state, plock, cpc, cp, cproc, ret>>
  BY DEF ForkInsert, GoTo
<1>3. CpuInv'
  BY <1>1, <1>2 DEF CpuInv
<1>4. ClaimInv'
  BY <1>1, <1>2 DEF ClaimInv, Claimed
<1>5. OneCpuPerProcess'
  BY <1>1, <1>2 DEF OneCpuPerProcess, OnCpu
<1>6. TreeIsRunnable'
  BY <1>1, <1>2 DEF TreeIsRunnable, ClaimInv, Claimed
<1>7. OnCpuInv'
  BY <1>1, <1>2, CpusAssumption DEF OnCpuInv, OnCpu, OneCpuPerProcess, Interruptible
<1>8. OffCpuInv'
  BY <1>1, <1>2 DEF OffCpuInv, OnCpu
<1>9. ForkInv'
  BY <1>1, <1>2 DEF ForkInv, ChildInHand, Forking, Stage, Claimed, OnCpu
<1>10. RunnableNotLost'
  <2>1. ASSUME NEW r \in Procs, state'[r] = "RUNNABLE", r # np[p]
        PROVE  \/ r \in tree' \/ \E d \in Cpus : Claimed(d, r)'
               \/ \E q \in Procs : np'[q] = r /\ Stage(q)' = "fork_insert"
    <3>1. ASSUME NEW q \in Procs, np[q] = r, Stage(q) = "fork_insert"
          PROVE  np'[q] = r /\ Stage(q)' = "fork_insert"
      BY <1>1, <1>2, <2>1, <3>1 DEF Stage
    <3> QED
      BY <1>2, <2>1, <3>1 DEF RunnableNotLost, Claimed
  <2> QED
    BY <1>1, <1>2, <2>1 DEF RunnableNotLost
<1> QED
  BY <1>3, <1>4, <1>5, <1>6, <1>7, <1>8, <1>9, <1>10

\* exit() takes p->lock and becomes a zombie.
LEMMA ExitZombiePlace ==
    ASSUME SchedInv, NEW c \in Cpus, NEW p \in Procs, ExitZombie(c, p)
    PROVE  PlaceInv'
<1> USE DEF SchedInv, PlaceInv, TypeOK, Procs, NULL
<1>1. /\ cpc[c] = "swtched" /\ cp[c] = p /\ pc[p] = "exit_zombie" /\ state[p] = "RUNNING"
      /\ plock[p] = NULL /\ OnCpu(c, p)
  BY RunsFacts DEF ExitZombie, Free, HoldsWaitLock
<1>2. /\ plock' = [plock EXCEPT ![p] = c]
      /\ state' = [state EXCEPT ![p] = "ZOMBIE"]
      /\ pc' = [pc EXCEPT ![p] = "exit_sched"]
      /\ UNCHANGED <<tree, cpc, cp, cproc, ret, np>>
  BY DEF ExitZombie, AcquireOwn, GoTo
<1>3. CpuInv'
  BY <1>1, <1>2 DEF CpuInv
<1>4. ClaimInv'
  BY <1>1, <1>2 DEF ClaimInv, Claimed
<1>5. OneCpuPerProcess'
  BY <1>1, <1>2 DEF OneCpuPerProcess, OnCpu
<1>6. TreeIsRunnable'
  BY <1>1, <1>2 DEF TreeIsRunnable, ClaimInv, Claimed
<1>7. OnCpuInv'
  BY <1>1, <1>2, CpusAssumption DEF OnCpuInv, OnCpu, OneCpuPerProcess
<1>8. OffCpuInv'
  BY <1>1, <1>2 DEF OffCpuInv, OnCpu
<1>9. ForkInv'
  BY <1>1, <1>2 DEF ForkInv, ChildInHand, Forking, Stage, Claimed, OnCpu
<1>10. RunnableNotLost'
  BY <1>1, <1>2 DEF RunnableNotLost, Claimed, Stage
<1> QED
  BY <1>3, <1>4, <1>5, <1>6, <1>7, <1>8, <1>9, <1>10

\* sleep() takes p->lock.
LEMMA SleepAcquirePlace ==
    ASSUME SchedInv, NEW c \in Cpus, NEW p \in Procs, SleepAcquire(c, p)
    PROVE  PlaceInv'
<1> USE DEF SchedInv, PlaceInv, TypeOK, Procs, NULL
<1>1. /\ cpc[c] = "swtched" /\ cp[c] = p /\ pc[p] \in {"wait_sleep", "tick_sleep"} /\ state[p] = "RUNNING"
      /\ plock[p] = NULL /\ OnCpu(c, p)
  BY SMTT(30), RunsFacts DEF SleepAcquire, Free, HoldsWaitLock, HoldsTicksLock
<1>2. /\ plock' = [plock EXCEPT ![p] = c]
      /\ pc' = [pc EXCEPT ![p] = IF pc[p] = "wait_sleep" THEN "wait_set" ELSE "tick_set"]
      /\ UNCHANGED <<state, tree, cpc, cp, cproc, ret, np>>
  BY DEF SleepAcquire, AcquireOwn, GoTo
<1>3. CpuInv'
  BY <1>1, <1>2 DEF CpuInv
<1>4. ClaimInv'
  BY <1>1, <1>2 DEF ClaimInv, Claimed
<1>5. OneCpuPerProcess'
  BY <1>1, <1>2 DEF OneCpuPerProcess, OnCpu
<1>6. TreeIsRunnable'
  BY <1>1, <1>2 DEF TreeIsRunnable, ClaimInv, Claimed
<1>7. OnCpuInv'
  BY <1>1, <1>2, CpusAssumption DEF OnCpuInv, OnCpu, OneCpuPerProcess
<1>8. OffCpuInv'
  BY <1>1, <1>2 DEF OffCpuInv, OnCpu
<1>9. ForkInv'
  BY <1>1, <1>2 DEF ForkInv, ChildInHand, Forking, Stage, Claimed, OnCpu
<1>10. RunnableNotLost'
  BY SMTT(30), <1>1, <1>2 DEF RunnableNotLost, Claimed, Stage
<1> QED
  BY <1>3, <1>4, <1>5, <1>6, <1>7, <1>8, <1>9, <1>10

\* sleep() marks the process SLEEPING under p->lock.
LEMMA SleepSetPlace ==
    ASSUME SchedInv, NEW c \in Cpus, NEW p \in Procs, SleepSet(c, p)
    PROVE  PlaceInv'
<1> USE DEF SchedInv, PlaceInv, TypeOK, Procs, NULL
<1>1. /\ cpc[c] = "swtched" /\ cp[c] = p /\ pc[p] \in {"wait_set", "tick_set"} /\ state[p] = "RUNNING"
      /\ plock[p] = c /\ OnCpu(c, p)
  BY SMTT(30), RunsFacts DEF SleepSet, OnCpuInv, Free, Interruptible, HoldsWaitLock, HoldsTicksLock, Waking
<1>2. /\ state' = [state EXCEPT ![p] = "SLEEPING"]
      /\ pc' = [pc EXCEPT ![p] = "sleep_sched"]
      /\ UNCHANGED <<plock, tree, cpc, cp, cproc, ret, np>>
  BY DEF SleepSet, GoTo
<1>3. CpuInv'
  BY <1>1, <1>2 DEF CpuInv
<1>4. ClaimInv'
  BY <1>1, <1>2 DEF ClaimInv, Claimed
<1>5. OneCpuPerProcess'
  BY <1>1, <1>2 DEF OneCpuPerProcess, OnCpu
<1>6. TreeIsRunnable'
  BY <1>1, <1>2 DEF TreeIsRunnable, ClaimInv, Claimed
<1>7. OnCpuInv'
  BY <1>1, <1>2, CpusAssumption DEF OnCpuInv, OnCpu, OneCpuPerProcess
<1>8. OffCpuInv'
  BY <1>1, <1>2 DEF OffCpuInv, OnCpu
<1>9. ForkInv'
  BY <1>1, <1>2 DEF ForkInv, ChildInHand, Forking, Stage, Claimed, OnCpu
<1>10. RunnableNotLost'
  BY SMTT(30), <1>1, <1>2 DEF RunnableNotLost, Claimed, Stage
<1> QED
  BY <1>3, <1>4, <1>5, <1>6, <1>7, <1>8, <1>9, <1>10

\* Back in sleep(): p->lock is released.
LEMMA SleepRetPlace ==
    ASSUME SchedInv, NEW c \in Cpus, NEW p \in Procs, SleepRet(c, p)
    PROVE  PlaceInv'
<1> USE DEF SchedInv, PlaceInv, TypeOK, Procs, NULL
<1>1. /\ cpc[c] = "swtched" /\ cp[c] = p /\ pc[p] = "sleep_ret" /\ state[p] = "RUNNING" /\ OnCpu(c, p)
  BY RunsFacts DEF SleepRet, OnCpuInv
<1>2. /\ plock' = [plock EXCEPT ![p] = NULL]
      /\ pc' = [pc EXCEPT ![p] = IF chan[p] = TICKS THEN "tick_acquire" ELSE "wait_acquire"]
      /\ UNCHANGED <<state, tree, cpc, cp, cproc, ret, np>>
  BY DEF SleepRet, GoTo
<1>3. CpuInv'
  BY <1>1, <1>2 DEF CpuInv
<1>4. ClaimInv'
  BY <1>1, <1>2 DEF ClaimInv, Claimed
<1>5. OneCpuPerProcess'
  BY <1>1, <1>2 DEF OneCpuPerProcess, OnCpu
<1>6. TreeIsRunnable'
  BY <1>1, <1>2 DEF TreeIsRunnable, ClaimInv, Claimed
<1>7. OnCpuInv'
  BY <1>1, <1>2, CpusAssumption DEF OnCpuInv, OnCpu, OneCpuPerProcess, Interruptible
<1>8. OffCpuInv'
  BY <1>1, <1>2 DEF OffCpuInv, OnCpu
<1>9. ForkInv'
  BY <1>1, <1>2 DEF ForkInv, ChildInHand, Forking, Stage, Claimed, OnCpu
<1>10. RunnableNotLost'
  BY <1>1, <1>2 DEF RunnableNotLost, Claimed, Stage
<1> QED
  BY <1>3, <1>4, <1>5, <1>6, <1>7, <1>8, <1>9, <1>10

\* fork(): allocproc() takes an UNUSED slot.
LEMMA ForkAllocPlace ==
    ASSUME SchedInv, NEW c \in Cpus, NEW p \in Procs, ForkAlloc(c, p)
    PROVE  PlaceInv'
<1> USE DEF SchedInv, PlaceInv, TypeOK, Procs, NULL
<1>0. PICK q \in Procs :
        /\ state[q] = "UNUSED" /\ plock[q] = NULL
        /\ state' = [state EXCEPT ![q] = "USED"]
        /\ np' = [np EXCEPT ![p] = q]
        /\ pc' = [pc EXCEPT ![p] = "fork_parent", ![q] = "forkret"]
        /\ UNCHANGED <<plock, tree, cpc, cp, cproc, ret>>
  BY DEF ForkAlloc
<1>1. /\ cpc[c] = "swtched" /\ cp[c] = p /\ pc[p] = "syscall" /\ state[p] = "RUNNING"
      /\ plock[p] = NULL /\ OnCpu(c, p) /\ p # q
  BY <1>0, RunsFacts DEF ForkAlloc, Syscall, Free, Interruptible
<1>2. /\ \A d \in Cpus : ~OnCpu(d, q) /\ ~Claimed(d, q)
      /\ q \notin tree
      /\ \A r \in Procs : np[r] # q
  <2>1. \A d \in Cpus : ~OnCpu(d, q) /\ ~Claimed(d, q)
    BY SMTT(30), <1>0, UnlockedIsOff
  <2>2. q \notin tree
    BY <1>0 DEF TreeIsRunnable
  <2>3. \A r \in Procs : np[r] # q
    <3> SUFFICES ASSUME NEW r \in Procs, np[r] = q PROVE FALSE
      OBVIOUS
    <3>1. np[r] # NULL
      BY NPROCAssumption
    <3>2. state[np[r]] \in {"RUNNABLE", "USED"}
      BY <3>1 DEF ForkInv, ChildInHand
    <3> QED
      BY <1>0, <3>2
  <2> QED
    BY <2>1, <2>2, <2>3
<1>3. /\ Stage(p) = "syscall" /\ Stage(p)' = "fork_parent"
      /\ Stage(q) = "dead" /\ Stage(q)' = "forkret"
      /\ \A r \in Procs \ {p, q} : Stage(r)' = Stage(r)
  <2>1. pc[q] = "dead"
    BY <1>0, <1>2 DEF OffCpuInv
  <2> QED
    BY <1>0, <1>1, <2>1 DEF Stage
<1>4. CpuInv'
  BY <1>0, <1>1, <1>2 DEF CpuInv
<1>5. ClaimInv'
  BY <1>0, <1>1, <1>2 DEF ClaimInv, Claimed
<1>6. OneCpuPerProcess'
  BY <1>0, <1>1, <1>2 DEF OneCpuPerProcess, OnCpu
<1>7. TreeIsRunnable'
  BY <1>0, <1>1, <1>2 DEF TreeIsRunnable, ClaimInv, Claimed
<1>8. OnCpuInv'
  BY SMTT(30), <1>0, <1>1, <1>2, CpusAssumption DEF OnCpuInv, OnCpu, OneCpuPerProcess, Interruptible
<1>9. OffCpuInv'
  BY <1>0, <1>1, <1>2 DEF OffCpuInv, OnCpu
<1>10. ForkInv'
  <2> SUFFICES ASSUME NEW r \in Procs PROVE ChildInHand(r)'
    BY DEF ForkInv
  <2>1. \A d \in Cpus, t \in Procs : (Claimed(d, t)' <=> Claimed(d, t)) /\ (OnCpu(d, t)' <=> OnCpu(d, t))
    BY <1>0 DEF Claimed, OnCpu
  <2>2. CASE r = p
    BY <1>0, <1>1, <1>2, <1>3, <2>1, <2>2, NPROCAssumption DEF ChildInHand, Forking
  <2>3. CASE r = q
    BY <1>0, <1>1, <1>2, <1>3, <2>3 DEF ChildInHand, Forking, ForkInv
  <2>4. CASE r \notin {p, q}
    BY <1>0, <1>1, <1>2, <1>3, <2>1, <2>4 DEF ChildInHand, Forking, ForkInv
  <2> QED
    BY <2>2, <2>3, <2>4
<1>11. RunnableNotLost'
  <2>1. ASSUME NEW r \in Procs, state'[r] = "RUNNABLE"
        PROVE  \/ r \in tree' \/ \E d \in Cpus : Claimed(d, r)'
               \/ \E t \in Procs : np'[t] = r /\ Stage(t)' = "fork_insert"
    <3>1. state[r] = "RUNNABLE"
      BY <1>0, <2>1
    <3>2. ASSUME NEW t \in Procs, np[t] = r, Stage(t) = "fork_insert"
          PROVE  np'[t] = r /\ Stage(t)' = "fork_insert"
      BY <1>0, <1>3, <3>2
    <3> QED
      BY <1>0, <3>1, <3>2 DEF RunnableNotLost, Claimed
  <2> QED
    BY <2>1 DEF RunnableNotLost
<1> QED
  BY <1>4, <1>5, <1>6, <1>7, <1>8, <1>9, <1>10, <1>11

\* wait() frees a zombie child, or returns and leaves it.
LEMMA WaitReapPlace ==
    ASSUME SchedInv, NEW c \in Cpus, NEW p \in Procs, WaitReap(c, p)
    PROVE  PlaceInv'
<1> USE DEF SchedInv, PlaceInv, TypeOK, Procs, NULL
<1>a. CASE UNCHANGED procVars
  BY <1>a, LocalMove DEF WaitReap, GoTo, Free, ForkLabels, Interruptible, HoldsWaitLock
<1>b. CASE freeproc(i)
  <2>0. /\ i \in Procs /\ plock[i] = NULL /\ state[i] = "ZOMBIE"
        /\ state' = [state EXCEPT ![i] = "UNUSED"]
        /\ pc' = [pc EXCEPT ![p] = "user"]
        /\ UNCHANGED <<plock, tree, cpc, cp, cproc, ret, np>>
    BY <1>b, NPROCAssumption DEF WaitReap, ZombieChild, freeproc, GoTo
  <2>r. pc[p] = "wait_scan" /\ Runs(c, p)
    BY DEF WaitReap
  <2>1. /\ cpc[c] = "swtched" /\ cp[c] = p /\ state[p] = "RUNNING"
        /\ plock[p] = NULL /\ OnCpu(c, p) /\ p # i /\ pc[p] = "wait_scan"
    BY <2>r, <2>0, RunsFacts DEF Free, HoldsWaitLock
  <2>2. /\ \A d \in Cpus : ~OnCpu(d, i) /\ ~Claimed(d, i)
        /\ i \notin tree
    BY SMTT(30), <2>0, UnlockedIsOff DEF TreeIsRunnable
  <2>3. CpuInv'
    BY <2>0, <2>1, <2>2 DEF CpuInv
  <2>4. ClaimInv'
    BY <2>0, <2>1, <2>2 DEF ClaimInv, Claimed
  <2>5. OneCpuPerProcess'
    BY <2>0, <2>1, <2>2 DEF OneCpuPerProcess, OnCpu
  <2>6. TreeIsRunnable'
    BY SMTT(30), <2>0, <2>1, <2>2 DEF TreeIsRunnable, ClaimInv, Claimed
  <2>7. OnCpuInv'
    BY SMTT(30), <2>0, <2>1, <2>2, CpusAssumption DEF OnCpuInv, OnCpu, OneCpuPerProcess, Interruptible
  <2>8. OffCpuInv'
    BY <2>0, <2>1, <2>2 DEF OffCpuInv, OnCpu
  <2>9. ForkInv'
    BY <2>0, <2>1, <2>2 DEF ForkInv, ChildInHand, Forking, Stage, Claimed, OnCpu
  <2>10. RunnableNotLost'
    BY SMTT(30), <2>0, <2>1, <2>2 DEF RunnableNotLost, Claimed, Stage
  <2> QED
    BY <2>3, <2>4, <2>5, <2>6, <2>7, <2>8, <2>9, <2>10
<1> QED
  BY SMTT(30), <1>a, <1>b DEF WaitReap

\* kill() makes a sleeper RUNNABLE and the caller returns to user mode.
LEMMA KillWakes ==
    ASSUME SchedInv, NEW c \in Cpus, NEW p \in Procs, NEW q \in Procs, Kill(c, p, q),
           state[q] = "SLEEPING", MakeRunnable(q)
    PROVE  PlaceInv'
<1> USE DEF SchedInv, PlaceInv, TypeOK, Procs, NULL
<1>0. /\ plock[q] = NULL /\ Runs(c, p) /\ pc[p] = "syscall"
      /\ state' = [state EXCEPT ![q] = "RUNNABLE"]
      /\ tree' = tree \cup {q}
      /\ pc' = [pc EXCEPT ![p] = "user"]
      /\ UNCHANGED <<plock, cpc, cp, cproc, ret, np>>
  BY DEF Kill, Syscall, MakeRunnable, GoTo
<1>1. /\ cpc[c] = "swtched" /\ cp[c] = p /\ state[p] = "RUNNING"
      /\ plock[p] = NULL /\ OnCpu(c, p) /\ p # q
  BY <1>0, RunsFacts DEF Free, Interruptible
<1>2. state[q] = "SLEEPING" /\ \A d \in Cpus : ~OnCpu(d, q) /\ ~Claimed(d, q)
  BY SMTT(30), <1>0, UnlockedIsOff
<1>3. CpuInv'
  BY <1>0, <1>1, <1>2 DEF CpuInv
<1>4. ClaimInv'
  BY <1>0, <1>1, <1>2 DEF ClaimInv, Claimed
<1>5. OneCpuPerProcess'
  BY <1>0, <1>1, <1>2 DEF OneCpuPerProcess, OnCpu
<1>6. TreeIsRunnable'
  BY SMTT(30), <1>0, <1>1, <1>2 DEF TreeIsRunnable, ClaimInv, Claimed
<1>7. OnCpuInv'
  BY SMTT(30), <1>0, <1>1, <1>2, CpusAssumption DEF OnCpuInv, OnCpu, OneCpuPerProcess, Interruptible
<1>8. OffCpuInv'
  BY SMTT(30), <1>0, <1>1, <1>2 DEF OffCpuInv, OnCpu, Resumable
<1>9. ForkInv'
  BY <1>0, <1>1, <1>2 DEF ForkInv, ChildInHand, Forking, Stage, Claimed, OnCpu
<1>10. RunnableNotLost'
  BY <1>0, <1>1, <1>2 DEF RunnableNotLost, Claimed, Stage
<1> QED
  BY <1>3, <1>4, <1>5, <1>6, <1>7, <1>8, <1>9, <1>10
=============================================================================
