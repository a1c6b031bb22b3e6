------------------------------ MODULE RunQueue ------------------------------
(***************************************************************************)
(* The run queue of kernel/proc.c: the red-black tree and the scheduling   *)
(* fields of the processes, under insertProcess() with the accounting its  *)
(* callers do first, retrieveProcess(), chprio() and allocproc().          *)
(*                                                                         *)
(* insertProcess() is called only for a process that is not in the tree    *)
(* (ClaimInv, OnCpuInv and ForkInv of module Proc).                        *)
(***************************************************************************)
EXTENDS RBTree, Sequences, FiniteSetsExt

CONSTANTS
    Loads,          \* the workloads, one of which the machine has:
                    \*   runtime: what the processes have run at the start,
                    \*   charges: the ticks a process may run before it is queued,
                    \*   recycled: process slots that are freed and allocated again,
                    \*   nices: the nice values chprio() is called with,
                    \*   max: a bound on the runtimes, at most MaxRuntime
    MaxRuntime,     \* bound on virtual runtimes
    MaxDrift        \* bound on rbTreeWeight minus the weights in the tree

ASSUME LoadsAssumption ==
    \A l \in Loads : /\ DOMAIN l.runtime \subseteq Procs /\ l.recycled \subseteq DOMAIN l.runtime
                    /\ \A p \in DOMAIN l.runtime : l.runtime[p] \in 0..l.max
                    /\ l.charges \subseteq Nat /\ l.max \in 0..MaxRuntime

VARIABLES tree, virtualRuntime, niceValue, weightValue, load

vars == <<tree, virtualRuntime, niceValue, weightValue, load>>

\* The processes of the tree below x from left to right.
RECURSIVE InOrder(_, _)
InOrder(t, x) ==
    IF x = NULL THEN <<>>
    ELSE InOrder(t, t.left[x]) \o <<x>> \o InOrder(t, t.right[x])

queue == InOrder(tree, tree.root)
Nodes == {queue[k] : k \in DOMAIN queue}

Drift(weight) == tree.rbTreeWeight - MapThenSumSet(LAMBDA p : weight[p], Nodes)

Init ==
    /\ tree = rbinit
    /\ load \in Loads
    /\ virtualRuntime = [p \in Procs |-> IF p \in DOMAIN load.runtime THEN load.runtime[p] ELSE 0]
    /\ niceValue = [p \in Procs |-> 0]
    /\ weightValue = [p \in Procs |-> 0]

\* yield(), wakeup() and kill() add currentRuntime and insert; fork() and
\* userinit() insert a process that has run for 0 ticks.
Insert(p, currentRuntime) ==
    LET vr == [virtualRuntime EXCEPT ![p] = @ + currentRuntime]
        weight == calculateWeight(niceValue[p])
    IN  /\ p \notin Nodes
        /\ vr[p] <= load.max
        /\ virtualRuntime' = vr
        /\ weightValue' = [weightValue EXCEPT ![p] = weight]
        /\ tree' = insertProcess(tree, vr, weight, p)
        /\ UNCHANGED <<niceValue, load>>

Retrieve ==
    /\ ~emptyTree(tree)
    /\ tree' = retrieveProcess(tree, weightValue)
    /\ UNCHANGED <<virtualRuntime, niceValue, weightValue, load>>

\* chprio() takes no lock: it may hit a process in the tree.
Chprio(p, nice) ==
    /\ niceValue' = [niceValue EXCEPT ![p] = nice]
    /\ weightValue' = [weightValue EXCEPT ![p] = calculateWeight(nice)]
    /\ Drift(weightValue') \in -MaxDrift..MaxDrift
    /\ UNCHANGED <<tree, virtualRuntime, load>>

\* The slot was freed and allocproc() takes it; its links are null already.
Alloc(p) ==
    /\ p \notin Nodes
    /\ virtualRuntime' = [virtualRuntime EXCEPT ![p] = 0]
    /\ niceValue' = [niceValue EXCEPT ![p] = 0]
    /\ tree' = [tree EXCEPT !.left[p] = NULL, !.right[p] = NULL, !.parentP[p] = NULL]
    /\ UNCHANGED <<weightValue, load>>

Next ==
    \/ \E p \in DOMAIN load.runtime : \E d \in load.charges : Insert(p, d)
    \/ Retrieve
    \/ \E p \in DOMAIN load.runtime : \E n \in load.nices : Chprio(p, n)
    \/ \E p \in load.recycled : Alloc(p)

Spec == Init /\ [][Next]_vars

-----------------------------------------------------------------------------
\* The number of black nodes on every path down from x, or -1 if they differ.
RECURSIVE BlackHeight(_)
BlackHeight(x) ==
    IF x = NULL THEN 0
    ELSE LET l == BlackHeight(tree.left[x])
             r == BlackHeight(tree.right[x])
         IN  IF l = -1 \/ l # r THEN -1
             ELSE IF tree.coloring[x] = BLACK THEN l + 1 ELSE l

\* insertionCases() and retrievingCases() keep the red-black properties: a
\* black root, no red node with a red child, and black heights that agree.
RedBlack ==
    /\ IsBlack(tree, tree.root)
    /\ \A x \in Nodes : tree.coloring[x] = RED =>
        IsBlack(tree, tree.left[x]) /\ IsBlack(tree, tree.right[x])
    /\ BlackHeight(tree.root) # -1

\* The loop of retrievingCases() handles only a left child that has a
\* sibling.  It never meets another one, so no CPU spins or faults there with
\* the lock of the tree held.
NeverStuck == ~tree.stuck

\* "total weight calculation" (insertProcess), "Recalculate total weight of
\* red-black tree" (retrieveProcess): rbTreeWeight is the sum of the weights
\* of the processes in the tree.
WeightIsSum == Drift(weightValue) = 0

RQ == INSTANCE ReadyQueue WITH Runtimes <- 0..MaxRuntime

\* The tree is the ordered queue the scheduler expects: insertion takes the
\* place behind equal runtimes and retrieval takes the first.
Refines == RQ!RQSpec
=============================================================================
