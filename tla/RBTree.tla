------------------------------- MODULE RBTree -------------------------------
(***************************************************************************)
(* The red-black tree of kernel/proc.c that holds the RUNNABLE processes,  *)
(* ordered by virtual runtime, as operators on a record: the fields of     *)
(* struct redblackTree and, for every process, its links and its colour.   *)
(*                                                                         *)
(* Field stuck records that the loop of retrievingCases() found no branch  *)
(* to take, and spins for ever with the lock of the tree held, or followed *)
(* a null pointer.  A null pointer followed anywhere else applies a        *)
(* function outside its domain, which TLC reports as an error.             *)
(***************************************************************************)
EXTENDS Integers, FiniteSets

CONSTANT NPROC      \* size of proc[]

Procs == 1..NPROC
NULL == 0
RED == "RED"
BLACK == "BLACK"

latency == NPROC \div 2
min_granularity == 2

\* rbinit(), and the links of processes that were never in the tree.
rbinit ==
    [count |-> 0, rbTreeWeight |-> 0, root |-> NULL, min_vRuntime |-> NULL,
     period |-> latency, stuck |-> FALSE,
     left |-> [p \in Procs |-> NULL], right |-> [p \in Procs |-> NULL],
     parentP |-> [p \in Procs |-> NULL], coloring |-> [p \in Procs |-> RED]]

emptyTree(t) == t.count = 0
fullTree(t) == t.count = NPROC

\* C's division of ints; dividing by zero gives -1 on RISC-V.
Quotient(a, b) ==
    CASE b = 0 -> -1
      [] b > 0 -> IF a >= 0 THEN a \div b ELSE -((-a) \div b)
      [] b < 0 -> IF a >= 0 THEN -(a \div (-b)) ELSE (-a) \div (-b)

\* 2^28 / 1.25^k, in fixed point.
Scaled[k \in 0..31] == IF k = 0 THEN 2^28 ELSE (4 * Scaled[k - 1]) \div 5

\* (int)(1024 / 1.25^(n+1)): the denominator starts at 1.25 and is
\* multiplied once per nice level.
calculateWeight(nice) ==
    LET n == IF nice > 30 THEN 30 ELSE IF nice < 0 THEN 0 ELSE nice
    IN  Scaled[n + 1] \div 2^18

-----------------------------------------------------------------------------
(***************************************************************************)
(* Rotations                                                               *)
(***************************************************************************)
Paint(t, x, c) == [t EXCEPT !.coloring[x] = c]

\* y takes the place of x below the parent of x.
Supplant(t, x, y) ==
    LET up == t.parentP[x]
    IN  IF up = NULL THEN [t EXCEPT !.root = y]
        ELSE IF x = t.left[up] THEN [t EXCEPT !.left[up] = y]
        ELSE [t EXCEPT !.right[up] = y]

\* Mutant: the inner grandchild keeps its old parent.
ReparentForgetsInner(t, x, y, inner) ==
    [t EXCEPT !.parentP = [q \in Procs |-> CASE q = x -> y
                                             [] q = y -> t.parentP[x]
                                             [] OTHER -> t.parentP[q]]]

\* The parents after y moves up over x and inner goes from y to x.
Reparent(t, x, y, inner) ==
    [t EXCEPT !.parentP = [q \in Procs |-> CASE q = x -> y
                                             [] q = y -> t.parentP[x]
                                             [] q = inner -> x
                                             [] OTHER -> t.parentP[q]]]

rotateLeft(t, x) ==
    LET y == t.right[x]
    IN  [Reparent(Supplant(t, x, y), x, y, t.left[y])
            EXCEPT !.right[x] = t.left[y], !.left[y] = x]

rotateRight(t, x) ==
    LET y == t.left[x]
    IN  [Reparent(Supplant(t, x, y), x, y, t.right[y])
            EXCEPT !.left[x] = t.right[y], !.right[y] = x]

RECURSIVE setMinimumVRuntimeproc(_, _)
setMinimumVRuntimeproc(t, x) ==
    IF x = NULL \/ t.left[x] = NULL THEN x ELSE setMinimumVRuntimeproc(t, t.left[x])

-----------------------------------------------------------------------------
(***************************************************************************)
(* Insertion                                                               *)
(***************************************************************************)
retrieveGrandparentproc(t, x) ==
    IF x # NULL /\ t.parentP[x] # NULL THEN t.parentP[t.parentP[x]] ELSE NULL

retrieveUncleproc(t, x) ==
    LET g == retrieveGrandparentproc(t, x)
    IN  IF g = NULL THEN NULL
        ELSE IF t.parentP[x] = t.left[g] THEN t.right[g] ELSE t.left[g]

\* Mutant: equal runtimes go to the left.
GoesRightStrict(t, vr, x, p) == vr[x] < vr[p]

\* Whether p goes to the right of x.
GoesRight(t, vr, x, p) == vr[x] <= vr[p]

\* insertproc(): link p, red, as a leaf below x.
RECURSIVE insertproc(_, _, _, _)
insertproc(t, vr, x, p) ==
    LET next == IF GoesRight(t, vr, x, p) THEN t.right[x] ELSE t.left[x]
        linked == [t EXCEPT !.parentP[p] = x, !.coloring[p] = RED]
    IN  IF next # NULL THEN insertproc(t, vr, next, p)
        ELSE IF GoesRight(t, vr, x, p) THEN [linked EXCEPT !.right[x] = p]
        ELSE [linked EXCEPT !.left[x] = p]

\* Case 4: an inner grandchild is rotated to the outside.
Straighten(t, x) ==
    LET p == t.parentP[x]
        g == retrieveGrandparentproc(t, x)
    IN  IF x = t.right[p] /\ p = t.left[g]
          THEN LET u == rotateLeft(t, p) IN <<u, u.left[x]>>
        ELSE IF x = t.left[p] /\ p = t.right[g]
          THEN LET u == rotateRight(t, p) IN <<u, u.right[x]>>
        ELSE <<t, x>>

\* Case 5: the grandparent is rotated over the parent.
RotateOver(t, x) ==
    LET p == t.parentP[x]
        g == retrieveGrandparentproc(t, x)
        u == Paint(Paint(t, g, RED), p, BLACK)
    IN  IF g = NULL THEN t
        ELSE IF x = t.left[p] /\ p = t.left[g] THEN rotateRight(u, g)
        ELSE IF x = t.right[p] /\ p = t.right[g] THEN rotateLeft(u, g)
        ELSE u

\* Mutant: the red uncle stays red.
RecolorForgetsUncle(t, x) ==
    Paint(Paint(t, t.parentP[x], BLACK), retrieveGrandparentproc(t, x), RED)

\* Case 3: parent and uncle are red.
Recolor(t, x) ==
    Paint(Paint(Paint(t, t.parentP[x], BLACK), retrieveUncleproc(t, x), BLACK),
          retrieveGrandparentproc(t, x), RED)

RECURSIVE insertionCases(_, _)
insertionCases(t, x) ==
    LET p == t.parentP[x]
        uncle == retrieveUncleproc(t, x)
    IN  IF p = NULL THEN Paint(t, x, BLACK)
        ELSE IF t.coloring[p] # RED THEN t
        ELSE IF uncle # NULL /\ t.coloring[uncle] = RED
          THEN insertionCases(Recolor(t, x), retrieveGrandparentproc(t, x))
        ELSE LET s == Straighten(t, x) IN RotateOver(s[1], s[2])

\* The cached minimum is looked for again only when it got a left child.
NewMinimum(t) ==
    IF t.min_vRuntime = NULL \/ t.left[t.min_vRuntime] # NULL
      THEN setMinimumVRuntimeproc(t, t.root) ELSE t.min_vRuntime

\* insertProcess(); weight is p->weightValue, just calculated.
insertProcess(t, vr, weight, p) ==
    IF fullTree(t) THEN t
    ELSE LET a == IF t.root = NULL
                    THEN [t EXCEPT !.root = p, !.coloring[p] = RED]
                    ELSE insertproc(t, vr, t.root, p)
             b == IF t.count = 0 THEN [a EXCEPT !.parentP[a.root] = NULL] ELSE a
             c == [b EXCEPT !.count = @ + 1, !.rbTreeWeight = @ + weight]
             d == insertionCases(c, p)
         IN  [d EXCEPT !.min_vRuntime = NewMinimum(d)]

-----------------------------------------------------------------------------
(***************************************************************************)
(* Retrieval                                                               *)
(***************************************************************************)
IsBlack(t, x) == x = NULL \/ t.coloring[x] = BLACK

\* retrievingCases(), case 2: x, which is null or black, lacks one black
\* node above it.
RECURSIVE Rebalance(_, _, _)
Rebalance(t, parent, x) ==
    IF x = t.root \/ ~IsBlack(t, x)
      THEN IF x # NULL THEN Paint(t, x, BLACK) ELSE t
    ELSE IF parent = NULL \/ x # t.left[parent] THEN [t EXCEPT !.stuck = TRUE]
    ELSE LET red == ~IsBlack(t, t.right[parent])
             a == IF red
                    THEN rotateLeft(Paint(Paint(t, t.right[parent], BLACK), parent, RED), parent)
                    ELSE t
             s == a.right[parent]
         IN  IF s = NULL THEN [a EXCEPT !.stuck = TRUE]
             ELSE IF IsBlack(a, a.left[s]) /\ IsBlack(a, a.right[s])
               THEN Rebalance(Paint(a, s, RED), a.parentP[parent], parent)
               ELSE LET b == IF IsBlack(a, a.right[s])
                               THEN rotateRight(Paint(Paint(a, a.left[s], BLACK), s, RED), s)
                               ELSE a
                        r == b.right[parent]
                        c == Paint(Paint(Paint(b, r, b.coloring[parent]), parent, BLACK),
                                   b.right[r], BLACK)
                        d == rotateLeft(c, parent)
                    IN  Rebalance(d, parent, d.root)

\* retrievingCases(), case 1: x, the minimum, is replaced by its right child.
\* The colour x leaves with is never read, and is RED here.
retrievingCases(t, x) ==
    LET parent == t.parentP[x]
        child == t.right[x]
        onlyChild(u) == IF child = NULL THEN u ELSE [u EXCEPT !.parentP[child] = parent]
        a == IF x = t.root
               THEN IF child = NULL THEN [t EXCEPT !.root = NULL]
                    ELSE Paint([t EXCEPT !.root = child, !.parentP[child] = NULL], child, BLACK)
             ELSE IF child # NULL /\ t.coloring[x] # t.coloring[child]
               THEN Paint(onlyChild([t EXCEPT !.left[parent] = child]), child, BLACK)
             ELSE IF t.coloring[x] = RED THEN [t EXCEPT !.left[parent] = child]
             ELSE Rebalance(onlyChild([t EXCEPT !.left[parent] = child]), parent, child)
    IN  [a EXCEPT !.parentP[x] = NULL, !.left[x] = NULL, !.right[x] = NULL,
                  !.coloring[x] = RED]

NewPeriod(t) ==
    IF t.count > latency \div min_granularity THEN t.count * min_granularity ELSE t.period

\* retrieveProcess() on a tree that is not empty: the tree it leaves.  Its
\* test of the minimum's state never fails (TreeOnlyRunnable in ProcProofs).
retrieveProcess(t, weight) ==
    LET found == t.min_vRuntime
        a == [retrievingCases(t, found) EXCEPT !.count = @ - 1, !.period = NewPeriod(t)]
    IN  [a EXCEPT !.min_vRuntime = setMinimumVRuntimeproc(a, a.root),
                  !.rbTreeWeight = @ - weight[found]]

\* The time slice it gives to the process it returns.
maximumExecutiontime(t, weight) ==
    Quotient(NewPeriod(t) * weight[t.min_vRuntime], t.rbTreeWeight)
=============================================================================
