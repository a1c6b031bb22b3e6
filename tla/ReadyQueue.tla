----------------------------- MODULE ReadyQueue -----------------------------
(***************************************************************************)
(* What the scheduler expects of runnableTasks: a queue of processes in    *)
(* the order of their virtual runtimes, first come first served among      *)
(* equals.  insertProcess() puts a process behind everyone whose runtime   *)
(* is not larger; retrieveProcess() takes the first.                       *)
(***************************************************************************)
EXTENDS Integers, Sequences

CONSTANTS
    Procs,
    Runtimes        \* the virtual runtimes a process can have

VARIABLES queue, virtualRuntime

rqVars == <<queue, virtualRuntime>>

Queued == {queue[k] : k \in DOMAIN queue}

RQInit ==
    /\ queue = <<>>
    /\ virtualRuntime \in [Procs -> Runtimes]

\* The queue q with p at place k + 1.
InsertAt(q, k, p) == SubSeq(q, 1, k) \o <<p>> \o SubSeq(q, k + 1, Len(q))

\* The place insertproc() ends at: behind the runtimes up to p's own.
IsPlace(q, vr, k, p) ==
    /\ k \in 0..Len(q)
    /\ \A j \in 1..k : vr[q[j]] <= vr[p]
    /\ \A j \in (k + 1)..Len(q) : vr[q[j]] > vr[p]

\* A process with its new runtime v enters.
RQInsert(p, v) ==
    /\ p \notin Queued
    /\ virtualRuntime' = [virtualRuntime EXCEPT ![p] = v]
    /\ \E k \in 0..Len(queue) :
        /\ IsPlace(queue, virtualRuntime', k, p)
        /\ queue' = InsertAt(queue, k, p)

RQRetrieve ==
    /\ queue # <<>>
    /\ queue' = Tail(queue)
    /\ UNCHANGED virtualRuntime

\* allocproc() starts a process at runtime 0.
RQReset(p) ==
    /\ p \notin Queued
    /\ virtualRuntime' = [virtualRuntime EXCEPT ![p] = 0]
    /\ UNCHANGED queue

RQNext ==
    \/ \E p \in Procs : RQReset(p) \/ \E v \in Runtimes : RQInsert(p, v)
    \/ RQRetrieve

RQSpec == RQInit /\ [][RQNext]_rqVars

-----------------------------------------------------------------------------
RQTypeOK ==
    /\ queue \in Seq(Procs)
    /\ virtualRuntime \in [Procs -> Runtimes]

\* The queue holds no process twice and is in the order of the runtimes, so
\* that its first process is one that has run least.
Ordered ==
    \A j, k \in DOMAIN queue : j < k =>
        /\ queue[j] # queue[k]
        /\ virtualRuntime[queue[j]] <= virtualRuntime[queue[k]]

\* Nobody overtakes: of two processes that stay queued, the one in front
\* stays in front.
NoOvertaking ==
    [][\A j, k \in DOMAIN queue : \A l, m \in DOMAIN queue' :
          j < k /\ queue'[l] = queue[j] /\ queue'[m] = queue[k] => l < m]_rqVars
=============================================================================
