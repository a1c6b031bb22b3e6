-------------------------- MODULE ReadyQueueProofs --------------------------
(***************************************************************************)
(* Proofs about module ReadyQueue, for any set of processes and runtimes.  *)
(***************************************************************************)
EXTENDS ReadyQueue, TLAPS

\* What the theorems assume: runtimes are naturals and a process starts at 0.
RuntimesOK == Runtimes \subseteq Nat /\ 0 \in Runtimes

\* The places of a concatenation.
LEMMA ConcatFacts ==
    ASSUME NEW S, NEW a \in Seq(S), NEW b \in Seq(S)
    PROVE  /\ a \o b \in Seq(S)
           /\ Len(a \o b) = Len(a) + Len(b)
           /\ \A j \in 1..Len(a) : (a \o b)[j] = a[j]
           /\ \A j \in (Len(a) + 1)..(Len(a) + Len(b)) : (a \o b)[j] = b[j - Len(a)]
OBVIOUS

\* The queue r is q with p at place k + 1: the places up to k stay, the others
\* move back by one.
Inserted(S, q, k, p, r) ==
    /\ r \in Seq(S) /\ Len(r) = Len(q) + 1
    /\ \A j \in 1..k : r[j] = q[j]
    /\ r[k + 1] = p
    /\ \A j \in (k + 2)..(Len(q) + 1) : r[j] = q[j - 1]

\* InsertAt puts p at place k + 1.
LEMMA InsertAtFacts ==
    ASSUME NEW S, NEW q \in Seq(S), NEW k \in 0..Len(q), NEW p \in S
    PROVE  Inserted(S, q, k, p, InsertAt(q, k, p))
<1>1. /\ SubSeq(q, 1, k) \in Seq(S) /\ Len(SubSeq(q, 1, k)) = k
      /\ \A j \in 1..k : SubSeq(q, 1, k)[j] = q[j]
  OBVIOUS
<1>2. /\ SubSeq(q, k + 1, Len(q)) \in Seq(S)
      /\ Len(SubSeq(q, k + 1, Len(q))) = Len(q) - k
      /\ \A j \in 1..(Len(q) - k) : SubSeq(q, k + 1, Len(q))[j] = q[k + j]
  OBVIOUS
<1>3. /\ SubSeq(q, 1, k) \o <<p>> \in Seq(S) /\ Len(SubSeq(q, 1, k) \o <<p>>) = k + 1
      /\ \A j \in 1..k : (SubSeq(q, 1, k) \o <<p>>)[j] = q[j]
      /\ (SubSeq(q, 1, k) \o <<p>>)[k + 1] = p
  BY <1>1
<1> DEFINE front == SubSeq(q, 1, k) \o <<p>>
           back == SubSeq(q, k + 1, Len(q))
<1>a. InsertAt(q, k, p) = front \o back
  BY DEF InsertAt
<1>b. front \in Seq(S) /\ back \in Seq(S) /\ Len(front) = k + 1 /\ Len(back) = Len(q) - k
  BY <1>2, <1>3
<1> HIDE DEF front, back
<1>4. /\ InsertAt(q, k, p) \in Seq(S)
      /\ Len(InsertAt(q, k, p)) = Len(q) + 1
  BY <1>a, <1>b, ConcatFacts
<1>5. \A j \in 1..(k + 1) : InsertAt(q, k, p)[j] = front[j]
  BY <1>a, <1>b, ConcatFacts
<1>6. \A j \in (k + 2)..(Len(q) + 1) : InsertAt(q, k, p)[j] = back[j - (k + 1)]
  <2>1. \A j \in (Len(front) + 1)..(Len(front) + Len(back)) :
            (front \o back)[j] = back[j - Len(front)]
    BY SMTT(30), <1>b, ConcatFacts
  <2>2. Len(front) + 1 = k + 2 /\ Len(front) + Len(back) = Len(q) + 1
    BY <1>b
  <2> QED
    BY <1>a, <1>b, <2>1, <2>2
<1>7. \A j \in (k + 2)..(Len(q) + 1) : InsertAt(q, k, p)[j] = q[j - 1]
  <2> TAKE j \in (k + 2)..(Len(q) + 1)
  <2>1. j - (k + 1) \in 1..(Len(q) - k) /\ k + (j - (k + 1)) = j - 1
    OBVIOUS
  <2> QED
    BY <1>2, <1>6, <2>1 DEF back
<1>8. front[k + 1] = p /\ \A j \in 1..k : front[j] = q[j]
  BY <1>3 DEF front
<1> QED
  BY <1>4, <1>5, <1>7, <1>8 DEF Inserted

\* insertProcess() puts the process at its place.
LEMMA InsertPlaces ==
    ASSUME RQTypeOK, NEW p \in Procs, NEW v \in Runtimes, RQInsert(p, v)
    PROVE  \E k \in 0..Len(queue) :
              IsPlace(queue, virtualRuntime', k, p) /\ Inserted(Procs, queue, k, p, queue')
<1>1. PICK k \in 0..Len(queue) :
        /\ IsPlace(queue, virtualRuntime', k, p)
        /\ queue' = InsertAt(queue, k, p)
  BY DEF RQInsert
<1>2. queue \in Seq(Procs)
  BY DEF RQTypeOK
<1>3. Inserted(Procs, queue, k, p, InsertAt(queue, k, p))
  BY <1>2, InsertAtFacts
<1> QED
  BY <1>1, <1>3

\* A process that is not queued can be inserted at its place and the queue
\* stays ordered.
LEMMA InsertOrdered ==
    ASSUME RuntimesOK, RQTypeOK, Ordered, NEW p \in Procs, NEW v \in Runtimes, RQInsert(p, v)
    PROVE  RQTypeOK' /\ Ordered'
<1> USE DEF RuntimesOK, RQTypeOK
<1>1. PICK k \in 0..Len(queue) :
        IsPlace(queue, virtualRuntime', k, p) /\ Inserted(Procs, queue, k, p, queue')
  BY InsertPlaces
<1>2. /\ virtualRuntime' \in [Procs -> Runtimes] /\ virtualRuntime'[p] = v
      /\ \A q \in Procs \ {p} : virtualRuntime'[q] = virtualRuntime[q]
  BY DEF RQInsert
<1>3. /\ queue' \in Seq(Procs) /\ Len(queue') = Len(queue) + 1
      /\ \A j \in 1..k : queue'[j] = queue[j]
      /\ queue'[k + 1] = p
      /\ \A j \in (k + 2)..(Len(queue) + 1) : queue'[j] = queue[j - 1]
  BY <1>1 DEF Inserted
<1>4. \A j \in 1..Len(queue) :
        queue[j] \in Procs /\ queue[j] # p /\ virtualRuntime'[queue[j]] = virtualRuntime[queue[j]]
  BY <1>2 DEF RQInsert, Queued
<1>5. /\ \A j \in 1..k : virtualRuntime[queue[j]] <= v
      /\ \A j \in (k + 1)..Len(queue) : virtualRuntime[queue[j]] > v
  BY <1>1, <1>2, <1>4 DEF IsPlace
<1>6. Ordered'
  <2> SUFFICES ASSUME NEW j \in 1..(Len(queue) + 1), NEW m \in 1..(Len(queue) + 1), j < m
               PROVE  /\ queue'[j] # queue'[m]
                      /\ virtualRuntime'[queue'[j]] <= virtualRuntime'[queue'[m]]
    BY <1>3 DEF Ordered
  <2>0. \A x, y \in 1..Len(queue) : x < y =>
            queue[x] # queue[y] /\ virtualRuntime[queue[x]] <= virtualRuntime[queue[y]]
    <3>1. DOMAIN queue = 1..Len(queue)
      OBVIOUS
    <3> QED
      BY <3>1 DEF Ordered
  <2>a. Len(queue) \in Nat /\ k \in 0..Len(queue) /\ j \in Nat /\ m \in Nat
    OBVIOUS
  <2> HIDE DEF RQTypeOK
  <2>1. CASE m <= k
    <3>1. queue'[m] = queue[m] /\ queue'[j] = queue[j] /\ j \in 1..Len(queue) /\ m \in 1..Len(queue)
      BY <1>3, <2>a, <2>1
    <3> QED
      BY <1>4, <2>0, <3>1
  <2>2. CASE m = k + 1
    <3>1. queue'[m] = p /\ queue'[j] = queue[j] /\ j \in 1..k /\ j \in 1..Len(queue)
      BY <1>3, <2>a, <2>2
    <3>2. queue[j] # p /\ virtualRuntime[queue[j]] <= v
      BY <1>4, <1>5, <3>1
    <3> QED
      BY <1>2, <1>4, <3>1, <3>2
  <2>3. CASE m > k + 1 /\ j = k + 1
    <3>1. m - 1 \in (k + 1)..Len(queue)
      BY <2>3
    <3>2. queue'[m] = queue[m - 1] /\ queue'[j] = p
      BY <1>3, <2>a, <2>3
    <3>3. queue[m - 1] # p /\ virtualRuntime[queue[m - 1]] > v
      BY <1>4, <1>5, <3>1
    <3>4. virtualRuntime[queue[m - 1]] \in Nat /\ v \in Nat
      <4>1. m - 1 \in 1..Len(queue)
        BY <2>a, <3>1
      <4>2. queue[m - 1] \in Procs
        BY <1>4, <4>1
      <4>3. virtualRuntime[queue[m - 1]] \in Runtimes
        BY <4>2 DEF RQTypeOK
      <4> QED
        BY <4>3
    <3> QED
      BY <1>2, <1>4, <3>1, <3>2, <3>3, <3>4
  <2>4. CASE m > k + 1 /\ j <= k
    <3>1. m - 1 \in 1..Len(queue) /\ j \in 1..Len(queue) /\ j < m - 1
      BY <2>4
    <3>2. queue'[m] = queue[m - 1] /\ queue'[j] = queue[j]
      BY SMTT(20), <1>3, <2>a, <2>4
    <3>3. /\ queue[j] # queue[m - 1]
          /\ virtualRuntime[queue[j]] <= virtualRuntime[queue[m - 1]]
      BY <2>0, <3>1
    <3> QED
      BY <1>4, <3>1, <3>2, <3>3
  <2>5. CASE m > k + 1 /\ j > k + 1
    <3>1. m - 1 \in 1..Len(queue) /\ j - 1 \in 1..Len(queue) /\ j - 1 < m - 1
      BY <2>5
    <3>2. queue'[m] = queue[m - 1] /\ queue'[j] = queue[j - 1]
      BY <1>3, <2>a, <2>5
    <3>3. /\ queue[j - 1] # queue[m - 1]
          /\ virtualRuntime[queue[j - 1]] <= virtualRuntime[queue[m - 1]]
      BY <2>0, <3>1
    <3> QED
      BY <1>4, <3>1, <3>2, <3>3
  <2> QED
    BY <2>1, <2>2, <2>3, <2>4, <2>5
<1> QED
  BY <1>2, <1>3, <1>6

\* Ordered, with the types, is inductive.
LEMMA OrderedStep ==
    ASSUME RuntimesOK
    PROVE  RQTypeOK /\ Ordered /\ [RQNext]_rqVars => (RQTypeOK /\ Ordered)'
<1> SUFFICES ASSUME RQTypeOK, Ordered, [RQNext]_rqVars PROVE (RQTypeOK /\ Ordered)'
  OBVIOUS
<1>1. ASSUME NEW p \in Procs, NEW v \in Runtimes, RQInsert(p, v) PROVE (RQTypeOK /\ Ordered)'
  BY <1>1, InsertOrdered
<1>2. CASE RQRetrieve
  <2>1. /\ queue' \in Seq(Procs) /\ Len(queue') = Len(queue) - 1
        /\ \A j \in 1..Len(queue') : queue'[j] = queue[j + 1]
    BY <1>2 DEF RQRetrieve, RQTypeOK
  <2> QED
    BY <1>2, <2>1 DEF RQRetrieve, RQTypeOK, Ordered
<1>3. ASSUME NEW p \in Procs, RQReset(p) PROVE (RQTypeOK /\ Ordered)'
  BY <1>3 DEF RuntimesOK, RQReset, RQTypeOK, Ordered, Queued
<1>4. CASE UNCHANGED rqVars
  BY <1>4 DEF rqVars, RQTypeOK, Ordered
<1> QED
  BY <1>1, <1>2, <1>3, <1>4 DEF RQNext

\* Whatever is inserted and retrieved, the run queue stays in the order of
\* the virtual runtimes, so retrieveProcess() returns a process that has run
\* least.
THEOREM QueueOrdered == RuntimesOK => (RQSpec => []Ordered)
<1> SUFFICES ASSUME RuntimesOK PROVE RQSpec => []Ordered
  OBVIOUS
<1>1. RQInit => RQTypeOK /\ Ordered
  BY DEF RQInit, RQTypeOK, Ordered
<1>2. RQTypeOK /\ Ordered /\ [RQNext]_rqVars => (RQTypeOK /\ Ordered)'
  BY OrderedStep
<1> QED
  BY <1>1, <1>2, PTL DEF RQSpec

\* No step of insertProcess() or retrieveProcess() lets one queued process
\* overtake another.
THEOREM QueueFair == RuntimesOK => (RQSpec => NoOvertaking)
<1> SUFFICES ASSUME RuntimesOK PROVE RQSpec => NoOvertaking
  OBVIOUS
<1>1. RQInit => RQTypeOK /\ Ordered
  BY DEF RQInit, RQTypeOK, Ordered
<1>2. ASSUME RQTypeOK, Ordered, [RQNext]_rqVars
      PROVE  [\A j, k \in DOMAIN queue : \A l, m \in DOMAIN queue' :
                 j < k /\ queue'[l] = queue[j] /\ queue'[m] = queue[k] => l < m]_rqVars
  <2> SUFFICES ASSUME RQNext, NEW j \in DOMAIN queue, NEW k \in DOMAIN queue,
                      NEW l \in DOMAIN queue', NEW m \in DOMAIN queue',
                      j < k, queue'[l] = queue[j], queue'[m] = queue[k]
               PROVE  l < m
    BY <1>2
  <2> USE <1>2 DEF RQTypeOK
  <2>1. ASSUME NEW p \in Procs, NEW v \in Runtimes, RQInsert(p, v) PROVE l < m
    <3>1. PICK n \in 0..Len(queue) : Inserted(Procs, queue, n, p, queue')
      BY <2>1, InsertPlaces
    <3>2. /\ queue' \in Seq(Procs) /\ Len(queue') = Len(queue) + 1
          /\ \A x \in 1..n : queue'[x] = queue[x]
          /\ queue'[n + 1] = p
          /\ \A x \in (n + 2)..(Len(queue) + 1) : queue'[x] = queue[x - 1]
      BY <3>1 DEF Inserted
    <3>3. queue[j] # p /\ queue[k] # p
      BY <2>1 DEF RQInsert, Queued
    <3>4. l \in 1..(Len(queue) + 1) /\ m \in 1..(Len(queue) + 1) /\ l # n + 1 /\ m # n + 1
      BY <3>2, <3>3
    <3>5. j = (IF l <= n THEN l ELSE l - 1) /\ k = (IF m <= n THEN m ELSE m - 1)
      <4>1. ASSUME NEW x \in 1..Len(queue), NEW y \in 1..Len(queue), queue[x] = queue[y]
            PROVE  x = y
        BY <4>1 DEF Ordered
      <4>2. ASSUME NEW x \in 1..(Len(queue) + 1), x # n + 1
            PROVE  /\ (IF x <= n THEN x ELSE x - 1) \in 1..Len(queue)
                   /\ queue'[x] = queue[IF x <= n THEN x ELSE x - 1]
        <5>1. CASE x <= n
          BY <3>2, <4>2, <5>1
        <5>2. CASE x > n
          <6>1. x \in (n + 2)..(Len(queue) + 1) /\ x - 1 \in 1..Len(queue)
            BY <4>2, <5>2
          <6> QED
            BY <3>2, <5>2, <6>1
        <5> QED
          BY <4>2, <5>1, <5>2
      <4>3. queue[IF l <= n THEN l ELSE l - 1] = queue[j] /\ queue[IF m <= n THEN m ELSE m - 1] = queue[k]
        BY SMTT(20), <3>4, <4>2
      <4>4. /\ (IF l <= n THEN l ELSE l - 1) \in 1..Len(queue)
            /\ (IF m <= n THEN m ELSE m - 1) \in 1..Len(queue)
        BY <3>4, <4>2
      <4>5. j \in 1..Len(queue) /\ k \in 1..Len(queue)
        OBVIOUS
      <4> QED
        BY <4>1, <4>3, <4>4, <4>5
    <3> QED
      BY <3>4, <3>5
  <2>2. CASE RQRetrieve
    <3>1. /\ queue' \in Seq(Procs) /\ Len(queue') = Len(queue) - 1
          /\ \A x \in 1..Len(queue') : queue'[x] = queue[x + 1]
      BY <2>2 DEF RQRetrieve
    <3>2. l + 1 = j /\ m + 1 = k
      <4>1. ASSUME NEW x \in 1..Len(queue), NEW y \in 1..Len(queue), queue[x] = queue[y]
            PROVE  x = y
        BY <4>1 DEF Ordered
      <4>2. /\ l + 1 \in 1..Len(queue) /\ m + 1 \in 1..Len(queue)
            /\ queue[l + 1] = queue[j] /\ queue[m + 1] = queue[k]
        BY <3>1
      <4> QED
        BY <4>1, <4>2
    <3> QED
      BY <3>1, <3>2
  <2>3. ASSUME NEW p \in Procs, RQReset(p) PROVE l < m
    BY <2>3 DEF RQReset, Ordered
  <2> QED
    BY <2>1, <2>2, <2>3 DEF RQNext
<1>3. RQTypeOK /\ Ordered /\ [RQNext]_rqVars => (RQTypeOK /\ Ordered)'
  BY OrderedStep
<1> QED
  BY <1>1, <1>2, <1>3, PTL DEF RQSpec, NoOvertaking
=============================================================================
