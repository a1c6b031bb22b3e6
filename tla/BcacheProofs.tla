---------------------------- MODULE BcacheProofs ----------------------------
(***************************************************************************)
(* Proofs about module Bcache, for any number of processes, blocks and     *)
(* buffers: a buffer in use is not recycled, and the cache implements the  *)
(* store of module BlockStore.                                             *)
(*                                                                         *)
(* CacheInv is inductive.  Its centre is RefInv: refcnt counts the         *)
(* processes between bget() and brelse(), and the pin of the log.          *)
(***************************************************************************)
EXTENDS Bcache, FiniteSetTheorems, TLAPS

Using == {"lock", "asleep", "bread", "holds", "brelse"}
Owning == {"bread", "holds"}

TypeInv ==
    /\ blockno \in [Bufs -> Blocks \cup {None}] /\ valid \in [Bufs -> BOOLEAN]
    /\ refcnt \in [Bufs -> Int] /\ pinned \subseteq Bufs
    /\ locked \in [Bufs -> Procs \cup {None}]
    /\ pc \in [Procs -> {"out", "bget"} \cup Using]
    /\ want \in [Procs -> Blocks \cup {None}] /\ got \in [Procs -> Bufs \cup {None}]

\* Where a process is tells what it has.
PlaceInv ==
    /\ TypeInv
    /\ \A p \in Procs :
        /\ got[p] # None <=> pc[p] \in Using
        /\ pc[p] \in Using \cup {"bget"} => want[p] \in Blocks
        /\ \A b \in Bufs : locked[b] = p <=> got[p] = b /\ pc[p] \in Owning

Users(b) == {p \in Procs : got[p] = b}

RefInv ==
    \A b \in Bufs : refcnt[b] = Cardinality(Users(b)) + (IF b \in pinned THEN 1 ELSE 0)

\* A block has one buffer at most, which once read has the block's contents
\* unless it is pinned.
BlockInv ==
    /\ data \in [Bufs -> Values] /\ disk \in [Blocks -> Values]
    /\ \A b, c \in Bufs : blockno[b] = blockno[c] /\ blockno[b] # None => b = c
    /\ \A b \in Bufs : valid[b] =>
        /\ blockno[b] # None
        /\ b \notin pinned => data[b] = disk[blockno[b]]
    /\ \A p \in Procs : pc[p] = "holds" => valid[got[p]]

CacheInv == PlaceInv /\ RefInv /\ KeepsBlock /\ BlockInv

USE BcacheAssumption DEF Using, Owning, GoTo, bufs

\* Every step moves a process with what it has.
LEMMA PlaceStep == PlaceInv /\ [Next]_vars => PlaceInv'
<1> SUFFICES ASSUME PlaceInv, [Next]_vars PROVE PlaceInv'
  OBVIOUS
<1> USE DEF PlaceInv, TypeInv
<1>1. CASE UNCHANGED vars
  BY <1>1 DEF vars
<1>2. ASSUME NEW p \in Procs, Step(p) PROVE PlaceInv'
  <2>1. ASSUME NEW b \in Bufs, bgetHit(p, b) PROVE PlaceInv'
    BY <2>1 DEF bgetHit
  <2>2. ASSUME NEW b \in Bufs, bgetMiss(p, b) PROVE PlaceInv'
    BY <2>2 DEF bgetMiss
  <2>3. CASE bgetPanic(p)
    BY <2>3 DEF bgetPanic
  <2>4. CASE acquiresleep(p)
    BY <2>4 DEF acquiresleep
  <2>5. CASE acquiresleepWait(p)
    BY <2>5 DEF acquiresleepWait
  <2>6. CASE bread(p)
    BY <2>6 DEF bread
  <2>7. CASE releasesleep(p)
    BY <2>7 DEF releasesleep
  <2>8. CASE brelse(p)
    BY <2>8 DEF brelse
  <2> QED BY <1>2, <2>1, <2>2, <2>3, <2>4, <2>5, <2>6, <2>7, <2>8 DEF Step, bget
<1>3. ASSUME NEW p \in Procs, Use(p) PROVE PlaceInv'
  <2>1. CASE bunpin(p)
    BY <2>1 DEF bunpin
  <2>2. ASSUME NEW v \in Values, bwrite(p, v) PROVE PlaceInv'
    BY <2>2 DEF bwrite
  <2>3. ASSUME NEW v \in Values, bpin(p, v) PROVE PlaceInv'
    BY <2>3 DEF bpin
  <2> QED BY <1>3, <2>1, <2>2, <2>3 DEF Use
<1>4. ASSUME NEW p \in Procs, Kill(p) PROVE PlaceInv'
  BY <1>4 DEF Kill
<1>5. ASSUME NEW p \in Procs, NEW k \in Blocks, Call(p, k) PROVE PlaceInv'
  BY <1>5 DEF Call
<1> QED BY <1>1, <1>2, <1>3, <1>4, <1>5 DEF Next

\* got and pinned, and so the counts, stay.
LEMMA RefFrame ==
    ASSUME RefInv, UNCHANGED <<refcnt, got, pinned>>
    PROVE  RefInv'
BY DEF RefInv, Users

\* Every step that changes got or pinned changes the count with it.
LEMMA RefStep == PlaceInv /\ RefInv /\ [Next]_vars => RefInv'
<1> SUFFICES ASSUME PlaceInv, RefInv, [Next]_vars PROVE RefInv'
  OBVIOUS
<1> USE DEF PlaceInv, TypeInv
<1>0. \A b : IsFiniteSet(Users(b)) /\ Cardinality(Users(b)) \in Nat
  <2>1. \A b : Users(b) \in SUBSET Procs
    BY DEF Users
  <2> QED BY <2>1, FS_Subset, FS_CardinalityType
<1>1. ASSUME NEW p \in Procs, NEW b \in Bufs, bgetHit(p, b) PROVE RefInv'
  <2>1. Users(b)' = Users(b) \cup {p} /\ p \notin Users(b)
    BY <1>1 DEF bgetHit, Users
  <2>2. \A c \in Bufs : c # b => Users(c)' = Users(c)
    BY <1>1 DEF bgetHit, Users
  <2>3. Cardinality(Users(b)') = Cardinality(Users(b)) + 1
    BY <1>0, <2>1, FS_AddElement
  <2> QED BY <1>0, <1>1, <2>2, <2>3 DEF bgetHit, RefInv
<1>2. ASSUME NEW p \in Procs, NEW b \in Bufs, bgetMiss(p, b) PROVE RefInv'
  <2>1. refcnt[b] = 0
    BY <1>2 DEF bgetMiss, LeastRecentlyUsed, Unused
  <2>2. Cardinality(Users(b)) = 0 /\ b \notin pinned
    BY <1>0, <2>1 DEF RefInv
  <2>3. Users(b)' = Users(b) \cup {p} /\ p \notin Users(b)
    BY <1>2 DEF bgetMiss, Users
  <2>4. \A c \in Bufs : c # b => Users(c)' = Users(c)
    BY <1>2 DEF bgetMiss, Users
  <2>5. Cardinality(Users(b)') = 1
    <3>1. Cardinality(Users(b)') = Cardinality(Users(b)) + 1
      BY <1>0, <2>3, FS_AddElement
    <3> QED BY <2>2, <3>1
  <2> QED BY <1>0, <1>2, <2>2, <2>4, <2>5 DEF bgetMiss, RefInv
<1>3. ASSUME NEW p \in Procs, brelse(p) PROVE RefInv'
  <2>0. PICK b \in Bufs : b = got[p]
    BY <1>3 DEF brelse
  <2>1. Users(b)' = Users(b) \ {p} /\ p \in Users(b)
    BY <1>3, <2>0 DEF brelse, Users
  <2>2. \A c \in Bufs : c # b => Users(c)' = Users(c)
    BY <1>3, <2>0 DEF brelse, Users
  <2>3. Cardinality(Users(b)') = Cardinality(Users(b)) - 1
    BY <1>0, <2>1, FS_RemoveElement
  <2> QED BY <1>0, <1>3, <2>0, <2>2, <2>3 DEF brelse, RefInv
<1>4. ASSUME NEW p \in Procs, NEW v \in Values, bpin(p, v) PROVE RefInv'
  <2>1. \A c \in Bufs : Users(c)' = Users(c)
    BY <1>4 DEF bpin, Users
  <2> QED BY <1>0, <1>4, <2>1 DEF bpin, RefInv
<1>5. ASSUME NEW p \in Procs, bunpin(p) PROVE RefInv'
  <2>1. \A c \in Bufs : Users(c)' = Users(c)
    BY <1>5 DEF bunpin, Users
  <2> QED BY <1>0, <1>5, <2>1 DEF bunpin, RefInv
<1>6. CASE UNCHANGED <<refcnt, got, pinned>>
  BY <1>6, RefFrame
<1> QED BY <1>1, <1>2, <1>3, <1>4, <1>5, <1>6 DEF Next, Step, Use, bget, bgetPanic, acquiresleep,
        acquiresleepWait, bread, releasesleep, bwrite, Kill, Call, vars

\* A buffer that bget() recycles has no user and is not pinned.
LEMMA RecycledUnused ==
    ASSUME PlaceInv, RefInv, NEW p \in Procs, NEW b \in Bufs, bgetMiss(p, b)
    PROVE  b \notin pinned /\ \A q \in Procs : got[q] # b
<1>1. IsFiniteSet(Users(b)) /\ Cardinality(Users(b)) \in Nat
  <2>1. Users(b) \in SUBSET Procs
    BY DEF Users
  <2> QED BY <2>1, FS_Subset, FS_CardinalityType
<1>2. refcnt[b] = 0
  BY DEF bgetMiss, LeastRecentlyUsed, Unused
<1>3. Cardinality(Users(b)) = 0 /\ b \notin pinned
  BY <1>1, <1>2 DEF RefInv
<1>4. Users(b) = {}
  BY <1>1, <1>3, FS_EmptySet
<1> QED BY <1>3, <1>4 DEF Users

\* Only bget() gives a buffer another block, and only one that nobody has got.
LEMMA KeepsStep == PlaceInv /\ RefInv /\ KeepsBlock /\ [Next]_vars => KeepsBlock'
<1> SUFFICES ASSUME PlaceInv, RefInv, KeepsBlock, [Next]_vars PROVE KeepsBlock'
  OBVIOUS
<1> USE DEF PlaceInv, TypeInv, KeepsBlock
<1>1. ASSUME NEW p \in Procs, NEW b \in Bufs, bgetHit(p, b) PROVE KeepsBlock'
  BY <1>1 DEF bgetHit, Cached
<1>2. ASSUME NEW p \in Procs, NEW b \in Bufs, bgetMiss(p, b) PROVE KeepsBlock'
  <2>1. \A q \in Procs : got[q] # b
    BY <1>2, RecycledUnused
  <2> QED BY <1>2, <2>1 DEF bgetMiss
<1>3. ASSUME NEW p \in Procs, brelse(p) PROVE KeepsBlock'
  BY <1>3 DEF brelse
<1>4. ASSUME NEW p \in Procs, NEW k \in Blocks, Call(p, k) PROVE KeepsBlock'
  BY <1>4 DEF Call
<1>5. CASE UNCHANGED <<blockno, got, want>>
  BY <1>5
<1> QED BY <1>1, <1>2, <1>3, <1>4, <1>5 DEF Next, Step, Use, bget, bgetPanic, acquiresleep,
        acquiresleepWait, bread, releasesleep, bwrite, bpin, bunpin, Kill, vars

\* The block of a buffer that a process has got.
LEMMA GotBlock ==
    ASSUME PlaceInv, KeepsBlock, NEW p \in Procs, pc[p] \in Using
    PROVE  got[p] \in Bufs /\ want[p] \in Blocks /\ blockno[got[p]] = want[p]
BY DEF PlaceInv, TypeInv, KeepsBlock

\* The owner of a buffer is alone in changing it, so that no other buffer and
\* no other block is touched.
LEMMA BlockStep == CacheInv /\ [Next]_vars => BlockInv'
<1> SUFFICES ASSUME CacheInv, [Next]_vars PROVE BlockInv'
  OBVIOUS
<1> USE DEF CacheInv
<1>t. PlaceInv /\ TypeInv /\ KeepsBlock /\ RefInv /\ BlockInv
  BY DEF PlaceInv
<1>1. ASSUME NEW p \in Procs, NEW b \in Bufs, bgetHit(p, b) PROVE BlockInv'
  BY <1>t, <1>1 DEF bgetHit, BlockInv, TypeInv
<1>2. ASSUME NEW p \in Procs, NEW b \in Bufs, bgetMiss(p, b) PROVE BlockInv'
  <2>1. \A q \in Procs : got[q] # b
    BY <1>2, RecycledUnused
  <2>2. want[p] \in Blocks /\ \A c \in Bufs : blockno[c] # want[p]
    BY <1>2 DEF bgetMiss, Cached, PlaceInv
  <2> QED BY <1>t, <1>2, <2>1, <2>2 DEF bgetMiss, BlockInv, TypeInv
<1>3. ASSUME NEW p \in Procs, bread(p) PROVE BlockInv'
  <2>1. got[p] \in Bufs /\ want[p] \in Blocks /\ blockno[got[p]] = want[p]
    BY <1>3, GotBlock DEF bread
  <2> QED BY <1>t, <1>3, <2>1 DEF bread, BlockInv, TypeInv
<1>4. ASSUME NEW p \in Procs, NEW v \in Values, bwrite(p, v) PROVE BlockInv'
  <2>1. got[p] \in Bufs /\ want[p] \in Blocks /\ blockno[got[p]] = want[p]
    BY <1>4, GotBlock DEF bwrite
  <2> QED BY <1>t, <1>4, <2>1 DEF bwrite, BlockInv, TypeInv
<1>5. ASSUME NEW p \in Procs, NEW v \in Values, bpin(p, v) PROVE BlockInv'
  <2>1. got[p] \in Bufs /\ want[p] \in Blocks /\ blockno[got[p]] = want[p]
    BY <1>5, GotBlock DEF bpin
  <2> QED BY <1>t, <1>5, <2>1 DEF bpin, BlockInv, TypeInv
<1>6. ASSUME NEW p \in Procs, bunpin(p) PROVE BlockInv'
  <2>1. got[p] \in Bufs /\ want[p] \in Blocks /\ blockno[got[p]] = want[p]
    BY <1>6, GotBlock DEF bunpin
  <2> QED BY <1>t, <1>6, <2>1 DEF bunpin, BlockInv, TypeInv
<1>7. ASSUME NEW p \in Procs, releasesleep(p) PROVE BlockInv'
  BY <1>t, <1>7 DEF releasesleep, BlockInv, TypeInv
<1>8. ASSUME NEW p \in Procs, brelse(p) PROVE BlockInv'
  BY <1>t, <1>8 DEF brelse, BlockInv, TypeInv
<1>9. ASSUME NEW p \in Procs,
             acquiresleep(p) \/ acquiresleepWait(p) \/ Kill(p) \/ \E k \in Blocks : Call(p, k)
      PROVE  BlockInv'
  BY <1>t, <1>9 DEF acquiresleep, acquiresleepWait, Kill, Call, BlockInv, TypeInv
<1>10. CASE UNCHANGED <<bufs, pinned, disk, pc, got>>
  BY <1>10 DEF BlockInv
<1> QED BY <1>1, <1>2, <1>3, <1>4, <1>5, <1>6, <1>7, <1>8, <1>9, <1>10
    DEF Next, Step, Use, bget, bgetPanic, vars

\* binit() leaves every buffer unused.
LEMMA CacheInit == Init => CacheInv
<1> SUFFICES ASSUME Init PROVE CacheInv
  OBVIOUS
<1>1. PlaceInv
  BY DEF Init, PlaceInv, TypeInv
<1>2. RefInv
  <2>1. \A b \in Bufs : Users(b) = {}
    BY DEF Init, Users
  <2>2. \A b \in Bufs : Cardinality(Users(b)) = 0
    BY <2>1, FS_EmptySet
  <2>3. pinned = {} /\ \A b \in Bufs : refcnt[b] = 0
    BY DEF Init
  <2> QED BY <2>2, <2>3 DEF RefInv
<1>3. KeepsBlock /\ BlockInv
  BY DEF Init, KeepsBlock, BlockInv
<1> QED BY <1>1, <1>2, <1>3 DEF CacheInv

\* CacheInv is inductive.
LEMMA CacheStep == CacheInv /\ [Next]_vars => CacheInv'
BY PlaceStep, RefStep, KeepsStep, BlockStep DEF CacheInv

\* Between bget() and brelse() a process has the buffer of its block, however
\* many processes want buffers and however few there are.
THEOREM BufferKept == Spec => []KeepsBlock
<1>1. CacheInv => KeepsBlock
  BY DEF CacheInv
<1> QED BY <1>1, CacheInit, CacheStep, PTL DEF Spec

-----------------------------------------------------------------------------
(***************************************************************************)
(* The cache implements BlockStore.                                        *)
(***************************************************************************)
\* What a block contains: what its buffer does, or the disk.
LEMMA ContentsIs ==
    ASSUME CacheInv, NEW k \in Blocks
    PROVE  /\ \A b \in Bufs : blockno[b] = k /\ valid[b] => Contents[k] = data[b]
           /\ (\A b \in Bufs : ~(blockno[b] = k /\ valid[b])) => Contents[k] = disk[k]
<1>1. ASSUME NEW b \in Bufs, blockno[b] = k, valid[b] PROVE Contents[k] = data[b]
  <2> DEFINE c == CHOOSE c \in Cached(k) : valid[c]
  <2>1. b \in Cached(k) /\ valid[b]
    BY <1>1 DEF Cached
  <2>2. c \in Cached(k) /\ valid[c]
    BY <2>1, Zenon
  <2>3. c = b
    BY <1>1, <2>2 DEF Cached, CacheInv, BlockInv
  <2>4. Contents[k] = data[c]
    BY <2>1 DEF Contents
  <2> QED BY <2>3, <2>4
<1>2. ASSUME \A b \in Bufs : ~(blockno[b] = k /\ valid[b]) PROVE Contents[k] = disk[k]
  BY <1>2 DEF Contents, Cached
<1> QED BY <1>1, <1>2

\* Two processes that hold the same block are one.
LEMMA OneHolder ==
    ASSUME CacheInv, NEW p \in Procs, NEW q \in Procs, pc[p] \in Owning, pc[q] \in Owning,
           want[p] = want[q]
    PROVE  p = q
<1>1. got[p] \in Bufs /\ got[q] \in Bufs /\ want[p] \in Blocks
      /\ blockno[got[p]] = want[p] /\ blockno[got[q]] = want[p]
  BY GotBlock DEF CacheInv
<1>2. got[p] = got[q]
  BY <1>1 DEF CacheInv, BlockInv
<1>3. locked[got[p]] = p /\ locked[got[q]] = q
  BY <1>1 DEF CacheInv, PlaceInv
<1> QED BY <1>2, <1>3

\* Who owns a block: the process that holds it, or nobody.
LEMMA OwnerIs ==
    ASSUME CacheInv, NEW k \in Blocks
    PROVE  /\ \A p \in Procs : Holds(p, k) => Owner[k] = p
           /\ (\A p \in Procs : ~Holds(p, k)) => Owner[k] = None
<1>1. ASSUME NEW p \in Procs, Holds(p, k) PROVE Owner[k] = p
  <2> DEFINE q == CHOOSE q \in Procs : Holds(q, k)
  <2>1. q \in Procs /\ Holds(q, k)
    BY <1>1, Zenon
  <2>2. q = p
    <3> HIDE DEF q
    <3> QED BY <1>1, <2>1, OneHolder DEF Holds
  <2>3. Owner[k] = q
    BY <1>1 DEF Owner
  <2> QED BY <2>2, <2>3
<1>2. ASSUME \A p \in Procs : ~Holds(p, k) PROVE Owner[k] = None
  BY <1>2 DEF Owner
<1> QED BY <1>1, <1>2

ContentsOK == \A k \in Blocks :
    /\ \A b \in Bufs : blockno[b] = k /\ valid[b] => Contents[k] = data[b]
    /\ (\A b \in Bufs : ~(blockno[b] = k /\ valid[b])) => Contents[k] = disk[k]

OwnerOK == \A k \in Blocks :
    /\ \A p \in Procs : Holds(p, k) => Owner[k] = p
    /\ (\A p \in Procs : ~Holds(p, k)) => Owner[k] = None

\* Both facts, in the form that is used for the next state, too.
LEMMA MapFacts == CacheInv => ContentsOK /\ OwnerOK
BY ContentsIs, OwnerIs DEF ContentsOK, OwnerOK

\* Nobody takes or gives a block.
LEMMA OwnerSame ==
    ASSUME OwnerOK, OwnerOK', \A p \in Procs, k \in Blocks : Holds(p, k)' <=> Holds(p, k)
    PROVE  Owner' = Owner
<1>1. \A k \in Blocks : Owner'[k] = Owner[k]
  BY DEF OwnerOK
<1>2. Owner = [k \in Blocks |-> Owner[k]] /\ Owner' = [k \in Blocks |-> Owner'[k]]
  BY DEF Owner
<1> QED BY <1>1, <1>2, Zenon

\* Contents that change at most at k.
LEMMA ContentsAt ==
    ASSUME NEW k \in Blocks, NEW v, Contents'[k] = v,
           \A j \in Blocks : j # k => Contents'[j] = Contents[j]
    PROVE  Contents' = [Contents EXCEPT ![k] = v]
<1>1. Contents = [j \in Blocks |-> Contents[j]] /\ Contents' = [j \in Blocks |-> Contents'[j]]
  BY DEF Contents
<1> QED BY <1>1, SMT

\* An owner that changes at most at k.
LEMMA OwnerAt ==
    ASSUME NEW k \in Blocks, NEW v, Owner'[k] = v,
           \A j \in Blocks : j # k => Owner'[j] = Owner[j]
    PROVE  Owner' = [Owner EXCEPT ![k] = v]
<1>1. Owner = [j \in Blocks |-> Owner[j]] /\ Owner' = [j \in Blocks |-> Owner'[j]]
  BY DEF Owner
<1> QED BY <1>1, SMT

\* A step that touches neither the buffers nor the disk.
LEMMA ContentsSame ==
    ASSUME UNCHANGED <<blockno, valid, data, disk>>
    PROVE  Contents' = Contents
BY DEF Contents, Cached

\* Recycling a buffer: the disk has what it had.
LEMMA RecycleSim ==
    ASSUME CacheInv, ContentsOK, ContentsOK', NEW p \in Procs, NEW b \in Bufs, bgetMiss(p, b)
    PROVE  Contents' = Contents
<1>1. b \notin pinned
  BY RecycledUnused DEF CacheInv
<1>2. blockno' = [blockno EXCEPT ![b] = want[p]] /\ valid' = [valid EXCEPT ![b] = FALSE]
      /\ data' = data /\ disk' = disk
  BY DEF bgetMiss
<1>3. blockno \in [Bufs -> Blocks \cup {None}] /\ valid \in [Bufs -> BOOLEAN]
  BY DEF CacheInv, PlaceInv, TypeInv
<1>4. ASSUME NEW k \in Blocks PROVE Contents'[k] = Contents[k]
  <2>1. CASE \E c \in Bufs : c # b /\ blockno[c] = k /\ valid[c]
    BY <1>2, <1>3, <2>1 DEF ContentsOK
  <2>2. CASE \A c \in Bufs : ~(c # b /\ blockno[c] = k /\ valid[c])
    <3>1. Contents'[k] = disk[k]
      BY <1>2, <1>3, <2>2 DEF ContentsOK
    <3>2. CASE blockno[b] = k /\ valid[b]
      BY <1>1, <3>1, <3>2 DEF ContentsOK, CacheInv, BlockInv
    <3>3. CASE ~(blockno[b] = k /\ valid[b])
      BY <2>2, <3>1, <3>3 DEF ContentsOK
    <3> QED BY <3>2, <3>3
  <2> QED BY <2>1, <2>2
<1>5. Contents = [k \in Blocks |-> Contents[k]] /\ Contents' = [k \in Blocks |-> Contents'[k]]
  BY DEF Contents
<1> QED BY <1>4, <1>5, Zenon

\* Reading a block into its buffer makes the process its owner.
LEMMA ReadSim ==
    ASSUME CacheInv, ContentsOK, ContentsOK', OwnerOK, OwnerOK', NEW p \in Procs, bread(p)
    PROVE  S!Take(p, want[p])
<1>1. got[p] \in Bufs /\ want[p] \in Blocks /\ blockno[got[p]] = want[p]
  BY GotBlock DEF bread, CacheInv
<1>2. PICK b \in Bufs : b = got[p]
  BY <1>1
<1>3. PICK k \in Blocks : k = want[p]
  BY <1>1
<1>4. /\ blockno \in [Bufs -> Blocks \cup {None}] /\ valid \in [Bufs -> BOOLEAN]
      /\ data \in [Bufs -> Values] /\ pc \in [Procs -> {"out", "bget"} \cup Using]
      /\ blockno[b] = k
  BY <1>1, <1>2, <1>3 DEF CacheInv, PlaceInv, TypeInv, BlockInv
<1>5. /\ blockno' = blockno /\ disk' = disk /\ want' = want
      /\ valid' = [valid EXCEPT ![b] = TRUE]
      /\ data' = [data EXCEPT ![b] = IF valid[b] THEN data[b] ELSE disk[k]]
      /\ pc' = [pc EXCEPT ![p] = "holds"] /\ pc[p] = "bread"
  BY <1>1, <1>2, <1>3 DEF bread
<1>6. \A c \in Bufs : blockno[c] = k => c = b
  BY <1>4 DEF CacheInv, BlockInv
<1>7. ASSUME NEW j \in Blocks PROVE Contents'[j] = Contents[j]
  <2>1. CASE j = k
    <3>1. Contents'[k] = data'[b]
      BY <1>4, <1>5 DEF ContentsOK
    <3>2. CASE valid[b]
      BY <1>4, <1>5, <2>1, <3>1, <3>2 DEF ContentsOK
    <3>3. CASE ~valid[b]
      BY <1>4, <1>5, <1>6, <2>1, <3>1, <3>3 DEF ContentsOK
    <3> QED BY <3>2, <3>3
  <2>2. CASE j # k /\ \E c \in Bufs : blockno[c] = j /\ valid[c]
    BY <1>4, <1>5, <2>2 DEF ContentsOK
  <2>3. CASE j # k /\ \A c \in Bufs : ~(blockno[c] = j /\ valid[c])
    BY <1>4, <1>5, <2>3 DEF ContentsOK
  <2> QED BY <2>1, <2>2, <2>3
<1>8. Contents' = Contents
  <2>1. Contents = [j \in Blocks |-> Contents[j]] /\ Contents' = [j \in Blocks |-> Contents'[j]]
    BY DEF Contents
  <2> QED BY <1>7, <2>1, Zenon
<1>9. Owner[k] = None
  <2>1. \A q \in Procs : ~Holds(q, k)
    BY <1>3, <1>5, OneHolder DEF Holds
  <2> QED BY <2>1 DEF OwnerOK
<1>10. Owner'[k] = p /\ \A j \in Blocks : j # k => Owner'[j] = Owner[j]
  <2>1. \A q \in Procs, j \in Blocks : Holds(q, j)' <=> Holds(q, j) \/ (q = p /\ j = k)
    BY <1>3, <1>4, <1>5 DEF Holds
  <2> QED BY <2>1 DEF OwnerOK
<1>11. Owner' = [Owner EXCEPT ![k] = p]
  BY <1>10, OwnerAt
<1> QED BY <1>3, <1>8, <1>9, <1>11 DEF S!Take

\* The owner changes the buffer of k, b, and perhaps the disk at k.
LEMMA UpdateSim ==
    ASSUME CacheInv, ContentsOK, ContentsOK', OwnerOK, OwnerOK', NEW p \in Procs, NEW v \in Values,
           pc[p] = "holds", UNCHANGED <<blockno, valid, pc, want>>,
           data' = [data EXCEPT ![got[p]] = v],
           \A j \in Blocks : j # want[p] => disk'[j] = disk[j]
    PROVE  S!Update(p, want[p], v)
<1>1. got[p] \in Bufs /\ want[p] \in Blocks /\ blockno[got[p]] = want[p]
  BY GotBlock DEF CacheInv
<1>2. PICK b \in Bufs : b = got[p]
  BY <1>1
<1>3. PICK k \in Blocks : k = want[p]
  BY <1>1
<1>4. data \in [Bufs -> Values] /\ valid[b] /\ blockno[b] = k
  BY <1>1, <1>2, <1>3 DEF CacheInv, BlockInv
<1>5. data' = [data EXCEPT ![b] = v]
  BY <1>2
<1>6. Contents'[k] = v
  BY <1>4, <1>5 DEF ContentsOK
<1>7. ASSUME NEW j \in Blocks, j # k PROVE Contents'[j] = Contents[j]
  <2>1. disk'[j] = disk[j]
    BY <1>3, <1>7
  <2>2. CASE \E c \in Bufs : blockno[c] = j /\ valid[c]
    BY <1>4, <1>5, <1>7, <2>2 DEF ContentsOK
  <2>3. CASE \A c \in Bufs : ~(blockno[c] = j /\ valid[c])
    BY <2>1, <2>3 DEF ContentsOK
  <2> QED BY <2>2, <2>3
<1>8. Contents' = [Contents EXCEPT ![k] = v]
  BY <1>6, <1>7, ContentsAt
<1>9. Owner[k] = p
  BY <1>3 DEF OwnerOK, Holds
<1>10. Owner' = Owner
  BY OwnerSame DEF Holds
<1> QED BY <1>3, <1>8, <1>9, <1>10 DEF S!Update

\* install_trans() writes what the buffer has: nothing changes for a reader.
LEMMA UnpinSim ==
    ASSUME CacheInv, ContentsOK, ContentsOK', NEW p \in Procs, bunpin(p)
    PROVE  Contents' = Contents
<1>1. got[p] \in Bufs /\ want[p] \in Blocks /\ blockno[got[p]] = want[p]
  BY GotBlock DEF bunpin, CacheInv
<1>2. valid[got[p]] /\ disk \in [Blocks -> Values]
  BY DEF bunpin, CacheInv, BlockInv
<1>3. UNCHANGED <<blockno, valid, data>> /\ \A j \in Blocks : j # want[p] => disk'[j] = disk[j]
  BY <1>1, <1>2 DEF bunpin
<1>4. ASSUME NEW j \in Blocks PROVE Contents'[j] = Contents[j]
  <2>1. CASE \E c \in Bufs : blockno[c] = j /\ valid[c]
    BY <1>3, <2>1 DEF ContentsOK
  <2>2. CASE \A c \in Bufs : ~(blockno[c] = j /\ valid[c])
    <3>1. j # want[p]
      BY <1>1, <1>2, <2>2
    <3> QED BY <1>3, <2>2, <3>1 DEF ContentsOK
  <2> QED BY <2>1, <2>2
<1>5. Contents = [k \in Blocks |-> Contents[k]] /\ Contents' = [k \in Blocks |-> Contents'[k]]
  BY DEF Contents
<1> QED BY <1>4, <1>5, Zenon

\* releasesleep() gives the block back.
LEMMA GiveSim ==
    ASSUME CacheInv, OwnerOK, OwnerOK', NEW p \in Procs, releasesleep(p)
    PROVE  S!Give(p, want[p])
<1>1. PICK k \in Blocks : k = want[p]
  BY GotBlock DEF releasesleep, CacheInv
<1>2. pc[p] = "holds" /\ want' = want /\ pc \in [Procs -> {"out", "bget"} \cup Using]
      /\ pc' = [q \in Procs |->
                IF q = p THEN "brelse"
                ELSE IF pc[q] = "asleep" /\ got[q] = got[p] THEN "lock" ELSE pc[q]]
  BY DEF releasesleep, CacheInv, PlaceInv, TypeInv
<1>3. Owner[k] = p
  BY <1>1, <1>2 DEF OwnerOK, Holds
<1>4. \A q \in Procs, j \in Blocks : Holds(q, j)' <=> Holds(q, j) /\ q # p
  BY <1>2 DEF Holds
<1>5. \A q \in Procs : Holds(q, k) => q = p
  BY <1>1, <1>2, OneHolder DEF Holds
<1>6. Owner'[k] = None /\ \A j \in Blocks : j # k => Owner'[j] = Owner[j]
  <2>1. Owner'[k] = None
    BY <1>4, <1>5 DEF OwnerOK
  <2>2. ASSUME NEW j \in Blocks, j # k PROVE Owner'[j] = Owner[j]
    <3>1. \A q \in Procs : Holds(q, j)' <=> Holds(q, j)
      BY <1>1, <1>4, <2>2 DEF Holds
    <3> QED BY <3>1 DEF OwnerOK
  <2> QED BY <2>1, <2>2
<1>7. Owner' = [Owner EXCEPT ![k] = None]
  BY <1>6, OwnerAt
<1>8. Contents' = Contents
  BY ContentsSame DEF releasesleep
<1> QED BY <1>1, <1>3, <1>7, <1>8 DEF S!Give

\* Every step of the cache is one of the store, or none.
LEMMA StoreStep ==
    ASSUME CacheInv, ContentsOK, ContentsOK', OwnerOK, OwnerOK', [Next]_vars
    PROVE  [S!SNext]_(S!svars)
<1> USE DEF S!SNext, S!svars
<1>t. pc \in [Procs -> {"out", "bget"} \cup Using] /\ want \in [Procs -> Blocks \cup {None}]
  BY DEF CacheInv, PlaceInv, TypeInv
<1>g. \A p \in Procs : pc[p] \in Using => want[p] \in Blocks
  BY GotBlock DEF CacheInv
<1>1. ASSUME NEW p \in Procs, NEW b \in Bufs, bgetMiss(p, b) PROVE UNCHANGED S!svars
  <2>1. Contents' = Contents
    BY <1>1, RecycleSim
  <2>2. Owner' = Owner
    BY <1>1, <1>t, OwnerSame DEF bgetMiss, Holds
  <2> QED BY <2>1, <2>2
<1>2. ASSUME NEW p \in Procs, bread(p) PROVE S!SNext
  BY <1>2, <1>g, ReadSim DEF bread
<1>3. ASSUME NEW p \in Procs, NEW v \in Values, bwrite(p, v) PROVE S!SNext
  <2>1. pc[p] = "holds" /\ blockno[got[p]] = want[p] /\ disk \in [Blocks -> Values]
    BY <1>3, GotBlock DEF bwrite, CacheInv, BlockInv
  <2>2. \A j \in Blocks : j # want[p] => disk'[j] = disk[j]
    BY <1>3, <2>1 DEF bwrite
  <2>3. S!Update(p, want[p], v)
    BY <1>3, <2>2, UpdateSim DEF bwrite
  <2> QED BY <1>g, <2>1, <2>3
<1>4. ASSUME NEW p \in Procs, NEW v \in Values, bpin(p, v) PROVE S!SNext
  <2>1. S!Update(p, want[p], v)
    BY <1>4, UpdateSim DEF bpin
  <2> QED BY <1>4, <1>g, <2>1 DEF bpin
<1>5. ASSUME NEW p \in Procs, bunpin(p) PROVE UNCHANGED S!svars
  <2>1. Contents' = Contents
    BY <1>5, UnpinSim
  <2>2. Owner' = Owner
    BY <1>5, OwnerSame DEF bunpin, Holds
  <2> QED BY <2>1, <2>2
<1>6. ASSUME NEW p \in Procs, releasesleep(p) PROVE S!SNext
  BY <1>6, <1>g, GiveSim DEF releasesleep
<1>7. ASSUME NEW p \in Procs,
             \/ \E b \in Bufs : bgetHit(p, b)
             \/ acquiresleep(p) \/ acquiresleepWait(p) \/ Kill(p) \/ brelse(p)
             \/ \E k \in Blocks : Call(p, k)
      PROVE  UNCHANGED S!svars
  <2>1. Contents' = Contents
    BY <1>7, ContentsSame DEF bgetHit, acquiresleep, acquiresleepWait, Kill, brelse, Call
  <2>2. \A q \in Procs : /\ pc'[q] = "holds" <=> pc[q] = "holds"
                         /\ pc[q] = "holds" => want'[q] = want[q]
    BY <1>7, <1>t DEF bgetHit, acquiresleep, acquiresleepWait, Kill, brelse, Call
  <2>3. Owner' = Owner
    BY <2>2, OwnerSame DEF Holds
  <2> QED BY <2>1, <2>3
<1>8. CASE UNCHANGED <<bufs, disk, pc, want>>
  <2>1. Contents' = Contents
    BY <1>8, ContentsSame
  <2>2. Owner' = Owner
    BY <1>8, OwnerSame DEF Holds
  <2> QED BY <2>1, <2>2
<1> QED BY <1>1, <1>2, <1>3, <1>4, <1>5, <1>6, <1>7, <1>8
    DEF Next, Step, Use, bget, bgetPanic, vars

\* At first the contents are those of the disk, and nobody owns a block.
LEMMA StoreInit == Init => S!SInit
<1> SUFFICES ASSUME Init PROVE S!SInit
  OBVIOUS
<1>1. Contents = disk
  BY DEF Init, Contents, Cached
<1>2. Owner = [k \in Blocks |-> None]
  BY DEF Init, Owner, Holds
<1> QED BY <1>1, <1>2 DEF Init, S!SInit

\* The buffer cache, with its recycling, its pins and its sleeplocks, is a store
\* of blocks in which each block has one owner at a time and the contents that
\* the last one left.
THEOREM CacheIsStore == Spec => IsStore
<1>1. CacheInv => ContentsOK /\ OwnerOK
  BY MapFacts
<1>2. CacheInv /\ ContentsOK /\ ContentsOK' /\ OwnerOK /\ OwnerOK' /\ [Next]_vars => [S!SNext]_(S!svars)
  BY StoreStep
<1> QED BY <1>1, <1>2, StoreInit, CacheInit, CacheStep, PTL DEF Spec, IsStore, S!SSpec
=============================================================================
