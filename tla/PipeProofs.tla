----------------------------- MODULE PipeProofs -----------------------------
(***************************************************************************)
(* Proofs about module Pipe, for any number of readers and writers, any    *)
(* buffer size and any lengths: the page of the pipe is freed after its    *)
(* last use, and no reader sleeps on bytes it could read.                  *)
(*                                                                         *)
(* EndInv is inductive.  WaitInv is inductive with it when no writer is    *)
(* killed: a reader that sleeps on a pipe that is not empty is one that a  *)
(* writer, which has pi->lock, has yet to wake.                            *)
(***************************************************************************)
EXTENDS Pipe, TLAPS

Writing == {"write_loop", "write_room"}
Reading == {"read_loop", "read_sleep", "read_copy"}
WriteLabels == Writing \cup {"write", "write_asleep"}
ReadLabels == Reading \cup {"read", "read_asleep"}
Closing == {"close", "close_locked"}

PlaceInv ==
    /\ pc \in [Procs -> {"user"} \cup WriteLabels \cup ReadLabels \cup Closing]
    /\ lock \in Procs \cup {Nobody}
    /\ \A p \in Procs :
        /\ lock = p <=> pc[p] \in Writing \cup Reading \cup {"close_locked"}
        /\ pc[p] \in WriteLabels => p \in Writers
        /\ pc[p] \in ReadLabels => p \in Readers

\* A process in a call has its end open; the process that closes an end is the
\* last one that had it open, and the end is marked as open until it is done.
EndInv ==
    /\ PlaceInv
    /\ open \subseteq Procs
    /\ \A p \in Procs :
        /\ pc[p] \in WriteLabels \cup ReadLabels => p \in open
        /\ pc[p] \in Closing =>
            /\ open \cap Ends(p) = {}
            /\ IF p \in Writers THEN writeopen ELSE readopen
            /\ \A q \in Ends(p) : pc[q] \in Closing => q = p
    /\ ~writeopen => open \cap Writers = {}
    /\ ~readopen => open \cap Readers = {}
    /\ freed => ~writeopen /\ ~readopen

WaitInv ==
    /\ \A p \in Writers : ~killed[p]
    /\ \A p \in Readers :
        /\ pc[p] = "read_sleep" => Empty /\ writeopen
        /\ pc[p] = "read_asleep" =>
            /\ writeopen
            /\ Empty \/ \E q \in Writers : lock = q /\ pc[q] \in Writing

USE PipeAssumption DEF Procs, Writing, Reading, WriteLabels, ReadLabels, Closing, GoTo, Return, pipe

\* Every step of a process keeps the lock with the one that is in its section.
LEMMA PlaceStep == PlaceInv /\ [Next]_vars => PlaceInv'
<1> SUFFICES ASSUME PlaceInv, [Next]_vars PROVE PlaceInv'
  OBVIOUS
<1> USE DEF PlaceInv
<1>1. CASE UNCHANGED vars
  BY <1>1 DEF vars
<1>2. ASSUME NEW p \in Procs, Acquire(p) PROVE PlaceInv'
  BY <1>2 DEF Acquire
<1>3. ASSUME NEW p \in Procs, Write(p) PROVE PlaceInv'
  <2>1. CASE WriteFail(p)
    BY <2>1 DEF WriteFail
  <2>2. CASE WriteTest(p)
    BY <2>2 DEF WriteTest
  <2>3. CASE WriteFull(p)
    BY <2>3 DEF WriteFull, Wakeup
  <2>4. CASE WriteDone(p)
    BY <2>4 DEF WriteDone, Wakeup
  <2>5. CASE \E b \in Bytes : WriteByte(p, b)
    BY <2>5 DEF WriteByte
  <2> QED BY <1>3, <2>1, <2>2, <2>3, <2>4, <2>5 DEF Write
<1>4. ASSUME NEW p \in Procs, Read(p) PROVE PlaceInv'
  <2>1. CASE ReadFail(p)
    BY <2>1 DEF ReadFail
  <2>2. CASE ReadTest(p)
    BY <2>2 DEF ReadTest
  <2>3. CASE ReadSleep(p)
    BY <2>3 DEF ReadSleep
  <2>4. CASE ReadByte(p)
    BY <2>4 DEF ReadByte
  <2>5. CASE ReadDone(p)
    BY <2>5 DEF ReadDone, Wakeup
  <2>6. CASE ReadFault(p)
    BY <2>6 DEF ReadFault, Wakeup
  <2> QED BY <1>4, <2>1, <2>2, <2>3, <2>4, <2>5, <2>6 DEF Read
<1>5. ASSUME NEW p \in Procs, pipeclose(p) PROVE PlaceInv'
  BY <1>5 DEF pipeclose, Wakeup
<1>6. ASSUME NEW p \in Procs, Close(p) PROVE PlaceInv'
  BY <1>6 DEF Close
<1>7. ASSUME NEW p \in Procs, Kill(p) PROVE PlaceInv'
  BY <1>7 DEF Kill
<1>8. ASSUME NEW p \in Procs, NEW n \in Lengths, Call(p, n) PROVE PlaceInv'
  BY <1>8 DEF Call
<1> QED BY <1>1, <1>2, <1>3, <1>4, <1>5, <1>6, <1>7, <1>8 DEF Next, Step

\* Steps inside a call do not touch the ends: what EndInv asks for but PlaceInv.
LEMMA EndFrame ==
    ASSUME EndInv, PlaceInv', UNCHANGED <<open, writeopen, readopen, freed>>,
           \A p \in Procs :
               /\ pc'[p] \in WriteLabels \cup ReadLabels => pc[p] \in WriteLabels \cup ReadLabels
               /\ pc'[p] \in Closing => pc[p] \in Closing
    PROVE  EndInv'
BY DEF EndInv, Ends

\* EndInv is inductive.
LEMMA EndStep == EndInv /\ [Next]_vars => EndInv'
<1> SUFFICES ASSUME EndInv, [Next]_vars PROVE EndInv'
  OBVIOUS
<1>0. PlaceInv /\ PlaceInv' /\ pc \in [Procs -> {"user"} \cup WriteLabels \cup ReadLabels \cup Closing]
  BY PlaceStep DEF EndInv, PlaceInv
<1>1. CASE UNCHANGED vars
  BY <1>0, <1>1, EndFrame DEF vars
<1>2. ASSUME NEW p \in Procs, Acquire(p) PROVE EndInv'
  BY <1>0, <1>2, EndFrame DEF Acquire
<1>3. ASSUME NEW p \in Procs, Write(p) PROVE EndInv'
  <2>1. CASE WriteFail(p) \/ WriteTest(p)
    BY <1>0, <2>1, EndFrame DEF WriteFail, WriteTest
  <2>2. CASE WriteFull(p) \/ WriteDone(p)
    BY <1>0, <2>2, EndFrame DEF WriteFull, WriteDone, Wakeup
  <2>3. CASE \E b \in Bytes : WriteByte(p, b)
    BY <1>0, <2>3, EndFrame DEF WriteByte
  <2> QED BY <1>3, <2>1, <2>2, <2>3 DEF Write
<1>4. ASSUME NEW p \in Procs, Read(p) PROVE EndInv'
  <2>1. CASE ReadFail(p) \/ ReadTest(p) \/ ReadSleep(p) \/ ReadByte(p)
    BY <1>0, <2>1, EndFrame DEF ReadFail, ReadTest, ReadSleep, ReadByte
  <2>2. CASE ReadDone(p) \/ ReadFault(p)
    BY <1>0, <2>2, EndFrame DEF ReadDone, ReadFault, Wakeup
  <2> QED BY <1>4, <2>1, <2>2 DEF Read
<1>5. ASSUME NEW p \in Procs, pipeclose(p) PROVE EndInv'
  <2>1. pc[p] \in Closing /\ open \cap Ends(p) = {} /\ open' = open
        /\ \A q \in Ends(p) : pc[q] \in Closing => q = p
    BY <1>5 DEF EndInv, pipeclose
  <2>2. \A q \in Procs :
          /\ pc'[q] \in WriteLabels \cup ReadLabels => pc[q] \in WriteLabels \cup ReadLabels
          /\ pc'[q] \in Closing => pc[q] \in Closing /\ q # p
    BY <1>0, <1>5 DEF pipeclose, Wakeup
  <2>3. IF p \in Writers THEN ~writeopen' /\ readopen' = readopen
        ELSE ~readopen' /\ writeopen' = writeopen
    BY <1>5 DEF pipeclose
  <2>4. freed' => ~writeopen' /\ ~readopen'
    BY <1>5 DEF pipeclose, LastEnd
  <2>5. \A q \in Procs : pc'[q] \in Closing =>
          /\ open' \cap Ends(q) = {}
          /\ IF q \in Writers THEN writeopen' ELSE readopen'
          /\ \A q2 \in Ends(q) : pc'[q2] \in Closing => q2 = q
    BY <2>1, <2>2, <2>3 DEF EndInv, Ends
  <2> QED BY <1>0, <2>1, <2>2, <2>3, <2>4, <2>5 DEF EndInv, Ends
<1>6. ASSUME NEW p \in Procs, Close(p) PROVE EndInv'
  BY <1>0, <1>6 DEF EndInv, Close, Ends
<1>7. ASSUME NEW p \in Procs, Kill(p) PROVE EndInv'
  BY <1>0, <1>7, EndFrame DEF Kill
<1>8. ASSUME NEW p \in Procs, NEW n \in Lengths, Call(p, n) PROVE EndInv'
  BY <1>0, <1>8 DEF EndInv, Call, Ends
<1> QED BY <1>1, <1>2, <1>3, <1>4, <1>5, <1>6, <1>7, <1>8 DEF Next, Step

\* Everybody has an end open, and nobody uses it yet.
LEMMA EndInit == Init => EndInv
BY DEF Init, EndInv, PlaceInv

\* pipeclose() gives the page of the pipe to kfree() only when no process is
\* in a call on the pipe, holds its lock or has an end open.
THEOREM FreedAfterLastUse == Spec => []NoUseAfterFree
<1>1. EndInv => NoUseAfterFree
  BY DEF EndInv, PlaceInv, NoUseAfterFree, Ends
<1> QED BY <1>1, EndInit, EndStep, PTL DEF Spec

-----------------------------------------------------------------------------
\* The steps of a writer that hold on to the lock leave every sleeping reader
\* to be woken by it.
LEMMA WaitStep ==
    ASSUME Writers \cap Killable = {}, EndInv, WaitInv, [Next]_vars
    PROVE  WaitInv'
<1>0. PlaceInv /\ PlaceInv' /\ pc \in [Procs -> {"user"} \cup WriteLabels \cup ReadLabels \cup Closing]
  BY PlaceStep DEF EndInv, PlaceInv
<1>1. CASE UNCHANGED vars
  BY <1>1 DEF vars, WaitInv, Empty
<1>2. ASSUME NEW p \in Procs, Acquire(p) PROVE WaitInv'
  BY <1>0, <1>2 DEF WaitInv, PlaceInv, Acquire, Empty
<1>3. ASSUME NEW p \in Procs, Write(p) PROVE WaitInv'
  <2>1. CASE WriteFail(p)
    BY <1>0, <2>1 DEF WaitInv, EndInv, PlaceInv, WriteFail, Empty
  <2>2. CASE WriteTest(p)
    BY <1>0, <2>2 DEF WaitInv, PlaceInv, WriteTest, Empty
  <2>3. CASE WriteFull(p) \/ WriteDone(p)
    BY <1>0, <2>3 DEF WaitInv, PlaceInv, WriteFull, WriteDone, Wakeup, Empty
  <2>4. CASE \E b \in Bytes : WriteByte(p, b)
    BY <1>0, <2>4 DEF WaitInv, PlaceInv, WriteByte
  <2> QED BY <1>3, <2>1, <2>2, <2>3, <2>4 DEF Write
<1>4. ASSUME NEW p \in Procs, Read(p) PROVE WaitInv'
  <2>1. CASE ReadFail(p) \/ ReadTest(p)
    BY <1>0, <2>1 DEF WaitInv, PlaceInv, ReadFail, ReadTest, ReadWait, Empty
  <2>2. CASE ReadSleep(p)
    BY <1>0, <2>2 DEF WaitInv, PlaceInv, ReadSleep, Empty
  <2>3. CASE ReadByte(p)
    BY <1>0, <2>3 DEF WaitInv, PlaceInv, ReadByte, Empty
  <2>4. CASE ReadDone(p)
    BY <1>0, <2>4 DEF WaitInv, PlaceInv, ReadDone, Wakeup, Empty
  <2>5. CASE ReadFault(p)
    BY <1>0, <2>5 DEF WaitInv, PlaceInv, ReadFault, Wakeup, Empty
  <2> QED BY <1>4, <2>1, <2>2, <2>3, <2>4, <2>5 DEF Read
<1>5. ASSUME NEW p \in Procs, pipeclose(p) PROVE WaitInv'
  BY <1>0, <1>5 DEF WaitInv, PlaceInv, pipeclose, Wakeup, Empty
<1>6. ASSUME NEW p \in Procs, Close(p) PROVE WaitInv'
  BY <1>0, <1>6 DEF WaitInv, PlaceInv, Close, Empty
<1>7. ASSUME NEW p \in Procs, Kill(p) PROVE WaitInv'
  BY <1>0, <1>7 DEF WaitInv, PlaceInv, Kill, Empty
<1>8. ASSUME NEW p \in Procs, NEW n \in Lengths, Call(p, n) PROVE WaitInv'
  BY <1>0, <1>8 DEF WaitInv, PlaceInv, Call, Empty
<1> QED BY <1>1, <1>2, <1>3, <1>4, <1>5, <1>6, <1>7, <1>8 DEF Next, Step

\* When pi->lock is free a reader sleeps only on an empty pipe that somebody
\* may still write to, if kill() hits no writer: pipewrite() wakes the readers
\* on every way out except that of a killed writer.
THEOREM ReaderSleepsForReason ==
    ASSUME Writers \cap Killable = {}
    PROVE  Spec => []ReaderSleepsOnEmpty
<1>1. Init => WaitInv
  BY DEF Init, WaitInv
<1>2. EndInv /\ WaitInv /\ [Next]_vars => WaitInv'
  BY WaitStep
<1>3. EndInv /\ WaitInv => ReaderSleepsOnEmpty
  BY DEF WaitInv, ReaderSleepsOnEmpty
<1> QED BY <1>1, <1>2, <1>3, EndInit, EndStep, PTL DEF Spec
=============================================================================
