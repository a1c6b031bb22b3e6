# A TLA+ model of xv6-riscv with a fair scheduler

The kernel under `src/kernel` is xv6 for RISC-V with its round-robin scheduler
replaced by one modelled on Linux's CFS: runnable processes live in a red-black
tree ordered by virtual runtime. The modules here model the parts of the kernel
where concurrency, crashes, failures half-way or pointer surgery make mistakes
easy. TLC checks them on small instances, and TLAPS proves the main results
about processes, the run queue, pipes, the console and the buffer cache for
every size.

## The system

| Part | Source | Interacts with | Modules |
|---|---|---|---|
| process table, scheduler, sleep and wakeup | `proc.c`, `trap.c` | every blocking service below | `Proc` |
| clock, `sys_sleep` | `trap.c`, `sysproc.c` | `tickslock`, wakeup | `Proc` |
| run queue | `proc.c` | everything that makes a process RUNNABLE | `RBTree`, `RunQueue`, `ReadyQueue` |
| time slices and fairness | `proc.c`, `trap.c` | run queue, timer interrupts | `Cfs` |
| pages, page tables, `fork`, `sbrk`, `exec` | `kalloc.c`, `vm.c`, `proc.c`, `exec.c` | process table | `Memory` |
| log | `log.c` | buffer cache, disk, all file system calls | `Log`, `AtomicLog` |
| buffer cache, sleeplocks | `bio.c`, `sleeplock.c` | log, disk driver | `Bcache`, `BlockStore` |
| disk driver | `virtio_disk.c` | buffer cache, interrupts | `Virtio` |
| inodes, directories, path names | `fs.c`, `sysfile.c` | log, buffer cache | `Inodes` |
| blocks and bytes of files, open files | `fs.c`, `file.c`, `mkfs.c` | log, buffer cache | `FileData`, `Mkfs` |
| pipes | `pipe.c` | sleep and wakeup, `kill` | `Pipe`, `Fifo` |
| console and serial line | `console.c`, `uart.c` | interrupts, sleep and wakeup | `Console` |

`PROJECT.json` lists every component with the modules that model it, or why
none does, the lines each definition stands for, and the hazards of the code
with the properties that cover them. A definition named after a C function is
that function; a capitalised one is a part of a function, or an idea.
Definitions marked "Mutant" are plausible slips in the code, which the
properties are known to catch.

## Modules

### Proc

`Proc` models `proc.c` from `allocproc()` to `kill()`. A variable stands for
each field of `struct proc` that the control depends on (`state`, `chan`,
`killed`, `parent`, the lock), for each CPU's `scheduler()` (`cpc`, `cp`,
`cproc`) and for each kernel thread's position (`pc`). A process takes a step
only while a CPU has switched to it. A step is one critical section or one
iteration of a loop over the process table, so the loops of `wakeup()`,
`wait()` and `reparent()` interleave with everything else. `p->lock` is
explicit, because it is taken in one thread and released in another across
`swtch()`. `ClockTick` interrupts the boot CPU wherever interrupts are on, and
holds up what it interrupted until `clockintr()` returns.

The order of the tree and the preemption decision are left open: any process of
the tree may be retrieved, any tick may preempt. What holds in `Proc` holds for
every scheduling policy.

### RBTree, RunQueue, ReadyQueue

`RBTree` translates the tree operations of `proc.c` as operators on a record
that has the fields of `struct redblackTree` and the links of every process.
`RunQueue` makes them a state machine with the accounting the callers do.
`ReadyQueue` is what the scheduler needs: a sequence ordered by runtime, where
insertion goes behind equals and retrieval takes the head. `RunQueue` is
checked to implement `ReadyQueue` (the queue is the tree read from left to
right).

### Cfs

`Cfs` adds time: timer ticks, the charging of runtime, `checkPreemption()` and
the slices of `retrieveProcess()`, on top of the queue of `ReadyQueue`. The
processes are fixed, and their runtimes are kept relative to the smallest one,
which is all the code compares. The timers of the CPUs fire once each in an
interval. `yield()` takes the minimum of the tree without its lock, so it
reads it in one step and uses it in another. Ghost variables count the CPU time
each process has had and how long it has been queued.

### Memory

Pages are interchangeable, so `Memory` counts them. A page table is the set of
its lower tables and the set of pages it maps; `walk()`, `mappages()`,
`uvmunmap()`, `freewalk()` and the functions above them are operators that
return the free list, the table, whether they failed and whether they panic.
`fork()`, `sbrk()` and `exec()` take one page to a step, so memory may run out
at every allocation and other processes take pages in between. Sizes are
modulo `WORD`, because `sbrk()` subtracts without a test.

### Log, AtomicLog

`Log` models `log.c` with the pins and recycling of the buffer cache and the
blocks on disk. A step is a section under `log.lock` or one block written.
`Crash` may strike between any two steps and may tear the data block being
written; the header is 124 bytes, less than a sector, and is written whole.
Recovery runs step by step, so crashes during recovery are included. `Modify`
stands for what a system call does between `bread()` and `log_write()`; calls
keep to `MAXOPBLOCKS`, as `filewrite()` arranges. `AtomicLog` is the promise:
writes become durable in commits that no call is in the middle of, and a crash
goes back to the last commit. The mapping takes `durable` to the disk as
recovery would leave it and `mem` to the cache over the disk.

### Bcache, BlockStore

`Bcache` models `bio.c` and the sleeplocks it uses: sections under
`bcache.lock`, sections under the spinlock of a sleeplock, and transfers.
Processes read, write and pin blocks as the log does. `BlockStore` is the
promise: one owner for each block at a time, who finds what the last one left.
The mapping takes the contents of a block to its valid buffer, or else to the
disk, and its owner to the process that holds its sleeplock with the block read.

### Virtio

`Virtio` models `virtio_disk.c` under `vdisk_lock`, the loop of the interrupt
handler, and, as an external part, a device that fetches requests, serves them
in any order and raises its interrupt. Ring indices run modulo a small multiple
of `NUM`, as the code's run modulo 2^16. An entry of a ring that nobody will
read again is set to 0.

### Inodes

`Inodes` has the inode table, the inodes on disk and the directories, as
functions from names, and the calls that create, open, link, unlink and change
directory. A step is what a call does with one inode locked, up to its release
or to the wait for a second lock, which is where calls meet: `iput()` that
frees an inode takes two steps, and `unlink()` waits for its victim with the
directory locked. A pointer that a call holds is in its record, so references
can be counted.

### FileData, Mkfs

`Mkfs` computes the image that `mkfs.c` makes for files of given sizes: which
blocks each inode lists, through an indirect block where it needs one.
`FileData` starts from it and models `balloc()`, `bmap()`, `itrunc()`,
`readi()` and `writei()` on block numbers and bytes, the table of open files,
and the loop of `filewrite()`, with one block to a step and other processes
between its transactions. A byte written at offset `o` of a file is `Byte(i, o)`,
so a byte in the wrong place shows. Zeroed blocks, a full disk and a copy from
user memory that fails part of the way are included.

### Pipe, Fifo

`Pipe` models `pipe.c`, one iteration of a loop to a step, with `pi->lock`
explicit because `kill()` does not take it. The counters run modulo a small
multiple of `PIPESIZE`, as the code's run modulo 2^32. `Fifo` is the bounded
queue that it is checked to implement.

### Console

`Console` has the input line with its three indices, the transmit buffer, the
UART with its FIFOs as an external part, the interrupt handler and the
processes that read and write. The test of `LSR` and the write of `THR` that
follows are two steps, since the echo does them without `uart_tx_lock` while
another CPU does them with it.

## Runs

| Run | Instance | Shows |
|---|---|---|
| `proc` | 3 slots, 2 CPUs; one process sleeps on the clock and may be killed | `OneCpuPerProcess`, `RunnableNotLost`: no shared kernel stack, no lost process; `NoLostExit`, `NoLostTick`: no lost wakeup; `ParentAlive`: no orphan is forgotten; `SchedInv`: the inductive invariant |
| `tree` | 8 processes with distinct runtimes; 4 with equal and growing ones, `chprio`, reuse | `RedBlack` balance, links and cached minimum; `NeverStuck`: the removal loop ends; `Refines` the ordered queue |
| `cfs` | 3 processes of nice 0, 5 and 20, 2 CPUs | `FairShare`, `BoundedWait`, `NoStarvation` |
| `log` | 3 processes, 2 blocks, calls of 2 blocks, crashes | `Implements`: crash atomicity; `DurableAtReturn`; `SpaceReserved`; `NoLostWakeup` |
| `pipe` | 2 writers, 1 reader that may be killed, 2 bytes of room | `IsFifo`; `ReaderSleepsOnEmpty`; `WriterWoken`; `NoUseAfterFree` |
| `disk` | 3 processes, 8 descriptors | `DescsAccounted`; `DoneMeansServed`; `Completes`: every transfer ends |
| `bcache` | 2 processes, 3 blocks, 2 buffers | `KeepsBlock`: no buffer is recycled in use; `IsStore`; `Woken` |
| `memory` | 3 slots, 24 pages of 2 bytes, tables of 3 entries | `PagesAccounted`: no leak, no double free; `SizeMapped`: a failed call changes nothing; `NoPanic` |
| `inodes` | 2 processes, 3 inodes, 2 names | `RefsCounted`; `OneCopy`; `NamesHold`; `NoCircularWait`; `NoPanic` |
| `filedata` | 2 processes, 2 files and the root, 6 blocks of 2 bytes | `BlocksAccounted`: each block in one place; `ReadsBack`: each byte where it was put |
| `console` | a reader that may be killed and a writer, buffers of 2 and 1 | `NeverWedged`; `SleepsForReason`; `FitsFifo`; `OutputPending` |
| `chprio_weight` | 4 processes of the second load of `tree` | violation of `WeightIsSum`: `chprio()` on a queued process spoils `rbTreeWeight` |

### Bounds

- Three slots are `init`, a parent and a child, the least that makes
  reparenting race with exit and reuse; two CPUs make every pairwise race of
  kernel threads. `MaxSleep` is one tick.
- Eight nodes give red-black trees of black height three, in which every branch
  of the insertion and removal fix-ups is taken, the move up of the removal
  loop included. `MaxRuntime` bounds the runtimes of the second load, and
  `MaxDrift` the error that `chprio()` adds to the weight.
- Three processes with slices of different length meet on two CPUs, so that one
  is always queued. `MaxLag` stops the clock when two processes are that far
  apart; while `FairShare` holds they never are.
- With calls of two blocks and a log of three, a commit covers several calls
  and several blocks, and one call is admitted while another must wait.
- Pipes hold two bytes, their counters run over after two rings, and a write is
  longer than the pipe. Two buffers for three blocks are recycled all the time.
  Eight descriptors, the number in `virtio.h`, serve two requests and make a
  third wait; indices run over after two rings.
- 24 pages do not suffice for three processes that grow, so every call is met
  by a lack of memory at one allocation or another. Three entries to a page table make programs
  cross into a second table. Programs have a gap between two segments, or an
  empty segment.
- Three inodes are the root and two more, for two processes that work on the
  same names; inode numbers and table entries are used again at once. Paths
  have at most three elements, none of them `..` (see below).
- A file has one direct block and two behind an indirect block. Six blocks are
  fewer than the files may take. A write of three bytes takes two transactions.
- The input buffer holds two characters and its indices run over after two
  rings; the transmit buffer and the receive FIFO hold one byte. A transmit FIFO
  of two bytes is the least that suffices (the device of `qemu` has sixteen).

Where the processes of an instance are interchangeable, symmetry is declared;
those runs check no liveness. `bcache` and `pipe` do not check for deadlock: all
buffers may be in use, which is a panic, and a pipe ends when both ends are
closed.

### Fairness

Only `cfs`, `pipe`, `disk` and `bcache` check liveness. Every process that can
step is scheduled again, which is weak fairness of its steps and is what
`NoStarvation` shows of the scheduler. More is assumed in three places. In
`Virtio` a process that spins for `vdisk_lock` gets it in the end (strongly fair
sections); the spinlock does not promise that, but every holder lets go at
once, and the device serves what it has fetched. In `Pipe` a reader goes on
reading or closes its end. In `Cfs` timers keep firing, as `timervec` rearms
them on every interrupt. Nobody has to start a call.

## Proofs

All proofs are of safety: `Spec => []Inv` for an invariant, and a refinement.

**Processes** (`ProcProofs`). For every `NPROC`, every set of CPUs and every set
of killable and sleeping processes, `SchedInv` is inductive
(`SchedInvariance`). From it follow the types (`TypeCorrect`), `StackSafety`,
`NoProcessLost`, `TreeOnlyRunnable`, `SlotReuse` and `SchedNeverPanics`. None of
these is inductive alone: that two CPUs never share a stack rests on who holds
`p->lock` at every point of every thread, and on where each RUNNABLE process is
(in the tree, claimed by one CPU, or in the hands of the `fork()` that made it).
The lemmas are in `ProcSwitchProofs` (scheduler, `sched()`, `yield()`, sleep),
`ProcCallProofs` (`fork`, `exit`, `wait`, `kill`) and `ProcLockProofs` (locks and
types). Assumed: the boot CPU is one of the CPUs, and `init` is not killed, as
`exit()` of `init` panics.

**Run queue** (`ReadyQueueProofs`). The abstract queue stays ordered and free of
duplicates (`QueueOrdered`), and no queued process overtakes another
(`QueueFair`).

**Pipes** (`PipeProofs`), for any number of readers and writers and any size.
`FreedAfterLastUse` rests on `EndInv`: a process in a call has its end open, one
that closes is the last of its end, and the end is marked open until it holds
the lock. `ReaderSleepsForReason` adds `WaitInv`: a reader may sleep on a pipe
with bytes only while a writer in its section has yet to wake it. It assumes
that no writer is killed; without that it is false (see below).

**Console** (`ConsoleProofs`), for any number of processes and any sizes.
`PlaceInv` says who holds the two locks. `ConsoleSleepsForReason` and
`OutputNotForgotten` are inductive together with it. `TwoBytesSuffice`
needs `FifoInv`: between a test of `LSR` and the write of `THR` there is room,
for the echo and for `uartstart()` at once. `InputNeverWedged` needs to know that
the handler stores only a character it found room for (`IndexInv`), and that
the indices keep their distance when they run over, by lemmas on arithmetic
modulo `UINT`. Assumed: the input buffer is shorter than the range of its
indices, and divides it.

**Buffer cache** (`BcacheProofs`), for any number of processes, blocks and
buffers. `CacheInv` has four parts: where a process is tells which buffer and
lock it has (`PlaceInv`), a count is the number of users of a buffer and its pin
(`RefInv`), a user's buffer stays that of its block (`KeepsBlock`), and a block
has one buffer, which agrees with the disk unless it is pinned (`BlockInv`). The
counts are needed because `bget()` decides by them alone what to recycle.
`BufferKept` is the third part; `CacheIsStore` shows that each step maps to a
step of `BlockStore`, or to none.

Only model-checked: `NoLostExit`, `NoLostTick` and `ParentAlive`; the tree
operations, which are recursive, and that they refine the queue; that the log
refines `AtomicLog` and the pipe `Fifo`; `Cfs`, `Memory`, `Virtio`, `Inodes` and
`FileData`; and all liveness, which is out of reach of the prover.

## What the models show about the code

One run shows a disagreement between the code and its comment: `chprio()`
changes the weight of a process that may be in the tree without adjusting
`rbTreeWeight` (`proc.c:1266`), and later slices are divided by the wrong total.

While modelling, these limits of what the code promises came up. The properties
are stated so that they hold beside them.

- `kill(0)` marks the first slot with pid 0, an UNUSED one, as killed, and
  `allocproc()` does not clear the mark (`proc.c:1155`).
- `kill()` between the test of `killed()` in `wait()` and its `sleep()` is noticed
  only at the next wakeup (`proc.c:966`).
- Ticks that arrive in the kernel are not charged (`trap.c:159`), and a new
  process starts at runtime 0 (`proc.c:656`), so the fairness of `Cfs` is for
  processes that run in user mode and were there from the start. Nice values
  change how long a slice is, not how much CPU time a process gets in the long
  run, because the runtime is not scaled by the weight.
- A pipe writer that is killed returns without waking the readers
  (`pipe.c:84`): its bytes stay unread until the next write or close.
- `mkfs` makes the log `LOGSIZE` blocks long with its header, so that
  `log_write()` has one block less than `begin_op()` shares out (`log.c:219`).
  Three calls that each log `MAXOPBLOCKS` different blocks would panic. `Log` has
  the panic as a step; in the instance the two blocks always fit.
- `bget()` and `iget()` panic when all entries are in use. Nothing in the code
  bounds how many the calls in progress hold.
- `create()` does not test whether its directory has been unlinked
  (`sysfile.c:265`): the new inode keeps a link count and has no name that can
  be reached. The `..` of a removed current directory names an inode that may
  have been freed, and `ilock()` then panics (`fs.c:314`). `Inodes` has paths
  through `..`, and the instance leaves them out.
- `mkfs` rounds the size of the root directory up even when it fills its last
  block (`mkfs.c:166`), which leaves a block of it missing; `readi()` fills the
  hole outside a transaction. The instance has a directory with room.
- When `either_copyin()` fails in `writei()`, bytes already copied stay in the
  cached block and are not logged (`fs.c:522`).

## Not modelled

- User programs, `usertests` and the other test programs: sequential programs on
  top of the kernel, about half of the lines of the repository.
- Boot (`main.c`, `start.c`, `entry.S`): it runs before there is concurrency, and
  the initial states are what it leaves. `swtch.S`, `trampoline.S` and
  `kernelvec.S` save and restore registers.
- `printf()`, `panic()` and `string.c`: formatting and copying. A panic is a flag
  where a property needs it.
- `copyin()`, `copyout()`, `copyinstr()` and the fetching of arguments: they change
  no state of the kernel but may fail, which the calls above allow for. The
  kernel page table and the permissions of pages are fixed.
- `dup()`, `fstat()`, `pipe()` and the modes in which files are open; the list
  that `^P` prints; `procdump()`, `procs()` and pids.
- Blocks that a file system call logs: `Log` takes the limit per call as given,
  and `FileData` does not count them. Composing the two would multiply their
  states beyond what TLC can explore.
- The order of memory accesses: each lock is taken to work, and so are the
  barriers of the disk driver.
