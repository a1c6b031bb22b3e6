------------------------------- MODULE Memory -------------------------------
(***************************************************************************)
(* Pages of memory and who has them: kernel/kalloc.c, the user part of     *)
(* kernel/vm.c, and the callers in proc.c, exec.c and sysfile.c, any of    *)
(* which may run out of memory half-way.                                   *)
(*                                                                         *)
(* A step is one turn of a loop that allocates pages; between two of them  *)
(* other processes take and give back pages.  Pages are interchangeable,   *)
(* so they are counted; a page table is the set of its tables of the two   *)
(* lower levels, by level and index, and the set of pages it maps.         *)
(***************************************************************************)
EXTENDS Integers, Sequences, FiniteSetsExt

CONSTANTS
    NPROC,          \* slots of the process table; slot 1 is init
    NPAGES,         \* pages that kinit() puts on the free list
    PGSIZE,         \* bytes of a page
    FANOUT,         \* entries of a page table, 512
    WORD,           \* 2^64
    MAXARG,
    Increments,     \* arguments of sbrk()
    Programs        \* the segments of each program: [vaddr, memsz, filesz]

\* Memory is smaller than the space of addresses, so no process grows into
\* its trapframe.
ASSUME MemoryAssumption ==
    /\ NPROC \in Nat \ {0} /\ PGSIZE \in Nat \ {0} /\ FANOUT \in Nat \ {0} /\ MAXARG \in Nat
    /\ NPAGES \in 7..(FANOUT ^ 3 - 2) /\ WORD >= FANOUT ^ 3 * PGSIZE
    /\ Increments \subseteq Int
    /\ \A g \in Programs : \A k \in DOMAIN g : g[k].filesz <= g[k].memsz /\ g[k].vaddr % PGSIZE = 0

Procs == 1..NPROC
TRAMPOLINE == FANOUT ^ 3 - 1
TRAPFRAME == FANOUT ^ 3 - 2
PagesOf(sz) == (sz + PGSIZE - 1) \div PGSIZE    \* PGROUNDUP(sz) / PGSIZE

\* A page table: whether it has a root, its lower tables and the pages mapped.
NoTable == [root |-> FALSE, tables |-> {}, leaf |-> {}]
Unused == [state |-> "UNUSED", trapframe |-> FALSE, pt |-> NoTable, sz |-> 0]
NoJob == [at |-> "user", pt |-> NoTable, sz |-> 0, new |-> 0, page |-> 0, np |-> 0,
          segs |-> <<>>, argv |-> 0]

VARIABLES
    free,       \* the number of pages on kmem.freelist
    proc,       \* the process table
    job,        \* where each process is in a system call, and its local variables
    panicked

vars == <<free, proc, job, panicked>>

-----------------------------------------------------------------------------
(***************************************************************************)
(* The functions of kalloc.c and vm.c take and return a record: the free   *)
(* list, the page table they work on, whether they succeed and whether     *)
(* they panic.                                                             *)
(***************************************************************************)
On(f, pt) == [free |-> f, pt |-> pt, ok |-> TRUE, panic |-> FALSE]

kalloc(s) == IF s.free = 0 THEN [s EXCEPT !.ok = FALSE] ELSE [s EXCEPT !.free = @ - 1]

\* kfree() of n pages.
kfree(s, n) == [s EXCEPT !.free = @ + n]

\* One level of walk() with alloc # 0.
walkLevel(s, t) ==
    IF ~s.ok \/ t \in s.pt.tables THEN s
    ELSE LET k == kalloc(s) IN IF k.ok THEN [k EXCEPT !.pt.tables = @ \cup {t}] ELSE k

walk(s, va) == walkLevel(walkLevel(s, <<1, va \div FANOUT ^ 2>>), <<0, va \div FANOUT>>)

mappages(s, va) ==
    LET w == walk(s, va)
    IN  IF ~w.ok THEN w
        ELSE [w EXCEPT !.panic = @ \/ va \in w.pt.leaf, !.pt.leaf = @ \cup {va}]

uvmunmap(s, vas, do_free) ==
    LET t == [s EXCEPT !.panic = @ \/ ~(vas \subseteq s.pt.leaf), !.pt.leaf = @ \ vas]
    IN  IF do_free THEN kfree(t, Cardinality(vas \cap s.pt.leaf)) ELSE t

freewalk(s) ==
    [kfree(s, Cardinality(s.pt.tables) + 1) EXCEPT !.panic = @ \/ s.pt.leaf # {}, !.pt = NoTable]

uvmfree(s, sz) == freewalk(uvmunmap(s, 0..PagesOf(sz) - 1, TRUE))

proc_freepagetable(s, sz) ==
    uvmfree(uvmunmap(uvmunmap(s, {TRAMPOLINE}, FALSE), {TRAPFRAME}, FALSE), sz)

uvmcreate(f) ==
    LET k == kalloc(On(f, NoTable)) IN IF k.ok THEN [k EXCEPT !.pt.root = TRUE] ELSE k

proc_pagetable(f) ==
    LET s0 == uvmcreate(f)
        s1 == mappages(s0, TRAMPOLINE)
        s2 == mappages(s1, TRAPFRAME)
    IN  IF ~s0.ok THEN s0
        ELSE IF ~s1.ok THEN uvmfree(s1, 0)
        ELSE IF ~s2.ok THEN uvmfree(uvmunmap(s2, {TRAMPOLINE}, FALSE), 0)
        ELSE s2

\* Mutant: the page is lost when it cannot be mapped.
NewPageLost(s, va) ==
    LET k == kalloc(s) IN mappages(k, va)

\* One turn of the loops of uvmalloc() and uvmcopy(): a page and its mapping.
NewPage(s, va) ==
    LET k == kalloc(s)
        m == mappages(k, va)
    IN  IF k.ok /\ ~m.ok THEN kfree(m, 1) ELSE m

\* Mutant: the last page is freed although part of it is still in use.
uvmdeallocDown(s, oldsz, newsz) ==
    IF newsz >= oldsz THEN s
    ELSE uvmunmap(s, (newsz \div PGSIZE)..PagesOf(oldsz) - 1, TRUE)

uvmdealloc(s, oldsz, newsz) ==
    IF newsz >= oldsz THEN s ELSE uvmunmap(s, PagesOf(newsz)..PagesOf(oldsz) - 1, TRUE)

\* freeproc() of a process with a trapframe, if tf, and size sz.
freeproc(s, tf, sz) ==
    LET t == IF tf THEN kfree(s, 1) ELSE s
    IN  IF s.pt = NoTable THEN t ELSE proc_freepagetable(t, sz)

\* The memory of allocproc().
allocproc(f) ==
    LET k == kalloc(On(f, NoTable))         \* the trapframe
        s == proc_pagetable(k.free)
    IN  IF ~k.ok THEN freeproc(k, FALSE, 0) ELSE IF ~s.ok THEN freeproc(s, TRUE, 0) ELSE s

-----------------------------------------------------------------------------
\* After userinit(): init has one page of memory.
Init ==
    LET s == NewPage(allocproc(NPAGES), 0)      \* uvmfirst()
    IN  /\ free = s.free
        /\ proc = [p \in Procs |->
                    IF p = 1 THEN [state |-> "LIVE", trapframe |-> TRUE, pt |-> s.pt, sz |-> PGSIZE]
                    ELSE Unused]
        /\ job = [p \in Procs |-> NoJob]
        /\ panicked = FALSE

Memory(s) == free' = s.free /\ panicked' = (panicked \/ s.panic)
AtUser(p) == proc[p].state = "LIVE" /\ job[p].at = "user"
Return(p) == job' = [job EXCEPT ![p] = NoJob]

-----------------------------------------------------------------------------
(***************************************************************************)
(* fork(), exit() and wait()                                               *)
(***************************************************************************)
Fork(p) ==
    LET unused == {q \in Procs : proc[q].state = "UNUSED"}
        np == Min(unused)
        s == allocproc(free)
    IN  /\ AtUser(p) /\ unused # {}
        /\ Memory(s)
        /\ IF ~s.ok THEN UNCHANGED <<proc, job>>
           ELSE /\ proc' = [proc EXCEPT ![np] = [state |-> "USED", trapframe |-> TRUE,
                                                 pt |-> s.pt, sz |-> 0]]
                /\ job' = [job EXCEPT ![p].at = "uvmcopy", ![p].np = np]

\* The next page of uvmcopy().
Copied(p) == NewPage(On(free, proc[job[p].np].pt), job[p].page)

uvmcopy(p) ==
    LET s == Copied(p)
    IN  /\ job[p].at = "uvmcopy" /\ job[p].page < PagesOf(proc[p].sz) /\ s.ok
        /\ Memory([s EXCEPT !.panic = @ \/ job[p].page \notin proc[p].pt.leaf])
        /\ proc' = [proc EXCEPT ![job[p].np].pt = s.pt]
        /\ job' = [job EXCEPT ![p].page = @ + 1]

\* Mutant: the pages copied so far are left to freeproc(), which has sz 0.
ForkFailsMapped(p) ==
    LET np == proc[job[p].np]
    IN  /\ job[p].at = "uvmcopy" /\ job[p].page < PagesOf(proc[p].sz) /\ ~Copied(p).ok
        /\ Memory(freeproc(Copied(p), np.trapframe, np.sz))
        /\ proc' = [proc EXCEPT ![job[p].np] = Unused]
        /\ Return(p)

\* uvmcopy() undoes what it did and fork() frees the new process.
ForkFails(p) ==
    LET np == proc[job[p].np]
        undone == uvmunmap(Copied(p), 0..job[p].page - 1, TRUE)
    IN  /\ job[p].at = "uvmcopy" /\ job[p].page < PagesOf(proc[p].sz) /\ ~Copied(p).ok
        /\ Memory(freeproc(undone, np.trapframe, np.sz))
        /\ proc' = [proc EXCEPT ![job[p].np] = Unused]
        /\ Return(p)

ForkDone(p) ==
    /\ job[p].at = "uvmcopy" /\ job[p].page >= PagesOf(proc[p].sz)
    /\ proc' = [proc EXCEPT ![job[p].np].sz = proc[p].sz, ![job[p].np].state = "LIVE"]
    /\ Return(p)
    /\ UNCHANGED <<free, panicked>>

\* p exits and its parent waits for it.
Reap(p) ==
    /\ AtUser(p) /\ p # 1
    /\ Memory(freeproc(On(free, proc[p].pt), proc[p].trapframe, proc[p].sz))
    /\ proc' = [proc EXCEPT ![p] = Unused]
    /\ UNCHANGED job

-----------------------------------------------------------------------------
(***************************************************************************)
(* sbrk(): growproc()                                                      *)
(***************************************************************************)
Plus(sz, n) == (sz + n) % WORD

Grow(p, n) ==
    LET sz == proc[p].sz
    IN  /\ AtUser(p) /\ n > 0
        /\ job' = [job EXCEPT ![p].at = "growproc", ![p].page = PagesOf(sz),
                              ![p].new = Max({sz, Plus(sz, n)})]
        /\ UNCHANGED <<free, proc, panicked>>

\* A reduction by more than there is wraps around and is ignored.
Shrink(p, n) ==
    LET sz == proc[p].sz
        s == uvmdealloc(On(free, proc[p].pt), sz, Plus(sz, n))
    IN  /\ AtUser(p) /\ n < 0
        /\ Memory(s)
        /\ proc' = [proc EXCEPT ![p].pt = s.pt, ![p].sz = Min({sz, Plus(sz, n)})]
        /\ UNCHANGED job

\* The next page of uvmalloc().
Grown(p) == NewPage(On(free, proc[p].pt), job[p].page)

GrowPage(p) ==
    LET s == Grown(p)
    IN  /\ job[p].at = "growproc" /\ job[p].page < PagesOf(job[p].new) /\ s.ok
        /\ Memory(s)
        /\ proc' = [proc EXCEPT ![p].pt = s.pt]
        /\ job' = [job EXCEPT ![p].page = @ + 1]

GrowFails(p) ==
    LET s == uvmdealloc(Grown(p), job[p].page * PGSIZE, PagesOf(proc[p].sz) * PGSIZE)
    IN  /\ job[p].at = "growproc" /\ job[p].page < PagesOf(job[p].new) /\ ~Grown(p).ok
        /\ Memory(s)
        /\ proc' = [proc EXCEPT ![p].pt = s.pt]
        /\ Return(p)

GrowDone(p) ==
    /\ job[p].at = "growproc" /\ job[p].page >= PagesOf(job[p].new)
    /\ proc' = [proc EXCEPT ![p].sz = job[p].new]
    /\ Return(p)
    /\ UNCHANGED <<free, panicked>>

-----------------------------------------------------------------------------
(***************************************************************************)
(* sys_exec() and exec()                                                   *)
(***************************************************************************)
Exec(p) ==
    /\ AtUser(p)
    /\ job' = [job EXCEPT ![p].at = "sys_exec"]
    /\ UNCHANGED <<free, proc, panicked>>

\* sys_exec() takes a page for an argument.
ExecArg(p) ==
    /\ job[p].at = "sys_exec" /\ job[p].argv < MAXARG /\ free > 0
    /\ Memory(kalloc(On(free, NoTable)))
    /\ job' = [job EXCEPT ![p].argv = @ + 1]
    /\ UNCHANGED proc

\* Bad arguments, too many of them, no memory, or no such program.
ExecArgsBad(p) ==
    /\ job[p].at = "sys_exec"
    /\ Memory(kfree(On(free, NoTable), job[p].argv))
    /\ Return(p)
    /\ UNCHANGED proc

ExecTable(p, program) ==
    LET s == proc_pagetable(free)
    IN  /\ job[p].at = "sys_exec" /\ job[p].argv < MAXARG
        /\ IF s.ok
           THEN /\ Memory(s)
                /\ job' = [job EXCEPT ![p].at = "exec", ![p].pt = s.pt, ![p].segs = program]
           ELSE Memory(kfree(s, job[p].argv)) /\ Return(p)
        /\ UNCHANGED proc

\* exec() calls uvmalloc() for the next segment, or for the stack.
ExecSegment(p) ==
    LET seg == Head(job[p].segs)
    IN  /\ job[p].at = "exec" /\ job[p].segs # <<>>
        /\ job' = [job EXCEPT ![p].at = "segment", ![p].page = PagesOf(job[p].sz),
                              ![p].new = Max({job[p].sz, seg.vaddr + seg.memsz})]
        /\ UNCHANGED <<free, proc, panicked>>

ExecStack(p) ==
    LET sz == PagesOf(job[p].sz) * PGSIZE
    IN  /\ job[p].at = "exec" /\ job[p].segs = <<>>
        /\ job' = [job EXCEPT ![p].at = "stack", ![p].page = PagesOf(sz), ![p].sz = sz,
                              ![p].new = sz + 2 * PGSIZE]
        /\ UNCHANGED <<free, proc, panicked>>

\* The next page of uvmalloc().
Loaded(p) == NewPage(On(free, job[p].pt), job[p].page)
Loading(p) == job[p].at \in {"segment", "stack"} /\ job[p].page < PagesOf(job[p].new)

ExecPage(p) ==
    LET s == Loaded(p)
    IN  /\ Loading(p) /\ s.ok
        /\ Memory(s)
        /\ job' = [job EXCEPT ![p].pt = s.pt, ![p].page = @ + 1]
        /\ UNCHANGED proc

\* The label bad of exec() and the end of sys_exec().
Bad(s, p) == kfree(proc_freepagetable(s, job[p].sz), job[p].argv)

\* uvmalloc() undoes what it did, and exec() the rest.
ExecFails(p) ==
    /\ Loading(p) /\ ~Loaded(p).ok
    /\ Memory(Bad(uvmdealloc(Loaded(p), job[p].page * PGSIZE, PagesOf(job[p].sz) * PGSIZE), p))
    /\ Return(p)
    /\ UNCHANGED proc

\* uvmalloc() is done with a segment, and loadseg() reads it in.
ExecLoaded(p) ==
    LET seg == Head(job[p].segs)
        loadseg == {va \div PGSIZE : va \in seg.vaddr..seg.vaddr + seg.filesz - 1}
    IN  /\ job[p].at = "segment" /\ ~Loading(p) /\ job[p].new # 0
        /\ job' = [job EXCEPT ![p].at = "exec", ![p].sz = job[p].new, ![p].segs = Tail(@)]
        /\ panicked' = (panicked \/ ~(loadseg \subseteq job[p].pt.leaf))
        /\ UNCHANGED <<free, proc>>

\* A header or a segment cannot be read, or uvmalloc() has returned 0 for an
\* empty one.
ExecBad(p) ==
    /\ job[p].at = "exec" \/ (job[p].at = "segment" /\ job[p].new = 0)
    /\ Memory(Bad(On(free, job[p].pt), p))
    /\ Return(p)
    /\ UNCHANGED proc

\* The arguments do not fit on the stack.
ExecArgsTooLong(p) ==
    /\ job[p].at = "stack" /\ ~Loading(p)
    /\ Memory(kfree(proc_freepagetable(On(free, job[p].pt), job[p].new), job[p].argv))
    /\ Return(p)
    /\ UNCHANGED proc

\* "Commit to the user image".
ExecDone(p) ==
    /\ job[p].at = "stack" /\ ~Loading(p)
    /\ Memory(kfree(proc_freepagetable(On(free, proc[p].pt), proc[p].sz), job[p].argv))
    /\ proc' = [proc EXCEPT ![p].pt = job[p].pt, ![p].sz = job[p].new]
    /\ Return(p)

-----------------------------------------------------------------------------
ForkStep(p) == Fork(p) \/ uvmcopy(p) \/ ForkFails(p) \/ ForkDone(p) \/ Reap(p)
SbrkStep(p) ==
    \/ \E n \in Increments : Grow(p, n) \/ Shrink(p, n)
    \/ GrowPage(p) \/ GrowFails(p) \/ GrowDone(p)
ExecStep(p) ==
    \/ Exec(p) \/ ExecArg(p) \/ ExecArgsBad(p) \/ \E g \in Programs : ExecTable(p, g)
    \/ ExecSegment(p) \/ ExecStack(p) \/ ExecPage(p) \/ ExecFails(p) \/ ExecLoaded(p)
    \/ ExecBad(p) \/ ExecArgsTooLong(p) \/ ExecDone(p)

Next == \E p \in Procs : ForkStep(p) \/ SbrkStep(p) \/ ExecStep(p)

Spec == Init /\ [][Next]_vars

-----------------------------------------------------------------------------
\* The pages of a page table and of what it maps.
TablePages(pt) ==
    Cardinality(pt.tables) + Cardinality(pt.leaf \ {TRAMPOLINE, TRAPFRAME})
    + (IF pt.root THEN 1 ELSE 0)

Held(p) ==
    TablePages(proc[p].pt) + TablePages(job[p].pt) + job[p].argv
    + (IF proc[p].trapframe THEN 1 ELSE 0)

\* Every page is on the free list or held by a process, however fork(),
\* sbrk() and exec() fail half-way: nothing leaks and nothing is freed twice.
PagesAccounted == free + MapThenSumSet(Held, Procs) = NPAGES

\* A process outside sbrk() has exactly the pages of its size, its trapframe
\* and the trampoline mapped; so a call that fails leaves it what it had.
SizeMapped ==
    \A p \in Procs : proc[p].state = "LIVE" /\ job[p].at # "growproc" =>
        proc[p].pt.leaf = 0..PagesOf(proc[p].sz) - 1 \cup {TRAPFRAME, TRAMPOLINE}

\* uvmunmap(), mappages(), freewalk(), uvmcopy() and loadseg() never meet a
\* page table that makes them panic.
NoPanic == ~panicked
=============================================================================
