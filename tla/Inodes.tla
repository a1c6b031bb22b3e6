------------------------------- MODULE Inodes -------------------------------
(***************************************************************************)
(* The inode table and the directory tree of kernel/fs.c, and the system   *)
(* calls of kernel/sysfile.c on them.                                      *)
(*                                                                         *)
(* A step is what a call does from taking an inode's sleep-lock to         *)
(* releasing it, or to its wait for a second one; each iput() is a step of *)
(* its own, and two when it frees the inode.  A directory is a function    *)
(* from names.  A process has one open file; FileData has the table of     *)
(* files and their contents, and Log the transactions.                     *)
(***************************************************************************)
EXTENDS Integers, Sequences, FiniteSetsExt, TLC

CONSTANTS
    Procs,
    ninodes,        \* sb.ninodes: inode numbers are below it
    NINODE,         \* entries of itable
    Names,          \* path elements other than "." and ".."
    Calls           \* the calls programs make: [op, path, new]

ROOTINO == 1
Inums == 1..ninodes - 1
Slots == 1..NINODE
Null == 0           \* a null pointer, and no inode
NoProc == "none"

\* Types of inodes; devices are T_FILE, too.
T_FREE == "free"
T_DIR == "dir"
T_FILE == "file"

\* An entry of the inode table that is free; what else it held is never used.
Free == [inum |-> Null, ref |-> 0, valid |-> FALSE, type |-> T_FREE, nlink |-> 0, lock |-> NoProc]

EmptyDir == [n \in Names \cup {".", ".."} |-> Null]
Idle == [op |-> "none", at |-> "user", path |-> <<>>, new |-> <<>>, parent |-> FALSE,
         ip |-> Null, dp |-> Null, old |-> Null, put |-> <<>>, iput |-> "test"]

VARIABLES
    dinode,     \* inodes on disk, as the buffer cache has them: [type, nlink]
    dir,        \* the contents of directories
    itable,     \* in-memory inodes
    ofile,      \* the inodes of open files
    cwd,        \* current directories
    call,       \* where each process is in a call, and its local variables
    panicked

vars == <<dinode, dir, itable, ofile, cwd, call, panicked>>
disk == <<dinode, dir>>
fds == <<ofile, cwd>>

-----------------------------------------------------------------------------
(***************************************************************************)
(* The inode layer.  t is the inode table, s an entry of it.               *)
(***************************************************************************)
Hit(t, i) == {s \in Slots : t[s].ref > 0 /\ t[s].inum = i}
Empty(t) == {s \in Slots : t[s].ref = 0}

\* The entry that iget(i) returns, and the table after it.
Entry(t, i) == IF Hit(t, i) # {} THEN Min(Hit(t, i)) ELSE Min(Empty(t))
TableFull(t, i) == Hit(t, i) \cup Empty(t) = {}

\* Mutant: an entry that is in use is not looked for.
igetFresh(t, i) ==
    IF Empty(t) = {} THEN t
    ELSE [t EXCEPT ![Min(Empty(t))] = [Free EXCEPT !.inum = i, !.ref = 1]]

iget(t, i) ==
    IF TableFull(t, i) THEN t
    ELSE IF Hit(t, i) # {} THEN [t EXCEPT ![Entry(t, i)].ref = @ + 1]
    ELSE [t EXCEPT ![Entry(t, i)] = [Free EXCEPT !.inum = i, !.ref = 1]]

idup(t, s) == [t EXCEPT ![s].ref = @ + 1]

\* ilock(s): it waits for the lock, and reads the inode if it must.
CanLock(s) == itable[s].lock = NoProc
Read(s) ==
    IF itable[s].valid THEN itable[s]
    ELSE [itable[s] EXCEPT !.valid = TRUE, !.type = dinode[itable[s].inum].type,
                           !.nlink = dinode[itable[s].inum].nlink]
ilock(s) == [itable EXCEPT ![s] = Read(s)]
NoType(s) == itable[s].ref < 1 \/ Read(s).type = T_FREE

Hold(t, s, p) == [t EXCEPT ![s].lock = p]
iunlock(t, s) == [t EXCEPT ![s].lock = NoProc]

iupdate(t, s) == [dinode EXCEPT ![t[s].inum] = [type |-> t[s].type, nlink |-> t[s].nlink]]

dirlookup(t, s, name) == dir[t[s].inum][name]

\* ialloc() takes the first free inode, if there is one.
FreeInodes == {i \in Inums : dinode[i].type = T_FREE}
ialloc(type) == [dinode EXCEPT ![Min(FreeInodes)] = [type |-> type, nlink |-> 0]]

\* dirlink(), once the name is known to be absent and there is room for it.
dirlink(d, t, s, name, i) == [d EXCEPT ![t[s].inum][name] = i]

-----------------------------------------------------------------------------
Init ==
    /\ dinode = [i \in Inums |-> IF i = ROOTINO THEN [type |-> T_DIR, nlink |-> 1]
                                               ELSE [type |-> T_FREE, nlink |-> 0]]
    /\ dir = [i \in Inums |-> IF i = ROOTINO THEN [EmptyDir EXCEPT !["."] = i, ![".."] = i]
                                            ELSE EmptyDir]
    /\ itable = [s \in Slots |->
                    IF s = 1 THEN [Free EXCEPT !.inum = ROOTINO, !.ref = Cardinality(Procs)] ELSE Free]
    /\ ofile = [p \in Procs |-> Null]
    /\ cwd = [p \in Procs |-> 1]
    /\ call = [p \in Procs |-> Idle]
    /\ panicked = FALSE

At(p, label) == call[p].at = label /\ call[p].put = <<>>
Panic(cond) == panicked' = (panicked \/ cond)

\* The call returns, once it has put the inodes in the sequence put.
Return(p, put) == call' = [call EXCEPT ![p] = [Idle EXCEPT !.put = put]]

-----------------------------------------------------------------------------
(***************************************************************************)
(* iput() of the next inode that a call has to put                         *)
(***************************************************************************)
Dropped(p, s) ==
    /\ itable' = IF itable[s].ref = 1 THEN [itable EXCEPT ![s] = Free]
                 ELSE [itable EXCEPT ![s].ref = @ - 1]
    /\ call' = [call EXCEPT ![p].put = Tail(call[p].put), ![p].iput = "test"]
    /\ UNCHANGED <<disk, fds, panicked>>

\* Mutant: the inode is freed although others have pointers to it.
LastPutAny(s) == itable[s].valid /\ itable[s].nlink = 0

LastPut(s) == itable[s].ref = 1 /\ itable[s].valid /\ itable[s].nlink = 0

\* acquiresleep() with itable.lock held must not wait.
Iput(p) ==
    LET s == Head(call[p].put)
    IN  /\ call[p].put # <<>> /\ call[p].iput = "test"
        /\ IF ~LastPut(s) THEN Dropped(p, s)
           ELSE /\ Panic(~CanLock(s))
                /\ itable' = Hold(itable, s, p)
                /\ call' = [call EXCEPT ![p].iput = "locked"]
                /\ UNCHANGED <<disk, fds>>

\* itrunc(), type 0 and iupdate().
IputFree(p) ==
    LET s == Head(call[p].put)
        t == [itable EXCEPT ![s].type = T_FREE]
    IN  /\ call[p].put # <<>> /\ call[p].iput = "locked"
        /\ itable' = t
        /\ dinode' = iupdate(t, s)
        /\ dir' = [dir EXCEPT ![t[s].inum] = EmptyDir]
        /\ call' = [call EXCEPT ![p].iput = "freed"]
        /\ UNCHANGED <<fds, panicked>>

IputUnlock(p) ==
    LET s == Head(call[p].put)
    IN  /\ call[p].put # <<>> /\ call[p].iput = "freed"
        /\ itable' = iunlock([itable EXCEPT ![s].valid = FALSE, ![s].nlink = 0], s)
        /\ call' = [call EXCEPT ![p].iput = "drop"]
        /\ UNCHANGED <<disk, fds, panicked>>

IputDrop(p) ==
    /\ call[p].put # <<>> /\ call[p].iput = "drop"
    /\ Dropped(p, Head(call[p].put))

-----------------------------------------------------------------------------
(***************************************************************************)
(* namex(): a path is a sequence of names, after "/" if it is absolute     *)
(***************************************************************************)
Absolute(path) == path # <<>> /\ Head(path) = "/"
Elems(path) == IF Absolute(path) THEN Tail(path) ELSE path
From(t, p, path) == IF Absolute(path) THEN Entry(t, ROOTINO) ELSE cwd[p]
Start(t, p, path) == IF Absolute(path) THEN iget(t, ROOTINO) ELSE idup(t, cwd[p])

\* The system calls but close() and dup() begin with a path.
Begin(p, c) ==
    /\ At(p, "user")
    /\ itable' = Start(itable, p, c.path)
    /\ call' = [call EXCEPT ![p].op = c.op, ![p].at = "namex", ![p].path = Elems(c.path),
                            ![p].new = c.new, ![p].ip = From(itable, p, c.path),
                            ![p].parent = c.op \in {"unlink", "create", "mkdir", "mknod"}]
    /\ Panic(Absolute(c.path) /\ TableFull(itable, ROOTINO))
    /\ UNCHANGED <<disk, fds>>

\* namex() returns 0: the call fails, but link() has a link count to take back.
NotFound(p, put) ==
    IF call[p].old = Null THEN Return(p, put)
    ELSE call' = [call EXCEPT ![p] = [Idle EXCEPT !.at = "bad", !.ip = call[p].old, !.put = put]]

Last(p) == call[p].parent /\ Len(call[p].path) = 1

\* One turn of the loop of namex().
Namex(p) ==
    LET s == call[p].ip
        t == ilock(s)
        next == dirlookup(t, s, Head(call[p].path))
    IN  /\ At(p, "namex") /\ call[p].path # <<>> /\ CanLock(s)
        /\ IF t[s].type # T_DIR THEN itable' = t /\ NotFound(p, <<s>>)
           ELSE IF Last(p) THEN itable' = t /\ call' = [call EXCEPT ![p].at = "found"]
           ELSE IF next = Null THEN itable' = t /\ NotFound(p, <<s>>)
           ELSE /\ itable' = iget(t, next)
                /\ call' = [call EXCEPT ![p].ip = Entry(t, next), ![p].path = Tail(call[p].path),
                                        ![p].put = <<s>>]
        /\ Panic(NoType(s) \/ (t[s].type = T_DIR /\ ~Last(p) /\ next # Null /\ TableFull(t, next)))
        /\ UNCHANGED <<disk, fds>>

NamexNoParent(p) ==
    /\ At(p, "namex") /\ call[p].path = <<>> /\ call[p].parent
    /\ NotFound(p, <<call[p].ip>>)
    /\ UNCHANGED <<disk, itable, fds, panicked>>

\* namei() or nameiparent() has returned call[p].ip to the caller op.
Found(p, ops) ==
    /\ call[p].op \in ops
    /\ At(p, "found") \/ (At(p, "namex") /\ call[p].path = <<>> /\ ~call[p].parent)

-----------------------------------------------------------------------------
(***************************************************************************)
(* open(), mkdir() and mknod()                                             *)
(***************************************************************************)
\* The end of sys_open(), with inode s locked; t is the table.  filealloc()
\* or fdalloc() may fail, or the inode may be a device that is none.
Open(p, t, s) ==
    /\ itable' = iunlock(t, s)
    /\ \/ Return(p, <<s>>) /\ UNCHANGED fds
       \/ /\ ofile[p] = Null
          /\ ofile' = [ofile EXCEPT ![p] = s]
          /\ Return(p, <<>>)
          /\ UNCHANGED cwd

OpenFound(p) ==
    LET s == call[p].ip
        t == ilock(s)
    IN  /\ Found(p, {"open", "openw"}) /\ CanLock(s)
        /\ IF t[s].type = T_DIR /\ call[p].op = "openw"
           THEN itable' = t /\ Return(p, <<s>>) /\ UNCHANGED fds
           ELSE Open(p, t, s)
        /\ Panic(NoType(s))
        /\ UNCHANGED disk

CreateType(p) == IF call[p].op = "mkdir" THEN T_DIR ELSE T_FILE

\* create(): the name exists, or ialloc() makes an inode while the directory
\* stays locked.
Create(p) ==
    LET s == call[p].ip
        t == ilock(s)
        i == dirlookup(t, s, Head(call[p].path))
        new == Min(FreeInodes)
        held == Hold(t, s, p)
    IN  /\ Found(p, {"create", "mkdir", "mknod"}) /\ CanLock(s)
        /\ Panic(NoType(s) \/ t[s].type # T_DIR \/ (i # Null /\ TableFull(t, i)))
        /\ \/ /\ i # Null
              /\ itable' = iget(t, i)
              /\ call' = [call EXCEPT ![p] = [Idle EXCEPT !.at = "exists", !.op = call[p].op,
                                                          !.ip = Entry(t, i), !.put = <<s>>]]
              /\ UNCHANGED disk
           \/ i = Null /\ FreeInodes = {} /\ itable' = t /\ Return(p, <<s>>) /\ UNCHANGED disk
           \/ /\ i = Null /\ FreeInodes # {}
              /\ dinode' = ialloc(CreateType(p))
              /\ dir' = [dir EXCEPT ![new] = EmptyDir]
              /\ itable' = iget(held, new)
              /\ call' = [call EXCEPT ![p].at = "ialloc", ![p].dp = s, ![p].ip = Entry(held, new)]
        /\ UNCHANGED fds

CreateExists(p) ==
    LET s == call[p].ip
        t == ilock(s)
    IN  /\ At(p, "exists") /\ CanLock(s)
        /\ IF call[p].op = "create" /\ t[s].type = T_FILE
           THEN Open(p, t, s)
           ELSE itable' = t /\ Return(p, <<s>>) /\ UNCHANGED fds
        /\ Panic(NoType(s))
        /\ UNCHANGED disk

\* The new inode is given its contents and its name.
CreateLink(p) ==
    LET s == call[p].ip
        dp == call[p].dp
        isDir == CreateType(p) = T_DIR
        t == [ilock(s) EXCEPT ![s].nlink = 1, ![dp].nlink = IF isDir THEN @ + 1 ELSE @]
        i == t[s].inum
        d == t[dp].inum
        made == IF isDir THEN [EmptyDir EXCEPT !["."] = i, ![".."] = d] ELSE EmptyDir
    IN  /\ At(p, "ialloc") /\ CanLock(s)
        /\ dinode' = [iupdate(t, s) EXCEPT ![d].nlink = t[dp].nlink]
        /\ dir' = dirlink([dir EXCEPT ![i] = made], t, dp, Head(call[p].path), i)
        /\ itable' = Hold(iunlock(t, dp), s, p)
        /\ call' = [call EXCEPT ![p] = [Idle EXCEPT !.at = "created", !.op = call[p].op, !.ip = s,
                                                    !.put = <<dp>>]]
        /\ Panic(NoType(s))
        /\ UNCHANGED fds

\* There is no block for an entry of either directory.
CreateFails(p) ==
    LET s == call[p].ip
        dp == call[p].dp
        t == [ilock(s) EXCEPT ![s].nlink = 0]
    IN  /\ At(p, "ialloc") /\ CanLock(s)
        /\ dinode' = iupdate(t, s)
        /\ itable' = t
        /\ call' = [call EXCEPT ![p] = [Idle EXCEPT !.at = "undo", !.dp = dp, !.put = <<s>>]]
        /\ Panic(NoType(s))
        /\ UNCHANGED <<dir, fds>>

\* Mutant: iunlock(dp) instead.
UndoLeak(p) ==
    /\ At(p, "undo")
    /\ itable' = iunlock(itable, call[p].dp)
    /\ Return(p, <<>>)
    /\ UNCHANGED <<disk, fds, panicked>>

\* Mutant: iput(dp) instead.
UndoLocked(p) ==
    /\ At(p, "undo")
    /\ Return(p, <<call[p].dp>>)
    /\ UNCHANGED <<disk, itable, fds, panicked>>

\* iunlockput(dp) at the end of a call that fails.
Undo(p) ==
    /\ At(p, "undo")
    /\ itable' = iunlock(itable, call[p].dp)
    /\ Return(p, <<call[p].dp>>)
    /\ UNCHANGED <<disk, fds, panicked>>

Created(p) ==
    LET s == call[p].ip
    IN  /\ At(p, "created")
        /\ IF call[p].op = "create" THEN Open(p, itable, s)
           ELSE itable' = iunlock(itable, s) /\ Return(p, <<s>>) /\ UNCHANGED fds
        /\ UNCHANGED <<disk, panicked>>

-----------------------------------------------------------------------------
(***************************************************************************)
(* unlink()                                                                *)
(***************************************************************************)
Unlink(p) ==
    LET s == call[p].ip
        t == ilock(s)
        i == dirlookup(t, s, Head(call[p].path))
        held == Hold(t, s, p)
    IN  /\ Found(p, {"unlink"}) /\ CanLock(s)
        /\ Panic(NoType(s) \/ t[s].type # T_DIR \/ (i # Null /\ TableFull(t, i)))
        /\ IF i = Null \/ Head(call[p].path) \in {".", ".."} THEN itable' = t /\ Return(p, <<s>>)
           ELSE /\ itable' = iget(held, i)
                /\ call' = [call EXCEPT ![p].at = "victim", ![p].dp = s, ![p].ip = Entry(held, i)]
        /\ UNCHANGED <<disk, fds>>

isdirempty(t, s) == \A n \in Names : dirlookup(t, s, n) = Null

UnlinkVictim(p) ==
    LET s == call[p].ip
        dp == call[p].dp
        isDir == ilock(s)[s].type = T_DIR
        t == [ilock(s) EXCEPT ![dp].nlink = IF isDir THEN @ - 1 ELSE @]
    IN  /\ At(p, "victim") /\ CanLock(s)
        /\ IF isDir /\ ~isdirempty(t, s)
           THEN /\ itable' = ilock(s)
                /\ call' = [call EXCEPT ![p] = [Idle EXCEPT !.at = "undo", !.dp = dp,
                                                            !.put = <<s>>]]
                /\ UNCHANGED disk
           ELSE /\ dir' = [dir EXCEPT ![t[dp].inum][Head(call[p].path)] = Null]
                /\ dinode' = iupdate(t, dp)
                /\ itable' = Hold(iunlock(t, dp), s, p)
                /\ call' = [call EXCEPT ![p] = [Idle EXCEPT !.at = "unlinked", !.ip = s,
                                                            !.put = <<dp>>]]
        /\ Panic(NoType(s) \/ t[s].nlink < 1)
        /\ UNCHANGED fds

Unlinked(p) ==
    LET s == call[p].ip
        t == [itable EXCEPT ![s].nlink = @ - 1]
    IN  /\ At(p, "unlinked")
        /\ dinode' = iupdate(t, s)
        /\ itable' = iunlock(t, s)
        /\ Return(p, <<s>>)
        /\ UNCHANGED <<dir, fds, panicked>>

-----------------------------------------------------------------------------
(***************************************************************************)
(* link(), chdir() and close()                                             *)
(***************************************************************************)
\* Mutant: the link is counted only once it has been made.
LinkUncounted(p) ==
    LET s == call[p].ip
        t == ilock(s)
    IN  /\ Found(p, {"link"}) /\ call[p].old = Null /\ CanLock(s)
        /\ IF t[s].type = T_DIR THEN itable' = t /\ Return(p, <<s>>)
           ELSE /\ itable' = Start(t, p, call[p].new)
                /\ call' = [call EXCEPT ![p].at = "namex", ![p].old = s,
                                        ![p].ip = From(t, p, call[p].new),
                                        ![p].path = Elems(call[p].new), ![p].parent = TRUE]
        /\ Panic(NoType(s))
        /\ UNCHANGED <<disk, fds>>

\* The link is counted first; then the new path is looked up.
Link(p) ==
    LET s == call[p].ip
        t == ilock(s)
        n == [t EXCEPT ![s].nlink = @ + 1]
    IN  /\ Found(p, {"link"}) /\ call[p].old = Null /\ CanLock(s)
        /\ IF t[s].type = T_DIR THEN itable' = t /\ Return(p, <<s>>) /\ UNCHANGED dinode
           ELSE /\ dinode' = iupdate(n, s)
                /\ itable' = Start(n, p, call[p].new)
                /\ call' = [call EXCEPT ![p].at = "namex", ![p].old = s,
                                        ![p].ip = From(n, p, call[p].new),
                                        ![p].path = Elems(call[p].new), ![p].parent = TRUE]
        /\ Panic(NoType(s))
        /\ UNCHANGED <<dir, fds>>

\* dirlink() fails if the name exists or there is no block for it.
Dirlink(p) ==
    LET s == call[p].ip
        t == ilock(s)
        name == Head(call[p].path)
    IN  /\ Found(p, {"link"}) /\ call[p].old # Null /\ CanLock(s)
        /\ itable' = t
        /\ \/ NotFound(p, <<s>>) /\ UNCHANGED dir
           \/ /\ dirlookup(t, s, name) = Null
              /\ dir' = dirlink(dir, t, s, name, t[call[p].old].inum)
              /\ Return(p, <<s, call[p].old>>)
        /\ Panic(NoType(s) \/ t[s].type # T_DIR)
        /\ UNCHANGED <<dinode, fds>>

LinkBad(p) ==
    LET s == call[p].ip
        t == [ilock(s) EXCEPT ![s].nlink = @ - 1]
    IN  /\ At(p, "bad") /\ CanLock(s)
        /\ dinode' = iupdate(t, s)
        /\ itable' = t
        /\ Return(p, <<s>>)
        /\ Panic(NoType(s))
        /\ UNCHANGED <<dir, fds>>

Chdir(p) ==
    LET s == call[p].ip
        t == ilock(s)
    IN  /\ Found(p, {"chdir"}) /\ CanLock(s)
        /\ itable' = t
        /\ IF t[s].type # T_DIR THEN Return(p, <<s>>) /\ UNCHANGED cwd
           ELSE Return(p, <<cwd[p]>>) /\ cwd' = [cwd EXCEPT ![p] = s]
        /\ Panic(NoType(s))
        /\ UNCHANGED <<disk, ofile>>

\* fileclose() of the last descriptor of a file.
Close(p) ==
    /\ At(p, "user") /\ ofile[p] # Null
    /\ ofile' = [ofile EXCEPT ![p] = Null]
    /\ Return(p, <<ofile[p]>>)
    /\ UNCHANGED <<disk, itable, cwd, panicked>>

-----------------------------------------------------------------------------
Step(p) ==
    \/ Iput(p) \/ IputFree(p) \/ IputUnlock(p) \/ IputDrop(p)
    \/ Namex(p) \/ NamexNoParent(p)
    \/ OpenFound(p) \/ Create(p) \/ CreateExists(p) \/ CreateLink(p) \/ CreateFails(p)
    \/ Created(p) \/ Undo(p) \/ Unlink(p) \/ UnlinkVictim(p) \/ Unlinked(p)
    \/ Link(p) \/ Dirlink(p) \/ LinkBad(p) \/ Chdir(p)

Next == \E p \in Procs : Step(p) \/ Close(p) \/ \E c \in Calls : Begin(p, c)

Spec == Init /\ [][Next]_vars

-----------------------------------------------------------------------------
\* How many pointers to entry s a process has in its call.
Locals(p, s) ==
    LET c == call[p]
        held == <<c.ip, c.dp, c.old>> \o c.put
    IN  Cardinality({k \in DOMAIN held : held[k] = s})

\* An entry's count is the number of pointers to it: current directories,
\* open files and variables of calls under way.  So an entry is recycled
\* when, and only when, nothing points to it, whichever way calls fail.
RefsCounted ==
    \A s \in Slots :
        itable[s].ref = Cardinality({p \in Procs : cwd[p] = s})
                        + Cardinality({p \in Procs : ofile[p] = s})
                        + MapThenSumSet(LAMBDA p : Locals(p, s), Procs)

\* No inode is in the table twice, and an entry that is valid and unlocked
\* agrees with the inode on disk.
OneCopy ==
    \A s \in Slots : itable[s].ref > 0 =>
        /\ Hit(itable, itable[s].inum) = {s}
        /\ itable[s].valid /\ CanLock(s) =>
               dinode[itable[s].inum] = [type |-> itable[s].type, nlink |-> itable[s].nlink]

\* Each name in a directory leads to an inode that is allocated and whose
\* link count covers all its names, at every moment and not only between
\* calls; so no inode is freed while it has a name.
NamesHold ==
    LET links == {l \in Inums \X Names : dir[l[1]][l[2]] # Null}
    IN  \A l \in links :
            LET i == dir[l[1]][l[2]]
            IN  /\ dinode[i].type # T_FREE
                /\ dinode[i].nlink >= Cardinality({k \in links : dir[k[1]][k[2]] = i})

\* The inode p is about to lock, or Null.
Wants(p) ==
    IF call[p].put = <<>> /\ call[p].ip # Null /\ itable[call[p].ip].lock # NoProc
       /\ call[p].at \notin {"created", "unlinked"}
    THEN call[p].ip ELSE Null
WaitsFor(p, q) == Wants(p) # Null /\ itable[Wants(p)].lock = q

\* unlink() and create() wait for an inode with its directory locked; yet
\* processes never wait for each other's locks in a circle.
NoCircularWait ==
    \A group \in SUBSET Procs \ {{}} : \E p \in group : \A q \in group : ~WaitsFor(p, q)

\* No panic: not iget()'s or ilock()'s, not "dirlookup not DIR" or "unlink:
\* nlink < 1"; and the acquiresleep() in iput() never waits.
NoPanic == ~panicked
=============================================================================
