------------------------------ MODULE FileData ------------------------------
(***************************************************************************)
(* The contents of files: block allocation, bmap(), itrunc(), readi() and  *)
(* writei() of kernel/fs.c, the table of open files of kernel/file.c with  *)
(* the offset that processes share, and the calls of kernel/sysfile.c that *)
(* use file descriptors.  The kernel starts from the image mkfs makes.     *)
(*                                                                         *)
(* A step is one turn of the loop of writei(), with the inode locked.      *)
(***************************************************************************)
EXTENDS Mkfs, FiniteSetsExt

CONSTANTS
    Procs,          \* processes
    NFILE,          \* entries of ftable
    NOFILE,         \* file descriptors of a process
    MAXOPBLOCKS,    \* blocks that a transaction may write
    UINT,           \* 2^32
    Counts          \* the counts that read() and write() are given

Files == 1..NFILE
Fds == 1..NOFILE
Inums == 1..NINODES
Null == 0
User == [at |-> "user", f |-> Null, n |-> 0, i |-> 0, n1 |-> 0, off |-> 0, tot |-> 0]

VARIABLES
    bitmap,     \* blocks marked in use
    data,       \* contents of blocks
    inode,      \* [size, addrs]
    lock,       \* who has the sleep-lock of each inode
    ftable,     \* open files: [ref, ip, off]
    ofile,      \* file descriptors
    call        \* where each process is in write(), and its local variables

vars == <<bitmap, data, inode, lock, ftable, ofile, call>>
fs == <<bitmap, data, inode, lock>>

-----------------------------------------------------------------------------
(***************************************************************************)
(* Functions of fs.c on s = [bitmap, data, inode] and inode i              *)
(***************************************************************************)
State == [bitmap |-> bitmap, data |-> data, inode |-> inode]

\* balloc() of the first free block, cleared; there must be one.
Full(s) == Blocks \subseteq s.bitmap
FirstFree(s) == Min(Blocks \ s.bitmap)
Allocate(s) == [s EXCEPT !.bitmap = @ \cup {FirstFree(s)}, !.data[FirstFree(s)] = Zeroes]

\* bmap(): block bn of inode i has a place afterwards, if there was room.
bmapEntry(s, i, k) ==
    IF s.inode[i].addrs[k] # NoBlock \/ Full(s) THEN s
    ELSE [Allocate(s) EXCEPT !.inode[i].addrs[k] = FirstFree(s)]

bmap(s, i, bn) ==
    LET t == bmapEntry(s, i, Min({bn, NDIRECT}))
        ind == t.inode[i].addrs[NDIRECT]
        k == bn - NDIRECT
    IN  IF bn < NDIRECT \/ ind = NoBlock THEN t
        ELSE IF t.data[ind][k] # NoBlock \/ Full(t) THEN t
        ELSE [Allocate(t) EXCEPT !.data[ind][k] = FirstFree(t)]

\* The blocks of an inode: its data and its indirect block.
BlocksOf(d, ip) ==
    ({Place(d, ip, bn) : bn \in 0..MAXFILE - 1} \cup {ip.addrs[NDIRECT]}) \ {NoBlock}

\* Blocks that are given back.
bfree(s, bs) == [s EXCEPT !.bitmap = @ \ bs]

\* Mutant: the indirect block is freed and the blocks it lists are not.
itruncEntries(s, i) ==
    [bfree(s, {s.inode[i].addrs[k] : k \in 0..NDIRECT}) EXCEPT !.inode[i] = NoInode]

itrunc(s, i) == [bfree(s, BlocksOf(s.data, s.inode[i])) EXCEPT !.inode[i] = NoInode]

Becomes(s) == bitmap' = s.bitmap /\ data' = s.data /\ inode' = s.inode

-----------------------------------------------------------------------------
Init ==
    /\ bitmap = balloc(Image) /\ data = Image.data /\ inode = Image.inode
    /\ lock = [i \in Inums |-> Null]
    /\ ftable = [f \in Files |-> [ref |-> 0, ip |-> Null, off |-> 0]]
    /\ ofile = [p \in Procs |-> [d \in Fds |-> Null]]
    /\ call = [p \in Procs |-> User]

(***************************************************************************)
(* File descriptors                                                        *)
(***************************************************************************)
\* argfd(): descriptor d of p is open.
argfd(p, d) == ofile[p][d] # Null

FreeFds(p) == {d \in Fds : ofile[p][d] = Null}
FreeFiles == {f \in Files : ftable[f].ref = 0}

\* sys_open() of a file for reading and writing, with its inode locked, once
\* filealloc() and fdalloc() have succeeded; O_TRUNC empties the file.
Open(p, i, trunc) ==
    /\ call[p].at = "user" /\ FreeFds(p) # {} /\ FreeFiles # {} /\ lock[i] = Null
    /\ ofile' = [ofile EXCEPT ![p][Min(FreeFds(p))] = Min(FreeFiles)]
    /\ ftable' = [ftable EXCEPT ![Min(FreeFiles)] = [ref |-> 1, ip |-> i, off |-> 0]]
    /\ Becomes(IF trunc THEN itrunc(State, i) ELSE State)
    /\ UNCHANGED <<lock, call>>

\* filedup() by every descriptor of a process.
filedup(t, p) ==
    [f \in Files |-> [t[f] EXCEPT !.ref = @ + Cardinality({d \in Fds : ofile[p][d] = f})]]

\* fork(): the child q has the descriptors of its parent.
Fork(p, q) ==
    /\ p # q /\ call[p].at = "user" /\ FreeFds(p) # Fds /\ FreeFds(q) = Fds
    /\ ofile' = [ofile EXCEPT ![q] = ofile[p]]
    /\ ftable' = filedup(ftable, p)
    /\ UNCHANGED <<fs, call>>

\* sys_close() and fileclose(); the last one puts the inode, which has names.
Close(p, d) ==
    /\ call[p].at = "user" /\ argfd(p, d)
    /\ ofile' = [ofile EXCEPT ![p][d] = Null]
    /\ ftable' = [ftable EXCEPT ![ofile[p][d]] =
          IF @.ref = 1 THEN [ref |-> 0, ip |-> Null, off |-> 0] ELSE [@ EXCEPT !.ref = @ - 1]]
    /\ UNCHANGED <<fs, call>>

(***************************************************************************)
(* fileread() and filewrite(); the count is an int, and readi() and        *)
(* writei() take it as a uint.                                             *)
(***************************************************************************)
readi(size, off, n) ==
    IF off > size \/ (off + n) % UINT < off THEN 0 ELSE Min({n, size - off})

\* A read that copies its bytes out.  readi() finds every block it asks bmap()
\* for (ReadsBack), so that it allocates none.
Read(p, d, n) ==
    LET f == ofile[p][d]
        i == ftable[f].ip
    IN  /\ call[p].at = "user" /\ argfd(p, d) /\ lock[i] = Null
        /\ ftable' = [ftable EXCEPT ![f].off = @ + readi(inode[i].size, @, n % UINT)]
        /\ UNCHANGED <<fs, ofile, call>>

Write(p, d, n) ==
    /\ call[p].at = "user" /\ argfd(p, d) /\ n > 0
    /\ call' = [call EXCEPT ![p] = [User EXCEPT !.at = "filewrite", !.f = ofile[p][d], !.n = n]]
    /\ UNCHANGED <<fs, ftable, ofile>>

\* The most that filewrite() gives writei() at a time.
max == ((MAXOPBLOCKS - 1 - 1 - 2) \div 2) * BSIZE

\* writei() returns -1.
writeiRefuses(size, off, n) ==
    off > size \/ (off + n) % UINT < off \/ off + n > MAXFILE * BSIZE

\* begin_op(), ilock() and the tests of writei().
WriteBegin(p) ==
    LET c == call[p]
        i == ftable[c.f].ip
        n1 == Min({c.n - c.i, max})
        off == ftable[c.f].off
    IN  /\ c.at = "filewrite" /\ lock[i] = Null
        /\ IF writeiRefuses(inode[i].size, off, n1) THEN call' = [call EXCEPT ![p] = User] /\ UNCHANGED lock
           ELSE /\ lock' = [lock EXCEPT ![i] = p]
                /\ call' = [call EXCEPT ![p] = [c EXCEPT !.at = "writei", !.n1 = n1, !.off = off]]
        /\ UNCHANGED <<bitmap, data, inode, ftable, ofile>>

\* A turn of the loop: k of the m bytes are copied, and fewer than m if the
\* user's page is missing; then, as without space, the loop ends.
WriteBlock(p, k) ==
    LET c == call[p]
        i == ftable[c.f].ip
        s == bmap(State, i, c.off \div BSIZE)
        b == Place(s.data, s.inode[i], c.off \div BSIZE)
        m == Min({c.n1 - c.tot, BSIZE - (c.off % BSIZE)})
        copied == {c.off + j : j \in 0..k - 1}
        first == c.off - (c.off % BSIZE)
    IN  /\ c.at = "writei" /\ c.tot < c.n1
        /\ IF b = NoBlock
           THEN /\ k = 0
                /\ Becomes(s)
                /\ call' = [call EXCEPT ![p].at = "writei done"]
           ELSE /\ k <= m
                /\ Becomes([s EXCEPT !.data[b] = [o \in DOMAIN @ |->
                                            IF first + o \in copied THEN Byte(i, first + o) ELSE @[o]]])
                /\ call' = [call EXCEPT ![p] = IF k = m THEN [c EXCEPT !.tot = @ + m, !.off = @ + m]
                                               ELSE [c EXCEPT !.at = "writei done"]]
        /\ UNCHANGED <<lock, ftable, ofile>>

\* The loop of filewrite() goes on unless writei() wrote less than n1 bytes.
NextPart(c) ==
    IF c.tot # c.n1 \/ c.i + c.tot = c.n THEN User
    ELSE [c EXCEPT !.at = "filewrite", !.i = @ + c.tot, !.n1 = 0, !.off = 0, !.tot = 0]

\* Mutant: the size grows by what was asked for.
WriteEndAll(p) ==
    LET c == call[p]
        i == ftable[c.f].ip
    IN  /\ c.at = "writei done" \/ (c.at = "writei" /\ c.tot = c.n1)
        /\ inode' = [inode EXCEPT ![i].size = Max({@, c.off - c.tot + c.n1})]
        /\ ftable' = [ftable EXCEPT ![c.f].off = @ + c.tot]
        /\ lock' = [lock EXCEPT ![i] = Null]
        /\ call' = [call EXCEPT ![p] = NextPart(c)]
        /\ UNCHANGED <<bitmap, data, ofile>>

\* The end of writei(), the shared offset, iunlock() and end_op().
WriteEnd(p) ==
    LET c == call[p]
        i == ftable[c.f].ip
    IN  /\ c.at = "writei done" \/ (c.at = "writei" /\ c.tot = c.n1)
        /\ inode' = [inode EXCEPT ![i].size = Max({@, c.off})]
        /\ ftable' = [ftable EXCEPT ![c.f].off = @ + c.tot]
        /\ lock' = [lock EXCEPT ![i] = Null]
        /\ call' = [call EXCEPT ![p] = NextPart(c)]
        /\ UNCHANGED <<bitmap, data, ofile>>

Step(p) ==
    \/ \E i \in Inums \ {ROOTINO}, trunc \in BOOLEAN : Open(p, i, trunc)
    \/ \E d \in Fds : Close(p, d)
    \/ \E q \in Procs : Fork(p, q)
    \/ \E d \in Fds, n \in Counts : Read(p, d, n) \/ Write(p, d, n)
    \/ WriteBegin(p)
    \/ \E k \in 0..BSIZE : WriteBlock(p, k)
    \/ WriteEnd(p)

Next == \E p \in Procs : Step(p)
Spec == Init /\ [][Next]_vars
-----------------------------------------------------------------------------
\* Where inode i keeps blocks: its data blocks and, last, its indirect block.
Slots == Inums \X (0..MAXFILE)
At(x) == IF x[2] = MAXFILE THEN inode[x[1]].addrs[NDIRECT] ELSE Place(data, inode[x[1]], x[2])

\* balloc(), bmap() and itrunc(), called by several processes until the disk is
\* full, keep every block in one place: a block is marked in use exactly when
\* one inode lists it, once.
BlocksAccounted ==
    LET used == {x \in Slots : At(x) # NoBlock}
    IN  {At(x) : x \in used} = bitmap /\ Cardinality(used) = Cardinality(bitmap)

\* readi() would return for each byte of a file the one that writei() put at
\* that offset of that file, whichever processes wrote to other files meanwhile
\* or truncated them, and however a write failed; in particular there is a
\* block for every byte below the size, so that a read allocates none.
ReadsBack ==
    \A i \in Inums : \A o \in 0..inode[i].size - 1 :
        LET b == Place(data, inode[i], o \div BSIZE)
        IN  b # NoBlock /\ (i # ROOTINO => data[b][o % BSIZE] = Byte(i, o))
=============================================================================
