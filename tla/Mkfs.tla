-------------------------------- MODULE Mkfs --------------------------------
(***************************************************************************)
(* The file system image that mkfs/mkfs.c makes: a root directory and its  *)
(* files.  An image has the contents of the data blocks, the inodes and    *)
(* the first block and inode not yet used.  Blocks and their contents are  *)
(* numbers, and an indirect block has one block number in each byte, so    *)
(* NINDIRECT is BSIZE.                                                     *)
(***************************************************************************)
EXTENDS Integers, Sequences

CONSTANTS
    NBLOCKS,        \* data blocks 1..NBLOCKS follow the blocks for metadata
    NINODES,
    NDIRECT,
    BSIZE,          \* bytes of a block
    FileSizes       \* the sizes of the files given to mkfs

ROOTINO == 1
NINDIRECT == BSIZE
MAXFILE == NDIRECT + NINDIRECT
Blocks == 1..NBLOCKS
NoBlock == 0
Zeroes == [b \in 0..BSIZE - 1 |-> 0]
NoInode == [size |-> 0, addrs |-> [k \in 0..NDIRECT |-> NoBlock]]

\* main() up to its loop over the files.
Blank == [data |-> [b \in Blocks |-> Zeroes], inode |-> [i \in 1..NINODES |-> NoInode],
          freeblock |-> 1, freeinode |-> 1]

ialloc(g) == [g EXCEPT !.freeinode = @ + 1]

\* The block of iappend() for block fbn of inode i, allocated if need be.
BlockFor(g, i, fbn) ==
    IF fbn < NDIRECT THEN
        IF g.inode[i].addrs[fbn] # NoBlock THEN g
        ELSE [g EXCEPT !.inode[i].addrs[fbn] = g.freeblock, !.freeblock = @ + 1]
    ELSE
        LET h == IF g.inode[i].addrs[NDIRECT] # NoBlock THEN g
                 ELSE [g EXCEPT !.inode[i].addrs[NDIRECT] = g.freeblock, !.freeblock = @ + 1]
            ind == h.inode[i].addrs[NDIRECT]
        IN  IF h.data[ind][fbn - NDIRECT] # NoBlock THEN h
            ELSE [h EXCEPT !.data[ind][fbn - NDIRECT] = h.freeblock, !.freeblock = @ + 1]

\* Where block fbn of an inode is.
Place(data, inode, fbn) ==
    IF fbn < NDIRECT THEN inode.addrs[fbn]
    ELSE IF inode.addrs[NDIRECT] = NoBlock THEN NoBlock
    ELSE data[inode.addrs[NDIRECT]][fbn - NDIRECT]

\* The byte that is written at offset off of file i: it tells both.
Byte(i, off) == i * MAXFILE * BSIZE + off

\* iappend() of n bytes, one at a time.
RECURSIVE iappend(_, _, _)
iappend(g, i, n) ==
    IF n = 0 THEN g
    ELSE LET off == g.inode[i].size
             h == BlockFor(g, i, off \div BSIZE)
             x == Place(h.data, h.inode[i], off \div BSIZE)
         IN  iappend([h EXCEPT !.data[x][off % BSIZE] = Byte(i, off), !.inode[i].size = @ + 1], i, n - 1)

\* Each file has an inode and an entry, one byte long, in the root directory.
RECURSIVE AddFiles(_, _)
AddFiles(g, sizes) ==
    IF sizes = <<>> THEN g
    ELSE LET h == iappend(ialloc(g), ROOTINO, 1)
         IN  AddFiles(iappend(h, g.freeinode, Head(sizes)), Tail(sizes))

\* "fix size of root inode dir"
FixRoot(g) == [g EXCEPT !.inode[ROOTINO].size = ((@ \div BSIZE) + 1) * BSIZE]

\* The image, and the bitmap of balloc(freeblock).
Image == FixRoot(AddFiles(iappend(ialloc(Blank), ROOTINO, 2), FileSizes))
balloc(g) == 1..g.freeblock - 1
=============================================================================
