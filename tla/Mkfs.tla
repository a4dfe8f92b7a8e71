-------------------------------- MODULE Mkfs --------------------------------
(***************************************************************************)
(* The file system image that user/mkfs/main.c builds, and the on-disk     *)
(* structures of fs/defines.h.  Sizes and offsets are counted in units of  *)
(* one directory entry; a unit of a block is zero, an entry, a value of a  *)
(* file or, in an indirect block, an address.                              *)
(***************************************************************************)
EXTENDS Integers, SequencesExt

CONSTANTS
    FSSIZE, NINODES, LOGSIZE,    \* blocks, inodes, log blocks
    BSIZE,                       \* units in a block
    BITS,                        \* bits of a bitmap block
    IPB,                         \* inodes in a block
    NDIRECT, NINDIRECT           \* addresses in an inode and indirect block

ninodeblocks == NINODES \div IPB + 1
nbitmap == FSSIZE \div BITS + 1
nmeta == 2 + LOGSIZE + ninodeblocks + nbitmap

ASSUME MkfsAssumption ==
    /\ {FSSIZE, NINODES, LOGSIZE, BSIZE, BITS, IPB, NDIRECT, NINDIRECT}
         \subseteq Nat \ {0}
    /\ NINDIRECT <= BSIZE /\ FSSIZE <= BITS /\ nmeta < FSSIZE

Ino == 1..NINODES
DataBlock == nmeta..(FSSIZE - 1)

Zero == <<"zero", 0>>
DirEntry(name, ino) == <<"dir", name, ino>>
Addr(b) == <<"addr", b>>
AddrOf(u) == IF u[1] = "addr" THEN u[2] ELSE 0

ZeroBlock == [o \in 0..(BSIZE - 1) |-> Zero]
NoEntry == [type |-> "INVALID", links |-> 0, size |-> 0, indirect |-> 0,
            addrs |-> [i \in 0..(NDIRECT - 1) |-> 0]]

\* ialloc: the next inode, with one link.
ialloc(img, type) ==
    [img EXCEPT !.freeinode = @ + 1,
        !.inode[img.freeinode] = [NoEntry EXCEPT !.type = type, !.links = 1]]

\* iappend, for one unit: what is missing on the way to its block is taken
\* from the free blocks in order.
iappend(img, inum, u) ==
    LET din    == img.inode[inum]
        fbn    == din.size \div BSIZE
        direct == fbn < NDIRECT
        grow   == ~direct /\ din.indirect = 0
        ind    == IF grow THEN img.freeblock ELSE din.indirect
        free   == img.freeblock + (IF grow THEN 1 ELSE 0)
        old    == IF direct THEN din.addrs[fbn]
                  ELSE AddrOf(img.block[ind][fbn - NDIRECT])
        x      == IF old = 0 THEN free ELSE old
        linked == IF direct THEN img.block
                  ELSE [img.block EXCEPT ![ind][fbn - NDIRECT] = Addr(x)]
        din2   == IF direct THEN [din EXCEPT !.addrs[fbn] = x]
                  ELSE [din EXCEPT !.indirect = ind]
    IN  [img EXCEPT
            !.freeblock = IF old = 0 THEN free + 1 ELSE free,
            !.block = [linked EXCEPT ![x][din.size % BSIZE] = u],
            !.inode[inum] = [din2 EXCEPT !.size = @ + 1]]

\* One file of the command line.
AddFile(img, f) ==
    LET inum   == img.freeinode
        named  == iappend(ialloc(img, "REGULAR"), 1, DirEntry(f.name, inum))
    IN  FoldLeft(LAMBDA i, u : iappend(i, inum, u), named, f.data)

\* The size of the root directory is made a multiple of the block size.
FixRoot(img) == [img EXCEPT !.inode[1].size = (@ \div BSIZE + 1) * BSIZE]

\* balloc marks the blocks below freeblock.
balloc(img) == [inode |-> img.inode, block |-> img.block,
                bitmap |-> 0..(img.freeblock - 1)]

\* main: the root directory with its two entries, then the files.
Image(files) ==
    LET blank == [inode |-> [i \in Ino |-> NoEntry],
                  block |-> [b \in DataBlock |-> ZeroBlock],
                  freeinode |-> 1, freeblock |-> nmeta]
        root  == iappend(iappend(ialloc(blank, "DIRECTORY"),
                                 1, DirEntry(".", 1)), 1, DirEntry("..", 1))
    IN  balloc(FixRoot(FoldLeft(AddFile, root, files)))
=============================================================================
