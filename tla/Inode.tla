-------------------------------- MODULE Inode --------------------------------
(***************************************************************************)
(* The inodes of fs/inode.c over the block allocator of fs/cache.c, on the *)
(* image that mkfs built.  The cache is taken as what it promises: between *)
(* acquire and release a process has a block to itself, so what is done to *)
(* one block in between is one step; and an atomic operation reaches the   *)
(* disk as a whole (Log), so a crash falls between operations.             *)
(*                                                                         *)
(* The callers follow inode.h and the tests of the repository: a process   *)
(* creates, opens or unlinks a file by its name in the root directory, or  *)
(* writes, clears, shares or closes the file it has open.  todo[p] is the  *)
(* rest of the calls p is in, innermost first.                             *)
(***************************************************************************)
EXTENDS Mkfs, FiniteSetsExt

CONSTANTS
    Proc, None,
    Files,      \* the files mkfs puts into the image
    Names,      \* the names processes use
    Val,        \* the values they write
    MaxFile,    \* bound: how long the callers make a file
    Slots,      \* bound: in-memory inodes, 1..n
    MaxOps      \* bound: calls the processes make in all

ASSUME InodeAssumption ==
    /\ None \notin Proc
    /\ 1 \in Slots /\ Slots \subseteq Nat
    /\ MaxFile <= (NDIRECT + NINDIRECT) * BSIZE

VARIABLES
    inode, block, bitmap,   \* the disk as the cache shows it
    list,                   \* the in-memory inodes in the list, from its head
    obj,                    \* obj[s]: an in-memory inode
    todo,                   \* the calls a process is in
    handle,                 \* the in-memory inode a process has, and shared
    panic,                  \* an assertion failed, a PANIC was reached, or an
                            \* inode is in use that is about to be freed
    text,                   \* history: what each file was made to hold
    ops                     \* calls left to make

disk == <<inode, block, bitmap>>
vars == <<inode, block, bitmap, list, obj, todo, handle, panic, text,
          ops>>

RootSlot == 1
NoObj == [no |-> 0, rc |-> 0, valid |-> FALSE, holder |-> None,
          entry |-> NoEntry]
NoHandle == [slot |-> None, shared |-> FALSE]

-----------------------------------------------------------------------------
\* Reading.

\* The address inode_map finds for a block of a file, 0 if it has none.
Mapped(e, bn) ==
    IF bn < NDIRECT THEN e.addrs[bn]
    ELSE IF e.indirect = 0 THEN 0 ELSE AddrOf(block[e.indirect][bn - NDIRECT])

\* inode_read of the unit at off.
UnitAt(e, off) ==
    IF Mapped(e, off \div BSIZE) = 0 THEN None
    ELSE block[Mapped(e, off \div BSIZE)][off % BSIZE]

Contents(e) == [o \in 1..e.size |-> UnitAt(e, o - 1)]

\* inode_lookup: the offset of the entry of a name, None if there is none.
Lookup(e, name) ==
    LET hits == {o \in 0..(e.size - 1) : UnitAt(e, o)[1] = "dir"
                                         /\ UnitAt(e, o)[2] = name}
    IN  IF hits = {} THEN None ELSE Min(hits)

\* inode_insert's place: the first free entry, or the end.
FreeEntry(e) ==
    Min({o \in 0..(e.size - 1) : UnitAt(e, o) = Zero} \cup {e.size})

-----------------------------------------------------------------------------
Init ==
    /\ LET img == Image(Files)
       IN  /\ inode = img.inode /\ block = img.block /\ bitmap = img.bitmap
           /\ list = <<RootSlot>>
           /\ obj = [s \in Slots |->
                       IF s # RootSlot THEN NoObj
                       ELSE [no |-> 1, rc |-> 1, valid |-> TRUE,
                             holder |-> None, entry |-> img.inode[1]]]
    /\ todo = [p \in Proc |-> <<>>]
    /\ handle = [p \in Proc |-> NoHandle]
    /\ panic = FALSE /\ ops = MaxOps
    /\ text = [i \in Ino |-> Contents(inode[i])]

At(p, call) == todo[p] # <<>> /\ Head(todo[p])[1] = call
Arg(p, i) == Head(todo[p])[i]
\* The call at hand is replaced by the calls it makes.
Calls(p, cs) == todo' = [todo EXCEPT ![p] = cs \o Tail(@)]
Return(p) == Calls(p, <<>>)
Slot(p, t) == IF t = "root" THEN RootSlot ELSE handle[p].slot
Panic == panic' = TRUE /\ UNCHANGED <<disk, list, obj, todo, handle, text>>

\* The file as write, with us from off on, makes it.
Overwritten(t, off, us) ==
    [o \in 1..Max({Len(t), off + Len(us)}) |->
        IF o > off /\ o <= off + Len(us) THEN us[o - off] ELSE t[o]]

-----------------------------------------------------------------------------
\* The block allocator.

\* cache_alloc sets the first clear bit; bzero follows.
CacheAlloc(p) ==
    LET free == (0..(FSSIZE - 1)) \ bitmap
    IN  /\ At(p, "alloc")
        /\ IF free = {} THEN Panic
           ELSE /\ bitmap' = bitmap \cup {Min(free)}
                /\ Calls(p, << <<"bzero", Arg(p, 2), Arg(p, 3), Min(free)>> >>)
                /\ UNCHANGED <<inode, block, list, obj, handle, panic, text>>

\* Mutant: the new block keeps what it held.
Unzeroed(b) == block[b]

\* bzero.
Zeroed(b) == ZeroBlock

\* The new block is zeroed, and inode_map enters its address in the inode or
\* in the indirect block.
Bzero(p) ==
    LET s == Slot(p, Arg(p, 2)) dest == Arg(p, 3) b == Arg(p, 4)
        zeroed == [block EXCEPT ![b] = Zeroed(b)]
    IN  /\ At(p, "bzero")
        /\ block' = IF dest[1] # "entry" THEN zeroed
                    ELSE [zeroed EXCEPT ![obj[s].entry.indirect][dest[2]] = Addr(b)]
        /\ obj' = CASE dest[1] = "direct" -> [obj EXCEPT ![s].entry.addrs[dest[2]] = b]
                    [] dest[1] = "indirect" -> [obj EXCEPT ![s].entry.indirect = b]
                    [] OTHER -> obj
        /\ Return(p)
        /\ UNCHANGED <<inode, bitmap, list, handle, panic, text>>

\* cache_free, of a bit that must be set.
Free(b) == bitmap' = bitmap \ {b}

-----------------------------------------------------------------------------
\* Inodes.

\* The on-disk inode after inode_sync with do_write.
Synced(o) == IF o.valid THEN [inode EXCEPT ![o.no] = o.entry] ELSE inode

\* inode_alloc looks at one inode after the other, up to and with num_inodes.
InodeAlloc(p) ==
    LET i == Arg(p, 2)
    IN  /\ At(p, "ialloc")
        /\ IF i > NINODES THEN Panic
           ELSE IF inode[i].type # "INVALID"
           THEN /\ Calls(p, << <<"ialloc", i + 1>> >>)
                /\ UNCHANGED <<disk, list, obj, handle, panic, text>>
           ELSE /\ inode' = [inode EXCEPT ![i] = [NoEntry EXCEPT !.type = "REGULAR"]]
                /\ text' = [text EXCEPT ![i] = <<>>]
                /\ Calls(p, << <<"get", i>> >>)
                /\ UNCHANGED <<block, bitmap, list, obj, handle, panic>>

\* Mutant: an inode in use is not looked for.
InUseNever(i) == {}

\* The in-memory inode of a number that is in use.
InUse(i) == {s \in ToSet(list) : obj[s].no = i /\ obj[s].rc > 0}

\* inode_get, under the lock of the list: the inode in use, or else the first
\* one without references, or else a new one at the head of the list, is given
\* the number and read from the disk.  An inode that inode_put has marked free
\* on disk and not yet taken from the list is found too, and freed under its
\* new user: what follows is undefined, and the model stops.
InodeGet(p) ==
    LET i == Arg(p, 2)
        Empty == {k \in 1..Len(list) : obj[list[k]].rc = 0}
        fresh == Slots \ ToSet(list)
        s == IF InUse(i) # {} THEN CHOOSE x \in InUse(i) : TRUE
             ELSE IF Empty # {} THEN list[Min(Empty)] ELSE Min(fresh)
    IN  /\ At(p, "get")
        /\ IF i >= NINODES \/ \E x \in InUse(i) : ~obj[x].valid THEN Panic
           ELSE /\ obj' = IF InUse(i) # {} THEN [obj EXCEPT ![s].rc = @ + 1]
                          ELSE [obj EXCEPT ![s] = [@ EXCEPT !.no = i, !.rc = @ + 1,
                                   !.valid = TRUE, !.entry = inode[i]]]
                /\ list' = IF InUse(i) = {} /\ Empty = {} THEN <<s>> \o list ELSE list
                /\ handle' = [handle EXCEPT ![p].slot = s]
                /\ Return(p)
                /\ UNCHANGED <<disk, panic, text>>

\* inode_lock and inode_unlock.  A kill ends the wait for the lock, which the
\* code asserts not to happen.
InodeLock(p) ==
    LET s == Slot(p, Arg(p, 2))
    IN  /\ At(p, "lock")
        /\ \/ /\ obj[s].holder = None
              /\ obj' = [obj EXCEPT ![s].holder = p]
              /\ Return(p)
              /\ UNCHANGED <<disk, list, handle, panic, text>>
           \/ obj[s].holder # None /\ Panic

InodeUnlock(p) ==
    /\ At(p, "unlock")
    /\ obj' = [obj EXCEPT ![Slot(p, Arg(p, 2))].holder = None]
    /\ Return(p)
    /\ UNCHANGED <<disk, list, handle, panic, text>>

\* inode_share.
InodeShare(p) ==
    /\ At(p, "share")
    /\ obj' = [obj EXCEPT ![handle[p].slot].rc = @ + 1]
    /\ handle' = [handle EXCEPT ![p].shared = TRUE]
    /\ Return(p)
    /\ UNCHANGED <<disk, list, panic, text>>

\* inode_clear: one block is freed in a step; the addresses in the indirect
\* block stay as they are.
InodeClear(p) ==
    LET t == Arg(p, 2) k == Arg(p, 3)
        s == Slot(p, t)
        e == obj[s].entry
        left == {n \in k..(NDIRECT + NINDIRECT - 1) : Mapped(e, n) # 0}
        next == Min(left)
        b == IF left # {} THEN Mapped(e, next) ELSE e.indirect
        end == [e EXCEPT !.size = 0]
    IN  /\ At(p, "clear")
        /\ IF b # 0
           THEN IF b \notin bitmap THEN Panic
                ELSE /\ Free(b)
                     /\ obj' = IF left = {} THEN [obj EXCEPT ![s].entry.indirect = 0]
                               ELSE IF next < NDIRECT
                               THEN [obj EXCEPT ![s].entry.addrs[next] = 0] ELSE obj
                     /\ Calls(p, << <<"clear", t, IF left = {} THEN k ELSE next + 1>> >>)
                     /\ UNCHANGED <<inode, block, list, handle, panic, text>>
           ELSE /\ obj' = [obj EXCEPT ![s].entry = end]
                /\ inode' = Synced(obj'[s])
                /\ Return(p)
                /\ UNCHANGED <<block, bitmap, list, handle, panic, text>>

\* Mutant: other references are not looked at.
LastUncounted(o) == o.entry.links = 0

\* inode_put frees an inode with its last reference when nothing links to it.
LastReference(o) == o.rc = 1 /\ o.entry.links = 0

InodePut(p) ==
    LET s == handle[p].slot
    IN  /\ At(p, "put")
        /\ IF ~obj[s].valid THEN Panic
           ELSE IF LastReference(obj[s])
           THEN /\ obj[s].holder = None
                /\ obj' = [obj EXCEPT ![s].holder = p]
                /\ Calls(p, << <<"clear", "file", 0>>, <<"invalidate">>, <<"drop">> >>)
                /\ UNCHANGED <<disk, list, handle, panic, text>>
           ELSE /\ obj' = [obj EXCEPT ![s].rc = @ - 1]
                /\ handle' = [handle EXCEPT ![p] =
                                IF @.shared THEN [@ EXCEPT !.shared = FALSE]
                                ELSE NoHandle]
                /\ Return(p)
                /\ UNCHANGED <<disk, list, panic, text>>

\* The type is set to INVALID and written.
InodeInvalidate(p) ==
    LET s == handle[p].slot
        gone == [obj[s] EXCEPT !.entry.type = "INVALID"]
    IN  /\ At(p, "invalidate")
        /\ inode' = Synced(gone)
        /\ obj' = [obj EXCEPT ![s] = [gone EXCEPT !.valid = FALSE, !.holder = None]]
        /\ text' = [text EXCEPT ![gone.no] = <<>>]
        /\ Return(p)
        /\ UNCHANGED <<block, bitmap, list, handle, panic>>

\* The in-memory inode leaves the list and is freed.
InodeDrop(p) ==
    LET s == handle[p].slot
    IN  /\ At(p, "drop")
        /\ list' = SelectSeq(list, LAMBDA x : x # s)
        /\ obj' = [obj EXCEPT ![s] = NoObj]
        /\ handle' = [handle EXCEPT ![p] = NoHandle]
        /\ Return(p)
        /\ UNCHANGED <<disk, panic, text>>

\* Mutant: the new size stays in memory.
GrownUnsynced(o) == inode
\* The inode on disk after a write has made the file longer.
Grown(o) == Synced(o)

\* One turn of inode_write's loop: inode_map asks for the block that is
\* missing, or a block is written; at the end the size.
InodeWrite(p) ==
    LET t == Arg(p, 2) off == Arg(p, 3) us == Arg(p, 4)
        s == Slot(p, t)
        e == obj[s].entry
        bn == off \div BSIZE
        b == Mapped(e, bn)
        at == off % BSIZE
        m == Min({Len(us), BSIZE - at})
        missing == IF bn < NDIRECT THEN <<"direct", bn>>
                   ELSE IF e.indirect = 0 THEN <<"indirect">>
                   ELSE <<"entry", bn - NDIRECT>>
    IN  /\ At(p, "write")
        /\ IF us = <<>>
           THEN /\ obj' = IF off > e.size THEN [obj EXCEPT ![s].entry.size = off] ELSE obj
                /\ inode' = IF off > e.size THEN Grown(obj'[s]) ELSE inode
                /\ Return(p)
                /\ UNCHANGED <<block, bitmap>>
           ELSE IF b = 0
           THEN /\ Calls(p, << <<"alloc", t, missing>>, Head(todo[p]) >>)
                /\ UNCHANGED <<disk, obj>>
           ELSE /\ block' = [block EXCEPT ![b] =
                      [o \in DOMAIN @ |->
                         IF o \in at..(at + m - 1) THEN us[o - at + 1] ELSE @[o]]]
                /\ Calls(p, << <<"write", t, off + m, SubSeq(us, m + 1, Len(us))>> >>)
                /\ UNCHANGED <<inode, bitmap, obj>>
        /\ UNCHANGED <<list, handle, panic, text>>

\* inode_insert looks for the name first and returns -1 when it is there: the
\* caller then gives the new inode up.
InodeInsert(p) ==
    LET e == obj[RootSlot].entry
        new == <<DirEntry(Arg(p, 2), obj[handle[p].slot].no)>>
    IN  /\ At(p, "insert")
        /\ IF Lookup(e, Arg(p, 2)) # None
           THEN /\ todo' = [todo EXCEPT ![p] = << <<"unlock", "root">>,
                    <<"lock", "file">>, <<"link", 0>>, <<"unlock", "file">>,
                    <<"put">> >>]
                /\ UNCHANGED <<panic, text>>
           ELSE IF FreeEntry(e) >= (NDIRECT + NINDIRECT) * BSIZE
           THEN panic' = TRUE /\ UNCHANGED <<todo, text>>
           ELSE /\ Calls(p, << <<"write", "root", FreeEntry(e), new>> >>)
                /\ text' = [text EXCEPT ![1] = Overwritten(@, FreeEntry(e), new)]
                /\ UNCHANGED panic
        /\ UNCHANGED <<disk, list, obj, handle>>

-----------------------------------------------------------------------------
\* The callers.
Idle(p) == todo[p] = <<>>
Start(p, calls) ==
    /\ todo' = [todo EXCEPT ![p] = calls]
    /\ ops > 0 /\ ops' = ops - 1
    /\ UNCHANGED <<disk, list, obj, handle, panic, text>>

Create(p, n) ==
    /\ Idle(p) /\ handle[p] = NoHandle
    /\ Start(p, << <<"ialloc", 1>>, <<"lock", "file">>, <<"link", 1>>,
                   <<"unlock", "file">>, <<"lock", "root">>, <<"insert", n>>,
                   <<"unlock", "root">> >>)

\* The inode of a name is got while the directory is locked.
Open(p, n) ==
    /\ Idle(p) /\ handle[p] = NoHandle
    /\ Start(p, << <<"lock", "root">>, <<"open", n>>, <<"unlock", "root">> >>)

Unlink(p, n) ==
    /\ Idle(p) /\ handle[p] = NoHandle
    /\ Start(p, << <<"lock", "root">>, <<"remove", n>> >>)

Edit(p) ==
    /\ Idle(p) /\ handle[p] # NoHandle
    /\ Start(p, << <<"lock", "file">>, <<"edit">>, <<"unlock", "file">> >>)

Share(p) ==
    /\ Idle(p) /\ handle[p] # NoHandle /\ ~handle[p].shared
    /\ Start(p, << <<"share">> >>)

Close(p) ==
    /\ Idle(p) /\ handle[p] # NoHandle
    /\ Start(p, << <<"put">> >>)

OpenFile(p) ==
    LET e == obj[RootSlot].entry
        o == Lookup(e, Arg(p, 2))
    IN  /\ At(p, "open")
        /\ IF o = None THEN Return(p) ELSE Calls(p, << <<"get", UnitAt(e, o)[3]>> >>)
        /\ UNCHANGED <<disk, list, obj, handle, panic, text>>

\* inode_lookup, inode_remove, then the last link goes.
RemoveFile(p) ==
    LET e == obj[RootSlot].entry
        o == Lookup(e, Arg(p, 2))
    IN  /\ At(p, "remove")
        /\ IF o = None
           THEN Calls(p, << <<"unlock", "root">> >>) /\ UNCHANGED text
           ELSE /\ Calls(p, << <<"write", "root", o, <<Zero>> >>, <<"get", UnitAt(e, o)[3]>>,
                      <<"unlock", "root">>, <<"lock", "file">>, <<"link", 0>>,
                      <<"unlock", "file">>, <<"put">> >>)
                /\ text' = [text EXCEPT ![1] = Overwritten(@, o, <<Zero>>)]
        /\ UNCHANGED <<disk, list, obj, handle, panic>>

\* The caller changes num_links and calls inode_sync.
SetLinks(p) ==
    LET s == handle[p].slot
    IN  /\ At(p, "link")
        /\ obj' = [obj EXCEPT ![s].entry.links = Arg(p, 2)]
        /\ inode' = Synced(obj'[s])
        /\ Return(p)
        /\ UNCHANGED <<block, bitmap, list, handle, panic, text>>

\* A write at an offset up to the size, or inode_clear.
EditFile(p) ==
    LET o == obj[handle[p].slot]
        size == o.entry.size
    IN  /\ At(p, "edit")
        /\ \/ \E off \in 0..size, c \in 1..BSIZE, v \in Val :
                LET us == [k \in 1..c |-> <<"data", v>>]
                IN  /\ off + c <= MaxFile
                    /\ Calls(p, << <<"write", "file", off, us>> >>)
                    /\ text' = [text EXCEPT ![o.no] = Overwritten(@, off, us)]
           \/ /\ size > 0
              /\ Calls(p, << <<"clear", "file", 0>> >>)
              /\ text' = [text EXCEPT ![o.no] = <<>>]
        /\ UNCHANGED <<disk, list, obj, handle, panic>>

\* A restart between operations: init_inodes gets the root inode.
Crash ==
    /\ \A p \in Proc : Idle(p)
    /\ \E p \in Proc : handle[p] # NoHandle
    /\ list' = <<RootSlot>>
    /\ obj' = [s \in Slots |-> IF s # RootSlot THEN NoObj
                 ELSE [NoObj EXCEPT !.no = 1, !.rc = 1, !.valid = TRUE,
                                    !.entry = inode[1]]]
    /\ handle' = [p \in Proc |-> NoHandle]
    /\ UNCHANGED <<disk, todo, panic, text>>

Call(p) ==
    \/ \E n \in Names : Create(p, n) \/ Open(p, n) \/ Unlink(p, n)
    \/ Edit(p) \/ Share(p) \/ Close(p)

Step(p) ==
    \/ CacheAlloc(p) \/ Bzero(p) \/ InodeAlloc(p) \/ InodeGet(p)
    \/ InodeLock(p) \/ InodeUnlock(p) \/ InodeShare(p) \/ InodeClear(p)
    \/ InodePut(p) \/ InodeInvalidate(p) \/ InodeDrop(p) \/ InodeWrite(p)
    \/ InodeInsert(p) \/ OpenFile(p) \/ RemoveFile(p) \/ SetLinks(p)
    \/ EditFile(p)

Next ==
    /\ ~panic
    /\ \/ \E p \in Proc : Call(p) \/ (Step(p) /\ UNCHANGED ops)
       \/ Crash /\ UNCHANGED ops

Spec == Init /\ [][Next]_vars

-----------------------------------------------------------------------------
\* Properties.

\* The disk, the in-memory inodes and the handles keep their types, and no
\* handle is on an in-memory inode that was freed.
TypeOK ==
    /\ \A i \in Ino : /\ inode[i].type \in {"INVALID", "REGULAR", "DIRECTORY"}
                      /\ inode[i].size \in 0..((NDIRECT + NINDIRECT) * BSIZE)
    /\ bitmap \subseteq 0..(FSSIZE - 1) /\ 0..(nmeta - 1) \subseteq bitmap
    /\ IsInjective(list) /\ ToSet(list) \subseteq Slots
    /\ \A p \in Proc : handle[p].slot \in ToSet(list) \cup {None}
    /\ \A s \in ToSet(list) : obj[s].holder \in Proc \cup {None}

\* The blocks an inode refers to, the indirect block included, as <<place, block>>.
Refs(e) ==
    {<<n, Mapped(e, n)>> : n \in {m \in 0..(NDIRECT + NINDIRECT - 1) : Mapped(e, m) # 0}}
      \cup (IF e.indirect = 0 THEN {} ELSE {<<-1, e.indirect>>})
AllRefs == UNION {{<<i>> \o r : r \in Refs(inode[i])} : i \in Ino}

\* Whenever no operation is in progress, so whatever a restart finds, the file
\* system is in order: a data block is marked in the bitmap exactly when one
\* place of one inode refers to it, the blocks up to the size of a file are
\* there, and a directory entry names an inode that is in use and has a link.
FsckClean ==
    (\A p \in Proc : Idle(p)) /\ ~panic =>
        /\ bitmap \cap DataBlock = {r[3] : r \in AllRefs}
        /\ Cardinality(AllRefs) = Cardinality(bitmap \cap DataBlock)
        /\ \A i \in Ino : /\ inode[i].type = "INVALID" => Refs(inode[i]) = {}
                          /\ \A o \in 0..(inode[i].size - 1) : UnitAt(inode[i], o) # None
        /\ \A o \in 0..(inode[1].size - 1) :
              LET u == UnitAt(inode[1], o)
              IN  u # Zero => inode[u[3]].type # "INVALID" /\ inode[u[3]].links > 0

\* A file has one in-memory inode however many processes use it, its reference
\* count is the number of references, and outside a critical section it agrees
\* with the inode on disk (inode_write need not write an inode back that it
\* did not make longer).
InodeCoherent ==
    \A s \in ToSet(list) : obj[s].rc > 0 =>
        /\ \A r \in ToSet(list) : obj[r].rc > 0 /\ obj[r].no = obj[s].no => r = s
        /\ obj[s].rc = (IF s = RootSlot THEN 1 ELSE 0)
             + Cardinality({p \in Proc : handle[p].slot = s})
             + Cardinality({p \in Proc : handle[p].slot = s /\ handle[p].shared})
        /\ obj[s].valid /\ obj[s].holder = None => obj[s].entry = inode[obj[s].no]

\* What inode_read gives is what was last written at each offset, through
\* direct and indirect blocks, also after other files were cleared and removed
\* and after a restart: the files nobody is writing hold what they were made
\* to hold.
ReadsLastWrite ==
    \A i \in Ino :
        (\A s \in ToSet(list) : obj[s].no = i /\ obj[s].rc > 0 => obj[s].holder = None)
        /\ inode[i].type # "INVALID" /\ ~panic
          => Contents(inode[i]) = text[i]
=============================================================================
