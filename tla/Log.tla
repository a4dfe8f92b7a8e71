-------------------------------- MODULE Log --------------------------------
(***************************************************************************)
(* The atomic operations of src/src/fs/cache.c: begin_op, sync, end_op,    *)
(* the commit through the write-ahead log, and recovery after a crash.     *)
(*                                                                         *)
(* A step is what a thread does under log.lock, or one write to the disk   *)
(* (a block is one sector and is written whole or not at all).  The cache  *)
(* itself is abstract here: acquire locks a block and shows its cached     *)
(* content, and a pinned block stays cached.  The semaphores s1, s2 and s3 *)
(* start at 0 and are only posted to with post_all_sem, which wakes those  *)
(* in the sleeplist and leaves no unit behind (AbstractSemaphore), so a    *)
(* semaphore is the set of threads at its "in_" control point.             *)
(*                                                                         *)
(* Control points of a process:                                            *)
(*   "idle", "retry"              before begin_op; at the top of its loop  *)
(*   "wait_s1", "wait_s3"         in begin_op, log.lock released, before   *)
(*                                the wait; "in_s1", "in_s3" in the wait   *)
(*   "op"                         between begin_op and end_op              *)
(*   "post_s1", "wait_s2", "in_s2"   end_op, not the last operation        *)
(*   "write_log" ... "clear_header"  commit, in the last end_op            *)
(*   "commit_end", "post1", "post2", "post3"   the rest of that end_op     *)
(* Boot is the kernel's call of init_bcache; it goes through "read_header" *)
(* and the part of commit that recovery shares, and ends at "done".        *)
(***************************************************************************)
EXTENDS Integers, Sequences, FiniteSets

CONSTANTS
    Proc,           \* processes that run atomic operations
    Boot,           \* the thread that runs init_bcache
    Block,          \* the blocks outside the log
    Val, Blank,     \* block contents; Blank is what mkfs wrote
    OpMax,          \* OP_MAX_NUM_BLOCKS
    LogMax,         \* LOG_MAX_SIZE
    NumLogBlocks    \* sblock->num_log_blocks, the log header included

ASSUME LogAssumption ==
    /\ Boot \notin Proc
    /\ Blank \in Val
    /\ OpMax \in Nat \ {0}
    /\ LogMax \in Nat
    /\ NumLogBlocks \in Nat

Thread == Proc \cup {Boot}

VARIABLES
    home,          \* disk: the blocks outside the log
    slot,          \* disk: the blocks of the log after its header
    dheader,       \* disk: the log header, the block numbers logged
    header,        \* the in-memory log header
    data,          \* the content of a block as the cache shows it
    pinned,        \* the blocks with block->pinned
    committing, outstanding, op_reserved,     \* log
    pc,            \* where a thread is
    rm,            \* ctx->rm of a process's operation
    tail,          \* the loop index of write_log and install_trans, from 1
    mine           \* history: blocks of a process's operation not yet logged
                   \* on disk

diskState == <<home, slot, dheader>>
logVars == <<header, committing, outstanding, op_reserved>>
cacheVars == <<data, pinned>>
vars == <<diskState, logVars, cacheVars, pc, rm, tail, mine>>

Logged(h) == {h[i] : i \in 1..Len(h)}
Up == pc[Boot] = "done"

Init ==
    /\ home = [b \in Block |-> Blank]
    /\ slot = [i \in 1..LogMax |-> Blank]
    /\ dheader = <<>>
    /\ header = <<>>
    /\ data = home
    /\ pinned = {}
    /\ committing = FALSE /\ outstanding = 0 /\ op_reserved = 0
    /\ pc = [t \in Thread |-> IF t = Boot THEN "read_header" ELSE "idle"]
    /\ rm = [p \in Proc |-> 0]
    /\ tail = [t \in Thread |-> 1]
    /\ mine = [p \in Proc |-> {}]

Goto(t, l) == pc' = [pc EXCEPT ![t] = l]

-----------------------------------------------------------------------------
\* cache_begin_op's two reasons to wait, and what it does without one.
\* Mutant: a commit does not keep operations out.
ClosedNever == FALSE
Closed == committing
Full == Len(header) + op_reserved + OpMax > LogMax

Reserve(p, n) ==
    /\ rm' = [rm EXCEPT ![p] = n]
    /\ op_reserved' = op_reserved + n
    /\ Goto(p, "op")
    /\ UNCHANGED <<header, committing>>
\* Mutants: the operation is not counted; it gets one block too few.
AdmitUncounted(p) == UNCHANGED outstanding /\ Reserve(p, OpMax)
AdmitOneLess(p) == outstanding' = outstanding + 1 /\ Reserve(p, OpMax - 1)
Admit(p) == outstanding' = outstanding + 1 /\ Reserve(p, OpMax)

\* One turn of the loop in cache_begin_op, under log.lock.
Begin(p) ==
    /\ Up /\ pc[p] \in {"idle", "retry"}
    /\ \/ Closed /\ Goto(p, "wait_s3") /\ UNCHANGED <<logVars, rm>>
       \/ ~Closed /\ Full /\ Goto(p, "wait_s1") /\ UNCHANGED <<logVars, rm>>
       \/ ~Closed /\ ~Full /\ Admit(p)
    /\ mine' = [mine EXCEPT ![p] = {}]
    /\ UNCHANGED <<diskState, cacheVars, tail>>

\* unalertable_wait_sem of a semaphore whose val is not positive.
WaitSem(p) ==
    /\ \E s \in {<<"wait_s1", "in_s1">>, <<"wait_s2", "in_s2">>,
                 <<"wait_s3", "in_s3">>} : pc[p] = s[1] /\ Goto(p, s[2])
    /\ UNCHANGED <<diskState, logVars, cacheVars, rm, tail, mine>>

\* What post_all_sem makes of the others: those in the sleeplist go on at l.
Woken(s, l) == [t \in Thread |-> IF pc[t] = s THEN l ELSE pc[t]]

\* cache_sync's entry of a block that the header does not name yet.
\* Mutant: the block is not pinned.
LogBlockUnpinned(p, b) ==
    /\ header' = Append(header, b)
    /\ rm[p] > 0
    /\ rm' = [rm EXCEPT ![p] = @ - 1]
    /\ op_reserved' = op_reserved - 1
    /\ UNCHANGED <<pinned, pc>>

LogBlock(p, b) ==
    /\ header' = Append(header, b)
    /\ pinned' = pinned \cup {b}
    /\ IF rm[p] > 0
       THEN /\ rm' = [rm EXCEPT ![p] = @ - 1]
            /\ op_reserved' = op_reserved - 1
            /\ UNCHANGED pc
       ELSE Goto(p, "panic") /\ UNCHANGED <<rm, op_reserved>>

\* acquire, write, cache_sync with a context, release: nobody else sees the
\* block in between.  A caller keeps to OpMax blocks per operation.
Update(p, b, v) ==
    /\ pc[p] = "op"
    /\ Cardinality(mine[p] \cup {b}) <= OpMax
    /\ data' = [data EXCEPT ![b] = v]
    /\ mine' = [mine EXCEPT ![p] = @ \cup {b}]
    /\ IF b \in Logged(header)
       THEN UNCHANGED <<header, pinned, rm, op_reserved, pc>>
       ELSE LogBlock(p, b)
    /\ UNCHANGED <<diskState, committing, outstanding, tail>>

\* What an operation reserved and did not use becomes free.
\* Mutant: it stays reserved.
LeakRest(p) == UNCHANGED op_reserved /\ rm' = [rm EXCEPT ![p] = 0]
FreeRest(p) ==
    /\ op_reserved' = op_reserved - rm[p]
    /\ rm' = [rm EXCEPT ![p] = 0]

\* cache_end_op under log.lock, and the test at the start of commit.  The
\* context is not used after it.
EndOp(p) ==
    /\ pc[p] = "op"
    /\ outstanding' = outstanding - 1
    /\ FreeRest(p)
    /\ IF outstanding = 1
       THEN /\ committing' = TRUE
            /\ tail' = [tail EXCEPT ![p] = 1]
            /\ Goto(p, IF header = <<>> THEN "commit_end" ELSE "write_log")
       ELSE Goto(p, "post_s1") /\ UNCHANGED <<committing, tail>>
    /\ UNCHANGED <<diskState, cacheVars, header, mine>>

\* end_op of an operation that is not the last: post_all_sem(&s1), then wait.
PostSpace(p) ==
    /\ pc[p] = "post_s1"
    /\ pc' = [Woken("in_s1", "retry") EXCEPT ![p] = "wait_s2"]
    /\ UNCHANGED <<diskState, logVars, cacheVars, rm, tail, mine>>

-----------------------------------------------------------------------------
\* The index and the control point after one turn of a loop over the header.
NextTurn(t, loop, after) ==
    IF tail[t] < Len(header)
    THEN tail' = [tail EXCEPT ![t] = @ + 1] /\ Goto(t, loop)
    ELSE tail' = [tail EXCEPT ![t] = 1] /\ Goto(t, after)

\* Mutant: install_trans comes before write_header.
WriteLogThenInstall(p) ==
    /\ pc[p] = "write_log"
    /\ slot' = [slot EXCEPT ![tail[p]] = data[header[tail[p]]]]
    /\ NextTurn(p, "write_log", "install")
    /\ UNCHANGED <<home, dheader, logVars, cacheVars, rm, mine>>

\* One turn of write_log.
WriteLog(p) ==
    /\ pc[p] = "write_log"
    /\ slot' = [slot EXCEPT ![tail[p]] = data[header[tail[p]]]]
    /\ NextTurn(p, "write_log", "write_header")
    /\ UNCHANGED <<home, dheader, logVars, cacheVars, rm, mine>>

\* write_header after write_log: the commit point.
WriteHeader(p) ==
    /\ pc[p] = "write_header"
    /\ dheader' = header
    /\ Goto(p, "install")
    /\ mine' = [q \in Proc |-> {}]
    /\ UNCHANGED <<home, slot, logVars, cacheVars, rm, tail>>

\* One turn of install_trans, in commit or in recovery.
Install(t) ==
    LET b == header[tail[t]] IN
    /\ pc[t] = "install"
    /\ data' = [data EXCEPT ![b] = slot[tail[t]]]
    /\ home' = [home EXCEPT ![b] = slot[tail[t]]]
    /\ pinned' = pinned \ {b}
    /\ NextTurn(t, "install", "clear")
    /\ UNCHANGED <<slot, dheader, logVars, rm, mine>>

\* header.num_blocks = 0, then write_header.
Clear(t) ==
    /\ pc[t] = "clear"
    /\ header' = <<>>
    /\ Goto(t, "clear_header")
    /\ UNCHANGED <<diskState, committing, outstanding, op_reserved, cacheVars,
                   rm, tail, mine>>

ClearHeader(t) ==
    /\ pc[t] = "clear_header"
    /\ dheader' = header
    /\ Goto(t, IF t = Boot THEN "done" ELSE "commit_end")
    /\ UNCHANGED <<home, slot, logVars, cacheVars, rm, tail, mine>>

\* The rest of the last end_op: committing is reset, then everyone is woken.
CommitEnd(p) ==
    /\ pc[p] = "commit_end"
    /\ committing' = FALSE
    /\ Goto(p, "post1")
    /\ UNCHANGED <<diskState, header, outstanding, op_reserved, cacheVars, rm,
                   tail, mine>>

PostAll(p) ==
    /\ \/ /\ pc[p] = "post1"
          /\ pc' = [Woken("in_s1", "retry") EXCEPT ![p] = "post2"]
       \/ /\ pc[p] = "post2"
          /\ pc' = [Woken("in_s2", "idle") EXCEPT ![p] = "post3"]
       \/ /\ pc[p] = "post3"
          /\ pc' = [Woken("in_s3", "retry") EXCEPT ![p] = "idle"]
    /\ UNCHANGED <<diskState, logVars, cacheVars, rm, tail, mine>>

-----------------------------------------------------------------------------
\* The machine stops and restarts: memory is lost, init_bcache starts over.
Crash ==
    /\ header' = <<>>
    /\ data' = home
    /\ pinned' = {}
    /\ committing' = FALSE /\ outstanding' = 0 /\ op_reserved' = 0
    /\ pc' = [t \in Thread |-> IF t = Boot THEN "read_header" ELSE "idle"]
    /\ rm' = [p \in Proc |-> 0]
    /\ tail' = [t \in Thread |-> 1]
    /\ mine' = [p \in Proc |-> {}]
    /\ UNCHANGED diskState

\* Mutant: recovery clears the log without install_trans.
ReadHeaderThenClear ==
    /\ pc[Boot] = "read_header"
    /\ header' = dheader
    /\ Goto(Boot, "clear")
    /\ UNCHANGED <<diskState, committing, outstanding, op_reserved, cacheVars,
                   rm, tail, mine>>

\* recover_from_log: read_header.
ReadHeader ==
    /\ pc[Boot] = "read_header"
    /\ header' = dheader
    /\ Goto(Boot, IF dheader = <<>> THEN "clear" ELSE "install")
    /\ UNCHANGED <<diskState, committing, outstanding, op_reserved, cacheVars,
                   rm, tail, mine>>

Step(p) ==
    \/ Begin(p) \/ WaitSem(p) \/ EndOp(p) \/ PostSpace(p)
    \/ WriteLog(p) \/ WriteHeader(p) \/ CommitEnd(p) \/ PostAll(p)
    \/ \E b \in Block, v \in Val : Update(p, b, v)

Next ==
    \/ \E p \in Proc : Step(p)
    \/ \E t \in Thread : Install(t) \/ Clear(t) \/ ClearHeader(t)
    \/ Crash \/ ReadHeader

Spec == Init /\ [][Next]_vars

-----------------------------------------------------------------------------
(***************************************************************************)
(* Properties.                                                             *)
(***************************************************************************)
CommitPC == {"write_log", "write_header", "install", "clear", "clear_header",
             "commit_end"}
BootPC == {"read_header", "install", "clear", "clear_header", "done"}
PC == {"idle", "retry", "op", "panic", "wait_s1", "in_s1", "wait_s2", "in_s2",
       "wait_s3", "in_s3", "post_s1", "post1", "post2", "post3"} \cup CommitPC

\* The values the log's state can take, on disk and in memory.
TypeOK ==
    /\ home \in [Block -> Val]
    /\ slot \in [1..LogMax -> Val]
    /\ dheader \in Seq(Block)
    /\ header \in Seq(Block)
    /\ data \in [Block -> Val]
    /\ pinned \in SUBSET Block
    /\ committing \in BOOLEAN
    /\ outstanding \in Nat
    /\ op_reserved \in Int
    /\ pc \in [Thread -> PC \cup BootPC]
    /\ rm \in [Proc -> Nat]
    /\ tail \in [Thread -> Nat \ {0}]
    /\ mine \in [Proc -> SUBSET Block]

\* What recover_from_log would make of the disk: a block named in the header
\* on disk has the content of its log slot.
IndexIn(h, b) == CHOOSE i \in 1..Len(h) : h[i] = b
Recovered ==
    [b \in Block |-> IF b \in Logged(dheader) THEN slot[IndexIn(dheader, b)]
                                              ELSE home[b]]

\* While a commit writes, no operation is running and no other commit is in
\* progress: nothing is added to a header that is being written.
CommitAlone ==
    /\ \A p, q \in Proc : pc[p] \in CommitPC => pc[q] # "op"
    /\ \A p, q \in Proc : pc[p] \in CommitPC /\ pc[q] \in CommitPC => p = q

\* A cached block that differs from the disk is pinned and named in the header,
\* so neither eviction nor the next commit can lose it.
DirtyPinned ==
    Up => \A b \in Block : data[b] # home[b] => b \in pinned \cap Logged(header)

\* An operation that keeps to OP_MAX_NUM_BLOCKS blocks never makes sync panic,
\* whatever other operations log in the meantime.
NoLogPanic == \A p \in Proc : pc[p] # "panic"

\* The blocks the running operations may still log, numbered for each of them.
Reservations == {r \in Proc \X (1..OpMax) : r[2] <= rm[r[1]]}

\* The log's space is reserved before it is used: what is logged and what the
\* running operations may still log fits, and op_reserved is what they hold.
SpaceReserved ==
    /\ Len(header) + op_reserved <= LogMax
    /\ op_reserved = Cardinality(Reservations)

\* Write-ahead: a block outside the log is only ever overwritten with what the
\* committed log on disk already holds for it.
WriteAhead ==
    [][\A b \in Block : home'[b] # home[b] =>
          b \in Logged(dheader) /\ home'[b] = Recovered[b]]_vars

\* fs/defines.h: num_log_blocks is the number of blocks for logging, including
\* the log header; so write_log's last slot lies inside the log area.
LogFits == Len(header) <= NumLogBlocks - 1

\* fs/cache.h: end_op returns when all associated blocks are persisted to disk;
\* here already a log slot named by the header on disk counts as persisted.
EndOpPersists == \A p \in Proc : pc[p] = "idle" => mine[p] = {}

\* fs/cache.h: end_op commits an atomic operation and waits for it to be
\* checkpointed; once it is, end_op returns.
EndOpReturns ==
    \A p \in Proc : (pc[p] \in {"wait_s2", "in_s2"} /\ mine[p] = {})
                       ~> (pc[p] \notin {"wait_s2", "in_s2"})

\* The scheduler runs every process that is ready, and a running operation ends.
FairSpec ==
    /\ Spec
    /\ WF_vars(ReadHeader)
    /\ \A t \in Thread : WF_vars(Install(t) \/ Clear(t) \/ ClearHeader(t))
    /\ \A p \in Proc :
          WF_vars((pc[p] = "retry" /\ Begin(p)) \/ WaitSem(p) \/ EndOp(p) \/ PostSpace(p) \/ WriteLog(p)
                    \/ WriteHeader(p) \/ CommitEnd(p) \/ PostAll(p))

\* The disk a restart would find, the cache's view, and the running operations,
\* as the state of AtomicDisk.
Abs == INSTANCE AtomicDisk WITH
    Client <- Proc,
    durable <- Recovered,
    current <- IF Up THEN data ELSE Recovered,
    open <- {p \in Proc : pc[p] = "op"}

\* The log of cache.c makes atomic operations atomic: whatever crashes hit
\* write_log, write_header, install_trans or recovery itself, a restart finds
\* all or none of an operation's writes, and never loses a committed one.
ImplementsAtomicDisk == Abs!DSpec
=============================================================================
