# TLA+ models of the OS-2022Fall kernel

The kernel in `src/` is a small multi-core operating system for AArch64
(Raspberry Pi 3): processes and containers, semaphores, a block cache with a
write-ahead log, inodes, message queues, demand paging with swap, an SD card
driver and the allocators under them. This directory models its concurrent and
crash-prone parts in TLA+, checks them with TLC on small instances, and proves
the main results for every instance with TLAPS.

## Parts of the system

| part | source | state here |
|---|---|---|
| scheduler: states, switch, wakeups | `kernel/sched.c` | `Sched` |
| scheduler: vruntime, groups, `pick_next` | `kernel/sched.c`, `container.c` | `RunQueue` |
| red-black tree | `common/rbtree.c` | `RbTree`, complete |
| timers and clock | `kernel/cpu.c`, `driver/clock.c` | `RunQueue` |
| semaphores, sleep locks | `common/sem.c`, `sem.h` | `Semaphore`, complete |
| idle loop, panic | `kernel/core.c` | in `Sched`, `Semaphore` and `RunQueue` |
| processes, containers, pids | `kernel/proc.c`, `container.c` | `Process` (tree and pids), `Sched` (scheduling state) |
| write-ahead log | `fs/cache.c` | `Log`, complete |
| block allocator, inodes | `fs/cache.c`, `fs/inode.c` | `Inode`, complete |
| file system image | `user/mkfs/main.c` | `Mkfs` |
| message queues | `common/ipc.c` | `Ipc`, complete |
| SD driver, block device | `driver/sd.c`, `sddef.h`, `fs/block_device.c` | `SdHost`, `SdInit`, `SdDriver`, but for the switch to 1.8 V |
| block cache: acquire, release, eviction | `fs/cache.c` | not modelled; `Log` and `Inode` assume what it promises |
| page and slab allocators, paging, swap | `kernel/mem.c`, `paging.c`, `pt.c`, `common/list.c` | not modelled |
| traps, system call table, boot, console, mailbox | `aarch64/`, `driver/`, `main.c` | not modelled: no state of their own, or device access only |

How they interact: everything that sleeps does so through a semaphore (message
queues call `_sched` directly); a semaphore uses the scheduler under `rqlock`;
the log and the inodes use sleep locks of the block cache; the cache reads and
writes through the driver, which waits on a semaphore its interrupt posts;
paging swaps to blocks of the cache. `PROJECT.json` lists the hazards found in
each part, with the properties that cover them or the reason why none does.

## Modules

**`Sched`** is `sched.c` with the parts of `proc.c` and `core.c` that change a
process's scheduling state. Its variables are the fields of the code:
`state`, `killed`, the run queue `rq` with `node_cnt`, `thisproc` per CPU,
`rqlock`, `panic_flag`; `pc` says where a thread stands in the kernel and
`target` which process it is about to activate. The kernel runs with traps
masked, so a CPU changes process only in `simple_sched`; everything a CPU does
under `rqlock` without another lock is one step. `rqlock` is held across
`swtch` and belongs to the CPU. The run queue is a set: `PickNext` may return
any queued process, a superset of what the red-black tree returns.

**`Semaphore`** adds `sem.c`. A step ends wherever a CPU may have to wait for a
spinlock, so the order "list the waiter, take `rqlock`, release the semaphore,
sleep" of `_wait_sem` is visible, and so is a poster that holds the semaphore
while it waits for `rqlock`. `WaitFast`, `WaitEnqueue`, `WaitLockSched`,
`WaitSched`, `WaitGranted` and `WaitInterrupted` are the parts of `_wait_sem`;
`PostFree`, `PostGrant`, `PostActivate` and `PostAllActivate` those of
`post_sem` and `post_all_sem`; `GetAll` is `get_all_sem`. `SleepList` has the
list operations.

**`AbstractSemaphore`** says what a semaphore promises: a counting semaphore
whose posts go to the oldest waiter. `SemaphoreImpl` gives the refinement
mapping (units are `val` where positive, granted waits are those marked `up`).

**`Log`** is the atomic operations of `cache.c`. A step is what a thread does
under `log.lock`, or one block write. On disk are the blocks `home`, the log
blocks `slot` and the log header `dheader`; in memory the header, the cached
contents `data`, the pinned blocks and the counters. `Begin`, `Update`
(acquire, write, `cache_sync`, release), `EndOp`, `WriteLog`, `WriteHeader`,
`Install`, `Clear`, `ClearHeader`, `CommitEnd` and the posts follow the code;
`Crash` may come at any point and loses memory; `ReadHeader` starts recovery,
which shares `Install` and `Clear` with commit. The cache itself is abstract
(a pinned block stays cached, a block is seen by one thread at a time), the
blocks exclude the swap area (the only one `sync` writes without a context), and
`s1`, `s2`, `s3` are the sets of threads in their sleeplists, which is what
`AbstractSemaphore` makes of semaphores that only `post_all_sem` posts to.
`mine` is a history variable.

**`AtomicDisk`** is the promise: a commit makes the current view durable in one
step, only when no operation is running, and a restart finds the durable view.
The mapping reads the durable view off the disk as recovery would (`Recovered`).

**`Process`** is the process tree. What is done under `plock` is one step, and
so is `exit`, which takes `rqlock` before it releases `plock` and keeps it until
it is a zombie; between the two halves of `wait` and of `kill` everything can
happen. A slot stands for the memory of a `struct proc`: `kfree` makes it
available again, and a late `alert_proc` acts on whatever is there by then. The
pools are the stacks of their free numbers, the children a sequence in list
order. `childexit` is the counting semaphore of `AbstractSemaphore`.

**`RbTree`** gives insertion, erasure, lookup and first as operators on a tree
value with child and parent links and colours; each rebalancing case is written
once, with the side as a parameter. **`RunQueue`** uses it for the queues of the
containers and for the timers of the CPUs. `SimpleSched` is `simple_sched` with
`update_this_state`, `pick_next`, the skip marks and `update_this_proc`; what a
killed process or a panic changes in it is in `Sched`. `TimerClockHandler` is one
turn of the handler's loop; as its timers may yield, a process can be inside the
loop (`handling`) while it is off the CPU, and go on with it on another one.

**`Mkfs`** builds the image as `main.c` does; **`Inode`** starts from it. The
unit of data is one directory entry. A step is what is done to one block between
`acquire` and `release`, or under the lock of the inode list. `todo` is the call
stack of a process, so every call that a handler makes (`cache_alloc` and
`bzero` from `inode_map`, the sync at the end) belongs to it. The repository has
no callers of the inode layer but its tests: the modelled callers create, open,
unlink, write, clear, share and close files in the root directory, and hold the
locks `inode.h` asks for. A restart comes between atomic operations, which `Log`
makes durable as a whole.

**`Ipc`** is the message queues; a step is what is done under `msg_ids.lock`. The
sequence number of `msg_ids` is an unsigned short and wraps (`SEQ_MOD`); queues
and identifiers carry, as history, the number of the queue among all that were
made. Data are units of messages, so the copy of a message of several pages is
modelled by what it does.

**`SdHost`** is the controller and the routines that send a command and wait for
an interrupt flag, **`SdInit`** the initialisation of the card, **`SdDriver`** the
requests of processes, the buffer queue and the interrupt handler. Card and
registers are external: a command is accepted only in the states of the card that
allow it, and as many answers or transfers as the setup says (`faults`) are lost,
late or corrupted. The routines are run by each caller on its own (`io[t]`), so
two callers that nothing keeps apart interleave at every wait and register
access. This happens: `sd_intr`, when the queue is not empty after a request,
unlocks it, calls `sd_start` without `sdlock`, and unlocks it again
(`SdIntrFinish`, `SdStart(Intr)`, `SdIntrUnlock`). The two spinlocks are flags,
which any release clears. A request waits for the first buffer of the queue and
may return while its own, on its stack, is still queued: the frame then holds
what it held, or the next request of the process, or anything else, after which
the model stops (`Stale`). `history` records whether requests overlapped and
whether two callers were in the routines of the controller at once.

Where the code does something after which nothing can be said (a failed
assertion, memory used after it was freed, a walk that never ends), the model
records it (`panic`, `stuck`) and stops there. Such places are hazards in
`PROJECT.json`; the properties speak about all behaviour up to that point.

Definitions named as mutants in their comments are wrong variants of the
definition they precede. They show that the properties can fail.

## Runs

| run | instance | shows |
|---|---|---|
| `semaphore` | 3 processes, 2 CPUs, 2 semaphores (values 1 and 0), `val` at most 1, both kinds of wait, everyone may be killed | the scheduler and semaphore invariants, the inductive invariant, `DeepSleepEndsByPost`, refinement of `AbstractSemaphore` |
| `workload` | 3 processes with scripts of waits, posts and kills, 2 CPUs | everyone finishes |
| `log` | 3 processes, 2 blocks, 2 values, operations of 2 blocks, log of 4 | accounting, exclusion, write-ahead order, refinement of `AtomicDisk` under crashes |
| `process` | 4 processes, 2 containers, 5 pids | no pid used twice by live processes and none lost, local pids never used twice, `childexit` exact, `wait` never panics, the tree consistent |
| `runqueue` | 4 processes in 3 nested containers, 2 CPUs | the trees of queues and timers exact and in order, `pick_next` right, every CPU stays preemptible |
| `files` | 2 processes, 4 inodes, 16 blocks, files of up to 3 units in blocks of 2, 5 calls | bitmap, inodes and directory agree after every operation, one coherent copy of an inode in memory, files read as written |
| `ipc` | 3 processes, 1 entry, up to 3 queues one after the other, sequence numbers modulo 2; 6 queues made, sends and receives in all | no missed wakeup, a stale identifier refused until the sequence numbers have gone round, each message delivered at most once and its pages freed once |
| `block_io` | 4 kinds of card, 2 processes, 1 block, 2 requests and 1 fault or 3 requests | callers of the controller kept apart by `sdlock` but for the unlocked `sd_start`, answers belong to their commands, the clock within its limits, driver and card agree after initialisation, finished requests are transferred |
| `unalertable` | 2 processes, 2 CPUs, 1 semaphore | *violated*: a kill interrupts an unalertable wait, and the kernel panics |
| `log_layout` | as mkfs lays the disk out, scaled down | *violated*: a full log is one block longer than its area |
| `log_end_op` | 3 processes | *violated*: a late wakeup makes `end_op` return before its blocks are on disk |
| `log_wakeup` | 2 processes, fair | *violated*: `end_op` misses its wakeup and never returns |

Bounds. Three processes on two CPUs give a waiter, a poster and a killer with
one of them off the CPUs; a third CPU adds no new kind of interleaving, since
all switches serialise on `rqlock`, and the proofs cover every number. `MaxVal`
stops posts without waiters and restricts nothing else. In `log`, the third
process is the one that finds the log full while two operations are running, or
that begins while one of the others ends late; two blocks per operation are the
least for which atomicity says something. `LOG_MAX_SIZE` = 63 and `OP_MAX_NUM_BLOCKS` = 10 are
scaled down; a log can be filled at both scales (in the code by six operations
of ten blocks after one that logged three). In `process`, four processes give a
root, a parent, a child and a second container, and freed memory and pids are
used again. In `runqueue`, time and vruntime go up to 1, which gives ties and
strict order at every level; the assumption `TreesAreRedBlack`, evaluated in the
same run, takes the trees alone to every sequence of insertions and erasures of
seven nodes, enough for each rebalancing case on both sides. In `files`, one
direct and two indirect addresses and blocks of two units let a file of three
units reach the indirect block. In `ipc`, queues hold two messages, and messages
of three units need two pages; three queues are the least for which an
identifier outlives its queue and the sequence number (2 in place of 65536) comes
back. `POLLS` and `RETRIES` of `block_io` are 1: a
loop may run out, or not. Two requests overlap, and a third one finds what they
left behind; a wait that ends before its answer comes is a fault like a lost one. Operations are assumed to keep to
`OpMax` distinct blocks, which `cache.h` asks of callers. Symmetry is over
processes, CPUs and blocks; the fair runs use none.

Fairness. `workload` assumes that a process that is on a CPU infinitely often
executes its next kernel step (strong fairness: the timer preempts only user
mode, after a slice) and that the idle loop keeps yielding. It assumes nothing
of the order of `pick_next`. `process`, `runqueue`, `files`, `ipc` and
`block_io` check safety only: what should happen in the end does not under any
fairness the code gives (a sender of a removed queue sleeps for ever, and so can
a disk request that reads its flags late). `log_wakeup` assumes that every ready process goes
on (weak fairness) and that a started operation ends; it does not assume that
a new operation starts, because nothing in the kernel does.

The violated runs are disagreements between the code and `doc/lab6.md`,
`fs/defines.h` and `fs/cache.h`; `PROJECT.json` quotes the lines.

## Proofs

The theorems hold for every value of the constants: any sets of processes, CPUs,
semaphores, blocks, values and containers, finite or not, and any sizes. The
assumptions are `SchedAssumption` (processes, CPUs and the value of a free lock
are distinct), `SemAssumption` (types of the constants, at least one semaphore),
`LogAssumption` (types; the boot code is not a process; an operation may log at
least one block) and `ProcessAssumption` (the root process and root container
exist, `None` is neither, and there are at least two pids). TLC evaluates them in
the runs.

| modules | proved |
|---|---|
| `SemaphoreWaitProofs`, `SemaphorePostProofs`, `SemaphoreProofs` | `SemaphoreInvariant`, hence `TypeCorrect`, `RunningOnOneCpu`, `SchedulerConsistent`, `CountsSleepers`, `WakeupsKept`, `KillsKept`, `PanicNeedsKill`; the action property `DeepSleepKept`; `SemaphoreRefinement`: `Semaphore` implements `AbstractSemaphore` |
| `LogOpProofs`, `LogProofs` | `LogInvariant`, hence `LogTypeOK`, `LogCommitAlone`, `LogDirtyPinned`, `LogNeverPanics`, `LogSpaceReserved`; the action property `LogWriteAhead`; `LogImplementsAtomicDisk`: `Log`, crashes included, implements `AtomicDisk` |
| `ProcessLemmas`, `ProcessStartProofs`, `ProcessProofs` | `ProcInvariant`, hence `ProcTypeOK`, `ProcTreeConsistent`, `ProcPidsDistinct`, `ProcLocalPidsDistinct`, `ProcChildexitExact`, `ProcWaitFindsZombie` |

So every safety property and every refinement of the runs `semaphore`, `log` and
`process` is proved. Each of the three proofs has the same form: an inductive
invariant, one lemma per action saying that the action preserves it (in it, one
step per conjunct that the action can disturb), and the theorems. The `USE` at the
head of a proof module only orders the provers and their time limits; leaves that
one prover is better at name it.

**`SemInv`.** `NoLostWakeup` is not inductive. That a sleeping process which left
the sleeplist has a poster about to activate it holds only because the same is
true just before it sleeps, at "wait_sched" (`ChosenHasPoster`); that needs the
poster to be blocked on `rqlock` there (`RqLockHolder`), the waiter to be listed
exactly until it is chosen (`ListedIffWaiting`), and nobody to choose it while it
holds the semaphore (`SemLockHolder`, `ChosenWaits`). `HoldersRun` says that a
thread in a critical section keeps its CPU, so nothing else moves it. `SleepKind`
connects the kind of sleep with the kind of wait, for the two properties about
unalertable waits. The lemmas about `_activate_proc` and `simple_sched` use only
`QueueInv`, the part of it that speaks of the scheduler. In the refinement every
step is a step of `AbstractSemaphore` or leaves its state alone.

**`LogInv`.** `DiskInv` says what the disk holds at each point of a commit and of
recovery: which slots of the log already have the cached contents, which home
blocks have been overwritten, and that the header on disk is empty unless
somebody is installing. From it follow write-ahead (a home block is written only
from a slot of the header on disk) and the refinement (`Recovered`, what a restart
would find, changes only when the header is written, and then to the whole cached
view). It needs a single committer with no operation running (`CommitInv`,
`CountInv`), each block at most once in a header (`HeaderInv`), logged blocks
pinned until they are in place (`PinInv`, without which `DirtyPinned` is not
preserved when a commit is over), and a boot before which nothing runs
(`BootInv`). That `cache_sync` never panics is a counting argument: a block that an
operation logs uses a unit of its own reservation unless it is logged already, so
an operation without reservation left has logged `OpMax` blocks of its own
(`ReserveInv`), and the reserved units and the header fit into the log
(`SpaceReserved`). The reserved units are counted as a set of pairs
(`Reservations`), so that the library's facts on cardinality apply and no
induction over sums is needed.

**`ProcInv`.** `wait` finds a zombie because `childexit` is exact, and that is
preserved by `exit`, which hands over the children and the zombies among them,
only if the process that inherits them exists and is not the one that exits.
Hence `ContainerInv` (the root process of a container in use lives in it),
`LoopInv` (nobody but the root process is its own parent, since the parent of a
container's root is in another container) and `RootInv`. `ParentInv` says that a
parent is not freed under its child. `MakingInv` says that a process between
creation and start belongs to one maker, so that nobody else starts it, gives it a
parent or takes its local pid; `ControlInv` that only existing processes are in
the middle of an operation. `PidPool` is `PidsDistinct` in terms of the processes
that have not exited, whose pids and the free ones make up all pids: a process
that exits gives its pid to the pool and leaves the set in the same step. The
lists (pid pools and children) are handled by
lemmas on sequences without repetitions: taking the head, returning an element,
merging two lists, removing from the middle. `Counting` states the facts about
finite sets that the lemmas use; they take it as a hypothesis, and `CountingHolds`
proves it from the library.

Only model-checked:

* liveness (`workload`, `log_wakeup`): fairness is out of the prover's reach;
* `RunQueue`, `RbTree` and `Ipc`: they use recursive operators (rebalancing, the
  copy of a message page by page), about which the prover cannot reason, and what
  these compute would need induction over trees and lists;
* `Inode` and `Mkfs`: `Inode` starts from the image that `Mkfs` builds with folds
  over the files and their data, and that this image is consistent for every list
  of files needs induction again;
* `SdHost`, `SdInit` and `SdDriver`: no proof is written. Their properties are
  about an external card and controller, and what limits them is that model of
  the hardware more than the bounds of the run.

## What the models showed

Besides the four violated runs, modelling the code met these places, each a
hazard in `PROJECT.json` with its line:

* `sdrw` starts a request although one is in progress (its comment says the
  opposite), resets the semaphore others sleep on, and reads the flags it waits
  for after it released the queue. `sd_intr`, when the queue is not empty after a
  request, calls `sd_start` without the `sdlock` that its comment asks for
  (`sd.c:138`), and unlocks the queue a second time, whoever has locked it by
  then. `AnswerMatches` says that this is the only place where two callers meet
  in the controller, and that answers belong to their commands as long as they
  have not; `DoneMeansTransferred` holds for requests that do not overlap.
* `exit` returns the pid while the zombie is still in the process tree, so a new
  process may get the number of a zombie. `doc/lab3.md:44` says that no two
  processes in the tree have one pid. `PidsDistinct` states what the code keeps:
  of two processes with one pid at least one is a zombie, a free pid belongs to
  zombies at most, and every pid is either free or that of a live process.
* After 65536 more queues, an old identifier of a message queue reaches a new
  one. `StaleIdRefused` says that it cannot happen earlier.
* `inode_get` can find an inode that `inode_put` has marked free and not yet
  taken from the list; `inode_lock` asserts that its wait is not interrupted, and
  a kill interrupts it.
* `freeque` wakes the receivers in place of the senders; `pipeline_send` does not
  end when the buffer of a receiver is too small; a message of more than one page
  is copied from the wrong place; a killed sleeper leaves its node in the list.
* `kill` alerts a process after `plock` was released, by when its memory may be
  a process that is not started.
* A process that is picked again at once is charged from its old `start_time`.

## Not modelled

* The block cache. Its acquire, release and eviction race in ways the hazards
  of `cache.c` describe; `Log` and `Inode` rest on its promise that a block is
  one process's own between acquire and release and that a pinned block stays.
* The page and slab allocators, page tables, swap. They share no state with the
  modelled parts but through allocation, which is taken to succeed and to give
  fresh memory. The lock-free list needs a model of single memory accesses.
* In the SD driver the switch to 1.8 V (the modelled cards do not offer it), the
  setup of the pins, the printing of the card's registers, and `sd_test`.
* Inode calls of several operations that crash in the middle: `Log` shows that
  the disk then holds the last committed state, from which `Inode` restarts.
* Traps, system call dispatch, boot, console, mailbox, formatting: no state of
  their own, or device access only.
