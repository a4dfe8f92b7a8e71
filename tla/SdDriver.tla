------------------------------ MODULE SdDriver ------------------------------
(***************************************************************************)
(* The SD driver of driver/sd.c and fs/block_device.c: processes that read *)
(* and write blocks (sd_read, sd_write, sdrw), the interrupt handler       *)
(* sd_intr on CPU 0, and the queue of buffers and the semaphore they share.*)
(* The card is initialised first (SdInit).                                 *)
(***************************************************************************)
EXTENDS SdInit, Sequences, Functions

CONSTANTS
    Proc,            \* processes that use the disk
    BlockNo,         \* the blocks they ask for
    BLOCKNO_OFFSET,  \* first sector of the file system (0x20800 in the code)
    MaxRequests      \* bound on the requests in a run, and on its faults

ASSUME SdDriverAssumption ==
    /\ Proc \subseteq Data /\ Caller = Proc \cup {CPU0}
    /\ BLOCKNO_OFFSET \in Nat /\ MaxRequests \in Nat /\ BlockNo \subseteq Nat
    /\ {b + BLOCKNO_OFFSET : b \in BlockNo} \subseteq Sectors

Intr == CPU0   \* sd_intr

VARIABLES
    buf,      \* buf[p]: the buffer on the stack of p: sector, flags, data
    bqueue,   \* the buffers in the queue, by owner
    lk,       \* bqueue.lk is set; a release clears it whoever has set it
    sdlock,   \* sdlock is set
    rw_done,  \* the semaphore: its value and the processes asleep on it
    pc,       \* pc[p] in sdrw, pc[Intr] in sd_intr
    saved,    \* saved[p]: b_first and flag_save
    history   \* of the driver: requests to come; overlapped: one came while
              \* another was in the queue; raced: two callers were in the
              \* routines of the controller at once

queueVars == <<buf, bqueue, lk, sdlock, rw_done, saved>>
driverVars == <<queueVars, pc, history>>
vars == <<card, disk, emmc, sdCard, io, boot, retries, panic, driverVars>>

NoBuf == [sector |-> 0, flags |-> {}, data |-> Garbage]
NoSaved == [first |-> None, flags |-> {}]

Init ==
    /\ SdInitInit
    /\ buf = [p \in Proc |-> NoBuf]
    /\ bqueue = <<>>
    /\ lk = FALSE /\ sdlock = FALSE
    /\ rw_done = [val |-> 0, waiting |-> {}]
    /\ pc = [t \in Caller |-> "idle"]
    /\ saved = [p \in Proc |-> NoSaved]
    /\ history = [requests |-> MaxRequests - card.faults, overlapped |-> FALSE,
                  raced |-> FALSE]

Goto(t, next) == pc' = [pc EXCEPT ![t] = next]

\* The machine stops.
Panic == /\ panic' = TRUE
         /\ pc' = [t \in Caller |-> "halted"]
         /\ io' = [t \in Caller |-> Idle]
         /\ UNCHANGED <<emmc, queueVars>>

(***************************************************************************)
(* A process waits for the first buffer of the queue, which need not be    *)
(* its own, so it may return while its own is still queued.  The entry     *)
(* then points into a stack frame that is gone.  What is there is what the *)
(* frame held, or the next request of the process at the same place, or    *)
(* anything else, after which the model stops (panic).                     *)
(***************************************************************************)
Stale(b) == b \in Range(bqueue) /\ pc[b] \in {"idle", "lock", "push"}

\* The queue of buffers.
bufqueue_front == Head(bqueue)
bufqueue_push(p) == bqueue' = Append(bqueue, p)
bufqueue_pop == bqueue' = Tail(bqueue)

-----------------------------------------------------------------------------
\* sd_read and sd_write (of a content of its own) fill a buffer, and sdrw
\* resets the semaphore.
SdrwStart(p) ==
    /\ boot = "up" /\ pc[p] = "idle" /\ history.requests > 0
    /\ \E b \in BlockNo :
         \/ buf' = [buf EXCEPT ![p] = [sector |-> b + BLOCKNO_OFFSET,
                                       flags |-> {}, data |-> Garbage]]
         \/ buf' = [buf EXCEPT ![p] = [sector |-> b + BLOCKNO_OFFSET,
                                       flags |-> {"DIRTY", "VALID"},
                                       data |-> p]]
    /\ rw_done' = [val |-> 0, waiting |-> {}]
    /\ Goto(p, "lock")
    /\ UNCHANGED <<emmc, io, panic, bqueue, lk, sdlock, saved>>

\* sdrw takes the lock of the queue.
SdrwLock(p) ==
    /\ pc[p] = "lock" /\ ~lk
    /\ lk' = TRUE
    /\ Goto(p, "push")
    /\ UNCHANGED <<emmc, io, panic, buf, bqueue, sdlock, rw_done, saved>>

\* It takes sdlock and queues the buffer.
SdrwPush(p) ==
    /\ pc[p] = "push" /\ ~sdlock /\ p \notin Range(bqueue)
    /\ sdlock' = TRUE
    /\ bufqueue_push(p)
    /\ Goto(p, "start")
    /\ UNCHANGED <<emmc, io, panic, buf, lk, rw_done, saved>>

\* The links of a frame that is gone are written, maybe those of the same node.
SdrwPushStale(p) ==
    /\ pc[p] = "push" /\ ~sdlock
    /\ bqueue # <<>>
    /\ p \in Range(bqueue) \/ Stale(bqueue[Len(bqueue)])
    /\ Panic

Dirty(b) == "DIRTY" \in buf[b].flags

\* The buffer that sd_start is called with: by sdrw its own, by sd_intr the
\* first of the queue.
Request(t) == IF t = Intr THEN bufqueue_front ELSE t

\* sd_start finds a pending interrupt flag and panics, or sends the command.
SdStart(t) ==
    /\ pc[t] = "start"
    /\ IF emmc.interrupt # {} THEN Panic
       ELSE LET b == Request(t)
            IN  /\ Send(t, IF Dirty(b) THEN "WRITE_SINGLE" ELSE "READ_SINGLE",
                        Address(buf[b].sector))
                /\ Goto(t, IF Dirty(b) THEN "write" ELSE "read")
                /\ UNCHANGED <<emmc, panic, queueVars>>

\* The command was answered: a write waits until the card takes the words.
SdStartCommand(t) ==
    /\ pc[t] \in {"write", "read"} /\ io[t].at = "ret"
    /\ IF io[t].ret # OK THEN Panic
       ELSE /\ IF pc[t] = "write" THEN Await(t, "WRITE_RDY") /\ Goto(t, "words")
               ELSE Leave(t) /\ Goto(t, "started")
            /\ UNCHANGED <<emmc, panic, queueVars>>

\* The words of a write.
SdStartWords(t) ==
    /\ pc[t] = "words" /\ io[t].at = "ret"
    /\ IF io[t].ret # OK \/ emmc.interrupt # {} THEN Panic
       ELSE /\ emmc' = [emmc EXCEPT !.data = WordsMoved(buf[Request(t)].data)]
            /\ Leave(t)
            /\ Goto(t, "started")
            /\ UNCHANGED <<panic, queueVars>>

\* sdrw releases sdlock.
SdrwStarted(p) ==
    /\ pc[p] = "started"
    /\ sdlock' = FALSE
    /\ Goto(p, "empty")
    /\ UNCHANGED <<emmc, io, panic, buf, bqueue, lk, rw_done, saved>>

\* It tests the queue.  When it is empty, sdrw unlocks it and waits for its own
\* buffer.
SdrwEmpty(p) ==
    /\ pc[p] = "empty"
    /\ \/ /\ bqueue = <<>>
          /\ lk' = FALSE
          /\ saved' = [saved EXCEPT ![p].first = p]
          /\ Goto(p, "save")
       \/ /\ bqueue # <<>>
          /\ Goto(p, "front")
          /\ UNCHANGED <<lk, saved>>
    /\ UNCHANGED <<emmc, io, panic, buf, bqueue, sdlock, rw_done>>

\* Otherwise it waits for the first one.  The lock may have been released by
\* sd_intr, and the queue be empty now.
SdrwFront(p) ==
    /\ pc[p] = "front"
    /\ IF bqueue = <<>> THEN Panic
       ELSE /\ lk' = FALSE
            /\ saved' = [saved EXCEPT ![p].first = bufqueue_front]
            /\ Goto(p, "save")
            /\ UNCHANGED <<emmc, io, panic, buf, bqueue, sdlock, rw_done>>

\* flag_save is read after the queue was unlocked; first is None when the frame
\* it pointed into is gone.
SdrwSave(p) ==
    /\ pc[p] = "save"
    /\ saved' = [saved EXCEPT ![p].flags =
                   IF saved[p].first = None THEN {}
                   ELSE buf[saved[p].first].flags]
    /\ Goto(p, "test")
    /\ UNCHANGED <<emmc, io, panic, buf, bqueue, lk, sdlock, rw_done>>

\* The loop: until the flags have changed.  A frame that is gone has any value.
SdrwTest(p) ==
    LET first == saved[p].first
    IN  /\ pc[p] = "test"
        /\ \/ /\ first # None => saved[p].flags # buf[first].flags
              /\ Goto(p, "done")
           \/ /\ first # None => saved[p].flags = buf[first].flags
              /\ Goto(p, "wait")
        /\ UNCHANGED <<emmc, io, panic, queueVars>>

\* Mutant: the process is not taken out of the waiting ones when it goes on.
SdrwWaitStays(p) ==
    /\ pc[p] = "wait"
    /\ rw_done' = [val |-> rw_done.val - 1,
                   waiting |-> rw_done.waiting \cup {p}]
    /\ Goto(p, IF rw_done.val > 0 THEN "test" ELSE "asleep")
    /\ UNCHANGED <<emmc, io, panic, buf, bqueue, lk, sdlock, saved>>

\* wait_sem(&rw_done).
SdrwWait(p) ==
    /\ pc[p] = "wait"
    /\ rw_done' = [val |-> rw_done.val - 1,
                   waiting |-> IF rw_done.val > 0 THEN rw_done.waiting
                               ELSE rw_done.waiting \cup {p}]
    /\ Goto(p, IF rw_done.val > 0 THEN "test" ELSE "asleep")
    /\ UNCHANGED <<emmc, io, panic, buf, bqueue, lk, sdlock, saved>>

\* A kill ends the wait, which the driver asserts not to happen.
SdrwKilled(p) ==
    /\ pc[p] = "asleep"
    /\ Panic

\* sd_read copies the data; the frame with the buffer is gone.
SdrwReturn(p) ==
    /\ pc[p] = "done"
    /\ buf' = IF p \in Range(bqueue) THEN buf ELSE [buf EXCEPT ![p] = NoBuf]
    /\ saved' = [q \in Proc |->
                   IF q = p THEN NoSaved
                   ELSE [saved[q] EXCEPT !.first = IF @ = p THEN None ELSE @]]
    /\ Goto(p, "idle")
    /\ UNCHANGED <<emmc, io, panic, bqueue, lk, sdlock, rw_done>>

-----------------------------------------------------------------------------
\* post_sem(&rw_done): wakes a process that sleeps, if there is one.
PostRwDone ==
    IF rw_done.val < 0
    THEN \E p \in rw_done.waiting :
           /\ rw_done' = [val |-> rw_done.val + 1,
                          waiting |-> rw_done.waiting \ {p}]
           /\ pc' = [pc EXCEPT ![p] = "test", ![Intr] = "finish"]
    ELSE /\ rw_done' = [rw_done EXCEPT !.val = @ + 1]
         /\ Goto(Intr, "finish")

\* The interrupts that are not masked (IRPT_EN) reach CPU 0.
SdIntrStart ==
    /\ boot = "up" /\ pc[Intr] = "idle"
    /\ emmc.interrupt \ {"CMD_DONE", "WRITE_RDY"} # {}
    /\ Goto(Intr, "lock")
    /\ UNCHANGED <<emmc, io, panic, queueVars>>

\* sd_intr locks the queue and looks at the first buffer: a write is marked
\* and taken out at once.
SdIntrLock ==
    /\ pc[Intr] = "lock" /\ ~lk
    /\ IF bqueue = <<>> THEN Panic
       ELSE LET b == bufqueue_front
            IN  /\ lk' = TRUE
                /\ \/ /\ Dirty(b)
                      /\ buf' = [buf EXCEPT ![b].flags = {"VALID"}]
                      /\ bufqueue_pop
                      /\ Goto(Intr, "written")
                   \/ /\ ~Dirty(b)
                      /\ Goto(Intr, IF "VALID" \in buf[b].flags THEN "finish"
                                    ELSE "read_rdy")
                      /\ UNCHANGED <<buf, bqueue>>
                /\ UNCHANGED <<emmc, io, panic, sdlock, rw_done, saved>>

\* Then it takes sdlock, and waits for the end of the write, or for the data.
SdIntrWait ==
    /\ pc[Intr] \in {"written", "read_rdy"} /\ io[Intr].at = "none" /\ ~sdlock
    /\ sdlock' = TRUE
    /\ Await(Intr, IF pc[Intr] = "written" THEN "DATA_DONE" ELSE "READ_RDY")
    /\ UNCHANGED <<emmc, panic, buf, bqueue, lk, rw_done, pc, saved>>

\* The end of a write; its result is not looked at.
SdIntrWritten ==
    /\ pc[Intr] = "written" /\ io[Intr].at = "ret"
    /\ Leave(Intr)
    /\ sdlock' = FALSE
    /\ PostRwDone
    /\ UNCHANGED <<emmc, panic, buf, bqueue, lk, saved>>

\* Mutant: a read is taken for done before its data has come.
SdIntrReadEarly ==
    /\ pc[Intr] = "read_rdy" /\ io[Intr].at = "ret"
    /\ IF io[Intr].ret # OK \/ emmc.interrupt # {} THEN Panic
       ELSE /\ emmc' = [emmc EXCEPT !.data = WordsMoved(None)]
            /\ Await(Intr, "DATA_DONE")
            /\ Goto(Intr, "data_done")
            /\ UNCHANGED <<panic, queueVars>>

\* The words of a read.
SdIntrRead ==
    /\ pc[Intr] = "read_rdy" /\ io[Intr].at = "ret"
    /\ IF io[Intr].ret # OK \/ emmc.interrupt # {} THEN Panic
       ELSE /\ buf' = [buf EXCEPT ![bufqueue_front].data = WordsRead]
            /\ emmc' = [emmc EXCEPT !.data = WordsMoved(None)]
            /\ Await(Intr, "DATA_DONE")
            /\ Goto(Intr, "data_done")
            /\ UNCHANGED <<panic, bqueue, lk, sdlock, rw_done, saved>>

\* The end of a read; its result is not looked at.
SdIntrReadDone ==
    /\ pc[Intr] = "data_done" /\ io[Intr].at = "ret"
    /\ Leave(Intr)
    /\ sdlock' = FALSE
    /\ buf' = [buf EXCEPT ![bufqueue_front].flags = {"VALID"}]
    /\ bufqueue_pop
    /\ PostRwDone
    /\ UNCHANGED <<emmc, panic, lk, saved>>

\* The end of sd_intr.  A queue that is not empty is unlocked first, and
\* sd_start is called without any lock for the buffer that is first now.
SdIntrFinish ==
    /\ pc[Intr] = "finish"
    /\ lk' = FALSE
    /\ Goto(Intr, IF bqueue = <<>> THEN "idle" ELSE "start")
    /\ UNCHANGED <<emmc, io, panic, buf, bqueue, sdlock, rw_done, saved>>

\* After sd_start the queue is unlocked a second time, whoever has locked it.
SdIntrUnlock ==
    /\ pc[Intr] = "started"
    /\ lk' = FALSE
    /\ Goto(Intr, "idle")
    /\ UNCHANGED <<emmc, io, panic, buf, bqueue, sdlock, rw_done, saved>>

\* sd_intr works with a buffer whose frame was written over.
SdIntrStale ==
    /\ pc[Intr] \notin {"idle", "finish", "started"}
    /\ bqueue # <<>> /\ Stale(bufqueue_front)
    /\ Panic

SdIntr ==
    \/ SdIntrStart \/ SdIntrLock \/ SdIntrWait \/ SdIntrWritten \/ SdIntrRead
    \/ SdIntrReadDone \/ SdIntrFinish \/ SdIntrUnlock \/ SdIntrStale

Sdrw(p) ==
    \/ SdrwStart(p) \/ SdrwLock(p) \/ SdrwPush(p) \/ SdrwPushStale(p)
    \/ SdrwStarted(p) \/ SdrwEmpty(p) \/ SdrwFront(p) \/ SdrwSave(p)
    \/ SdrwTest(p) \/ SdrwWait(p) \/ SdrwKilled(p) \/ SdrwReturn(p)

\* t is in a routine of the controller.
Busy(t) == io[t].at # "none"

\* The history, after a step of the driver.
Recorded ==
    history' =
      [requests |-> history.requests
          - Cardinality({p \in Proc : pc[p] = "idle" /\ pc'[p] = "lock"}),
       overlapped |-> history.overlapped \/ Len(bqueue') > 1,
       raced |-> \/ history.raced
                 \/ \E t, u \in Caller : t # u /\ Busy(t)' /\ Busy(u)']

Next ==
    /\ ~panic
    /\ \/ HostNext /\ UNCHANGED <<initVars, driverVars>>
       \/ SdInitNext /\ UNCHANGED driverVars
       \/ /\ \/ SdIntr
             \/ \E t \in Caller :
                  SdStart(t) \/ SdStartCommand(t) \/ SdStartWords(t)
             \/ \E p \in Proc : Sdrw(p)
          /\ Recorded
          /\ UNCHANGED <<card, disk, sdCard, boot, retries>>

Spec == Init /\ [][Next]_vars

-----------------------------------------------------------------------------
\* Properties.

\* The registers, the queue, the flags of the locks and the semaphore of the
\* driver keep their types: rw_done is not below the processes asleep on it.
TypeOK ==
    /\ sdCard.type \in {"Unknown", "TYPE_1", "TYPE_2_SC", "TYPE_2_HC"}
    /\ emmc.interrupt \subseteq Flag
    /\ \A t \in Caller : /\ io[t].ret \in {OK, TIMEOUT, BUSY, ERROR}
                         /\ io[t].count \in 0..POLLS
    /\ retries \in 0..RETRIES /\ panic \in BOOLEAN
    /\ disk \in [Sectors -> Data \cup {Garbage}]
    /\ \A p \in Proc : buf[p].flags \subseteq {"DIRTY", "VALID"}
                       /\ buf[p].data \in Data \cup {Garbage}
    /\ bqueue \in Seq(Proc) /\ {lk, sdlock} \subseteq BOOLEAN
    /\ rw_done.val \in Int /\ rw_done.val >= -Cardinality(rw_done.waiting)
    /\ rw_done.waiting \subseteq {p \in Proc : pc[p] \in {"asleep", "halted"}}

\* sdlock keeps the routines of the controller apart, but for the sd_start that
\* sd_intr calls after it unlocked the queue; and the response sdSendCommandP
\* takes apart is the answer to the command it sent, also when the answer to an
\* earlier command that timed out comes late, unless that sd_start has raced.
AnswerMatches ==
    /\ \A t, u \in Caller : Busy(t) /\ Busy(u) /\ t # u =>
          Intr \in {t, u} /\ pc[Intr] \in {"read", "write", "words"}
    /\ \A t \in Caller : io[t].at = "respond" =>
          \/ history.raced
          \/ /\ emmc.inhibit = None
             /\ ResponseType[Sending(t)] # "NO" =>
                  emmc.resp # None /\ emmc.resp.index = Sending(t)

\* sdGetClockDivider never gives a clock above the frequency asked for, and
\* the card is not clocked at full speed before it is identified.
ClockNotTooFast ==
    emmc.clk # None =>
        LET divider == emmc.clk.lo + 256 * emmc.clk.hi
            limit   == IF card.state \in {"idle", "ready", "ident"}
                       THEN FREQ_SETUP ELSE FREQ_NORMAL
        IN  BASE_CLOCK \div (2 * divider) <= limit

\* Whatever was lost on the way, driver and card agree once the card is
\* selected: on its address, on how sectors are addressed and, when sdInit
\* ended well, on the bus width.
InitAgrees ==
    /\ card.state \in {"tran", "data", "rcv"}
         => /\ sdCard.type = "TYPE_2_HC" <=> card.kind = "HC"
            /\ sdCard.rca = card.rca
    /\ sdCard.init => /\ card.state \in {"tran", "data", "rcv"}
                      /\ emmc.width = card.width
                      /\ card.wide => emmc.width = 4

\* A buffer is marked VALID only when it was transferred, and sdrw returns only
\* then: with the card initialised, no transfer failed and no request made while
\* another was in the queue, a read has at that time what the sector holds and
\* a write is on the card.
DoneMeansTransferred ==
    [][sdCard.init /\ ~card.failed /\ ~history.overlapped =>
         \A p \in Proc :
           /\ buf[p].flags # {"VALID"} /\ buf'[p].flags = {"VALID"} =>
                buf'[p].data = disk'[buf[p].sector]
           /\ pc'[p] = "done" => buf'[p].flags = {"VALID"}]_vars
=============================================================================
