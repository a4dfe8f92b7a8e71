--------------------------------- MODULE Ipc ---------------------------------
(***************************************************************************)
(* The message queues of common/ipc.c.  What a call does under             *)
(* msg_ids.lock is one step; a process that goes to sleep hands over from  *)
(* that lock to the scheduler's, so no wakeup falls in between.            *)
(*                                                                         *)
(* Control points of a process, at:                                        *)
(*   "idle"    outside the calls                                           *)
(*   "snd"     in sys_msgsnd, the message loaded, at retry                 *)
(*   "rcv"     in sys_msgrcv, before the lock                              *)
(*   "blocked" asleep in the sender list                                   *)
(*   "waiting" asleep in the receiver list                                 *)
(*   "woken"   back from the sleep in sys_msgrcv                           *)
(*   "copy"    with a message in hand, no lock held                        *)
(*   "done"    the message is in the caller's buffer                       *)
(***************************************************************************)
EXTENDS Integers, SequencesExt, FiniteSetsExt

CONSTANTS
    Proc, None, Garbage,
    SIZE,                    \* entries of msg_ids (16)
    SEQ_MULTIPLIER,          \* 16
    SEQ_MOD,                 \* msg_ids.seq wraps around (unsigned short: 2^16)
    MAX_MSGNUM,              \* messages a queue holds (256)
    MSG_MSGSZ, MSG_MSGSEGSZ, \* data in the first page, in a further one
    Keys,                    \* keys in use
    Sends, Receives,         \* arguments of sys_msgsnd and sys_msgrcv in use
    MaxCalls,                \* bound: sends, receives and queues made in all
    MaxQueues                \* bound: queues made

IPC_PRIVATE == 0

ASSUME IpcAssumption ==
    /\ {SIZE, SEQ_MULTIPLIER, SEQ_MOD, MAX_MSGNUM, MSG_MSGSZ, MSG_MSGSEGSZ}
         \subseteq Nat \ {0}
    /\ SIZE <= SEQ_MULTIPLIER
    /\ \A c \in Sends \cup Receives : c.type \in Int /\ c.size \in Nat /\ c.nowait \in BOOLEAN
    /\ \A c \in Sends : c.type >= 1

VARIABLES
    entries,    \* msg_ids.entries
    ids,        \* msg_ids: in_use, seq; and made, the queues made so far, which
                \* numbers the queues whatever their identifiers are (history)
    proc,       \* proc[p]: where it is, the locals of its call, and the
                \* identifier it has, with the number of the queue it is for
    pages,      \* pages taken by messages
    calls,      \* sends and receives so far
    stuck       \* a walk over the receivers never ends, or memory is used
                \* that is not initialised or not there any more

vars == <<entries, ids, proc, pages, calls, stuck>>

NoProc == [at |-> "idle", msg |-> None, want |-> None, r_msg |-> None,
           got |-> None]

Init ==
    /\ entries = [i \in 0..(SIZE - 1) |-> None]
    /\ ids = [in_use |-> 0, seq |-> 0, made |-> 0]
    /\ proc = [p \in Proc |-> NoProc @@ [msgid |-> None]]
    /\ pages = 0 /\ calls = 0 /\ stuck = FALSE

Live == {i \in 0..(SIZE - 1) : entries[i] # None}

WithinCalls == calls + ids.made < MaxCalls

\* A call returns: its locals are gone.
Returned(p) == NoProc @@ proc[p]
Activated(p) == [proc[p] EXCEPT !.at = IF @ = "blocked" THEN "snd" ELSE "woken"]

-----------------------------------------------------------------------------
\* Message data.

Min2(a, b) == IF a < b THEN a ELSE b

\* load_msg: the pages of a message.  src moves on by what is left, not by
\* what was copied.
RECURSIVE LoadSegments(_, _, _)
LoadSegments(src, at, len) ==
    IF len <= 0 THEN <<>>
    ELSE LET n == Min2(MSG_MSGSEGSZ, len)
             left == len - n
         IN  << [k \in 1..n |-> IF at + k <= Len(src) THEN src[at + k] ELSE Garbage] >>
               \o LoadSegments(src, at + Min2(MSG_MSGSEGSZ, left), left)

LoadMsg(src) ==
    LET n == Min2(MSG_MSGSZ, Len(src))
        left == Len(src) - n
    IN  << SubSeq(src, 1, n) >> \o LoadSegments(src, Min2(MSG_MSGSZ, left), left)

Paste(dst, at, us) ==
    [k \in 1..Len(dst) |-> IF k \in (at + 1)..(at + Len(us)) THEN us[k - at] ELSE dst[k]]

\* store_msg, which moves dst the same way.
RECURSIVE StoreSegments(_, _, _, _)
StoreSegments(dst, at, segs, size) ==
    IF size <= 0 THEN dst
    ELSE LET n == Min2(size, MSG_MSGSEGSZ)
         IN  StoreSegments(Paste(dst, at, SubSeq(Head(segs), 1, n)),
                           at + Min2(size - n, MSG_MSGSEGSZ), Tail(segs), size - n)

StoreMsg(msg, size) ==
    LET n == Min2(size, MSG_MSGSZ)
        dst == [k \in 1..size |-> Garbage]
    IN  StoreSegments(Paste(dst, 0, SubSeq(Head(msg.data), 1, n)),
                      Min2(MSG_MSGSZ, size - n), Tail(msg.data), size - n)

\* What a process sends as its message number n.
Source(n, size) == [k \in 1..size |-> <<n, k>>]

-----------------------------------------------------------------------------
\* Queues and their identifiers.

ipc_buildin(id, seq) == seq * SEQ_MULTIPLIER + id

\* Mutants: the new queue is not counted; its number is used again.
RegisteredUncounted == [ids EXCEPT !.seq = (@ + 1) % SEQ_MOD, !.made = @ + 1]
RegisteredSameSeq == [ids EXCEPT !.in_use = @ + 1, !.made = @ + 1]

\* msg_ids after ipc_addid.
Registered ==
    [in_use |-> ids.in_use + 1, seq |-> (ids.seq + 1) % SEQ_MOD,
     made |-> ids.made + 1]

\* newque with ipc_addid: the first free entry.
newque(p, key) ==
    LET free == (0..(SIZE - 1)) \ Live
        id   == Min(free)
    IN  IF free = {} THEN UNCHANGED <<entries, ids, proc>>
        ELSE /\ ids.made < MaxQueues /\ WithinCalls
             /\ entries' = [entries EXCEPT ![id] =
                  [key |-> key, seq |-> ids.seq, queue |-> ids.made, sum |-> 0,
                   messages |-> <<>>, senders |-> <<>>, receivers |-> <<>>]]
             /\ ids' = Registered
             /\ proc' = [proc EXCEPT ![p].msgid =
                  [id |-> ipc_buildin(id, ids.seq), queue |-> ids.made]]

\* sys_msgget: a private queue, a new one, or the one with the key.
MsgGet(p) ==
    /\ proc[p].at = "idle"
    /\ \E key \in Keys, flags \in SUBSET {"CREATE", "EXCL"} :
         LET found == {i \in Live : entries[i].key = key}
             id    == Min(found)
         IN  IF key = IPC_PRIVATE THEN newque(p, key)
             ELSE IF found = {}
             THEN IF "CREATE" \in flags THEN newque(p, key)
                  ELSE UNCHANGED <<entries, ids, proc>>
             ELSE /\ proc' = IF "EXCL" \in flags THEN proc
                             ELSE [proc EXCEPT ![p].msgid =
                                    [id |-> ipc_buildin(id, entries[id].seq),
                                     queue |-> entries[id].queue]]
                  /\ UNCHANGED <<entries, ids>>
    /\ UNCHANGED <<pages, calls, stuck>>

\* The entry an identifier stands for.
get_msgq(msgid) ==
    LET id == msgid % SEQ_MULTIPLIER
    IN  IF id >= SIZE THEN None ELSE IF entries[id] = None THEN None
        ELSE IF msgid \div SEQ_MULTIPLIER # entries[id].seq THEN None ELSE id

testmsg(rqtype, type) ==
    IF rqtype = 0 THEN TRUE
    ELSE IF rqtype < 0 THEN rqtype + type <= 0 ELSE rqtype = type

-----------------------------------------------------------------------------
\* Sending.

\* sys_msgsnd up to the lock: the message is loaded (there is memory for it).
MsgSnd(p) ==
    /\ proc[p].at = "idle" /\ proc[p].msgid # None /\ WithinCalls
    /\ \E c \in Sends :
         LET data == LoadMsg(Source(calls + 1, c.size))
         IN  /\ proc' = [proc EXCEPT ![p].at = "snd",
                   ![p].want = c,
                   ![p].msg = [n |-> calls + 1, type |-> c.type, size |-> c.size,
                               data |-> data]]
             /\ pages' = pages + Len(data)
    /\ calls' = calls + 1
    /\ UNCHANGED <<entries, ids, stuck>>

\* pipeline_send looks for a receiver that takes the type of a message.
ReceiverFor(q, msg) ==
    LET fits == {i \in 1..Len(q.receivers) : testmsg(q.receivers[i].type, msg.type)}
    IN  IF fits = {} THEN {} ELSE {Min(fits)}

\* The message goes to that receiver.  One whose buffer is too small is taken
\* from the list first, and the walk goes on from it: it never ends.
PipelineSend(p, id, i) ==
    LET q == entries[id]
        r == q.receivers[i]
    IN  IF proc[p].msg.size > r.size
        THEN stuck' = TRUE /\ UNCHANGED <<entries, proc>>
        ELSE /\ entries' = [entries EXCEPT ![id].receivers = RemoveAt(@, i)]
             /\ proc' = [proc EXCEPT ![p] = Returned(p),
                   ![r.proc] = [Activated(r.proc) EXCEPT !.r_msg = proc[p].msg]]
             /\ UNCHANGED stuck

\* Mutant: the pages are kept.
FreedNever(m) == pages
\* free_msg.
Freed(m) == pages - Len(m.data)

\* sys_msgsnd from retry on: no queue, a full one, a receiver, or the list.
MsgSndRetry(p) ==
    LET id == get_msgq(proc[p].msgid.id)
        q  == entries[id]
    IN  /\ proc[p].at = "snd"
        /\ IF id = None
           THEN /\ pages' = Freed(proc[p].msg)
                /\ proc' = [proc EXCEPT ![p] = Returned(p)]
                /\ UNCHANGED <<entries, stuck>>
           ELSE IF q.sum + 1 > MAX_MSGNUM
           THEN IF proc[p].want.nowait
                THEN /\ pages' = Freed(proc[p].msg)
                     /\ proc' = [proc EXCEPT ![p] = Returned(p)]
                     /\ UNCHANGED <<entries, stuck>>
                ELSE /\ entries' = [entries EXCEPT ![id].senders = Append(@, p)]
                     /\ proc' = [proc EXCEPT ![p].at = "blocked"]
                     /\ UNCHANGED <<pages, stuck>>
           ELSE /\ IF ReceiverFor(q, proc[p].msg) # {}
                   THEN \E i \in ReceiverFor(q, proc[p].msg) : PipelineSend(p, id, i)
                   ELSE /\ entries' = [entries EXCEPT ![id].sum = @ + 1,
                              ![id].messages = Append(@, proc[p].msg)]
                        /\ proc' = [proc EXCEPT ![p] = Returned(p)]
                        /\ UNCHANGED stuck
                /\ UNCHANGED pages
        /\ UNCHANGED <<ids, calls>>

-----------------------------------------------------------------------------
\* Receiving.

MsgRcv(p) ==
    /\ proc[p].at = "idle" /\ proc[p].msgid # None /\ WithinCalls
    /\ \E c \in Receives : proc' = [proc EXCEPT ![p].at = "rcv", ![p].want = c]
    /\ calls' = calls + 1
    /\ UNCHANGED <<entries, ids, pages, stuck>>

\* The walk over the messages: a request below -1 goes on with a smaller
\* bound after each message that it takes.
FoundMsg(messages, rqtype) ==
    FoldLeft(LAMBDA acc, i :
               IF acc.done \/ ~testmsg(acc.type, messages[i].type) THEN acc
               ELSE [type |-> IF acc.type < -1 THEN acc.type + 1 ELSE acc.type,
                     found |-> i, done |-> acc.type >= -1],
             [type |-> rqtype, found |-> 0, done |-> FALSE],
             [i \in 1..Len(messages) |-> i]).found

\* Mutant: one sender only is woken.
WokenOne(q) == IF q.senders = <<>> THEN {} ELSE {Head(q.senders)}
\* ss_wakeup of the senders.
Woken(q) == ToSet(q.senders)

\* sys_msgrcv under the lock.
MsgRcvLocked(p) ==
    LET id == get_msgq(proc[p].msgid.id)
        q  == entries[id]
        want == proc[p].want
        i  == FoundMsg(q.messages, want.type)
    IN  /\ proc[p].at = "rcv"
        /\ IF id = None
           THEN proc' = [proc EXCEPT ![p] = Returned(p)] /\ UNCHANGED entries
           ELSE IF i # 0
           THEN IF q.messages[i].size > want.size
                THEN proc' = [proc EXCEPT ![p] = Returned(p)] /\ UNCHANGED entries
                ELSE /\ entries' = [entries EXCEPT ![id].sum = @ - 1,
                           ![id].messages = RemoveAt(@, i),
                           ![id].senders = SelectSeq(@, LAMBDA s : s \notin Woken(q))]
                     /\ proc' = [s \in Proc |->
                           IF s = p THEN [proc[p] EXCEPT !.at = "copy", !.msg = q.messages[i]]
                           ELSE IF s \in Woken(q) THEN Activated(s) ELSE proc[s]]
           ELSE IF want.nowait
           THEN proc' = [proc EXCEPT ![p] = Returned(p)] /\ UNCHANGED entries
           ELSE /\ entries' = [entries EXCEPT ![id].receivers =
                      Append(@, [proc |-> p, type |-> want.type, size |-> want.size])]
                /\ proc' = [proc EXCEPT ![p].at = "waiting", ![p].r_msg = Garbage]
        /\ UNCHANGED <<ids, pages, calls, stuck>>

\* Awake, r_msg is the message, or what was on the stack when nobody set it.
MsgRcvWoken(p) ==
    /\ proc[p].at = "woken"
    /\ IF proc[p].r_msg # Garbage
       THEN /\ proc' = [proc EXCEPT ![p].at = "copy", ![p].msg = proc[p].r_msg,
                                    ![p].r_msg = None]
            /\ UNCHANGED stuck
       ELSE \/ proc' = [proc EXCEPT ![p] = Returned(p)] /\ UNCHANGED stuck
            \/ stuck' = TRUE /\ UNCHANGED proc
    /\ UNCHANGED <<entries, ids, pages, calls>>

\* store_msg and free_msg.
MsgRcvCopy(p) ==
    LET m == proc[p].msg
    IN  /\ proc[p].at = "copy"
        /\ proc' = [proc EXCEPT ![p] = [Returned(p) EXCEPT !.at = "done", !.got =
              [n |-> m.n, size |-> m.size,
               data |-> StoreMsg(m, Min2(proc[p].want.size, m.size))]]]
        /\ pages' = Freed(m)
        /\ UNCHANGED <<entries, ids, calls, stuck>>

MsgRcvReturn(p) ==
    /\ proc[p].at = "done"
    /\ proc' = [proc EXCEPT ![p] = Returned(p)]
    /\ UNCHANGED <<entries, ids, pages, calls, stuck>>

-----------------------------------------------------------------------------
\* sys_msgctl with IPC_RMID, freeque.  ss_wakeup is called with the receivers:
\* they are awake with r_msg not set, expunge_all finds none, and the senders
\* sleep on.
MsgCtl(p) ==
    LET id == get_msgq(proc[p].msgid.id)
        q  == entries[id]
        wake == {r.proc : r \in ToSet(q.receivers)}
    IN  /\ proc[p].at = "idle" /\ proc[p].msgid # None
        /\ id # None
        /\ entries' = [entries EXCEPT ![id] = None]
        /\ ids' = [ids EXCEPT !.in_use = @ - 1]
        /\ proc' = [s \in Proc |-> IF s \in wake THEN Activated(s) ELSE proc[s]]
        /\ pages' = FoldLeft(LAMBDA n, m : n - Len(m.data), pages, q.messages)
        /\ UNCHANGED <<calls, stuck>>

\* A kill wakes a process that sleeps in a list: its node, on the stack it
\* leaves or enters a second time, stays linked.
Killed(p) ==
    /\ proc[p].at \in {"blocked", "waiting"}
    /\ stuck' = TRUE
    /\ UNCHANGED <<entries, ids, proc, pages, calls>>

Step(p) ==
    \/ MsgGet(p) \/ MsgSnd(p) \/ MsgSndRetry(p) \/ MsgRcv(p) \/ MsgRcvLocked(p)
    \/ MsgRcvWoken(p) \/ MsgRcvCopy(p) \/ MsgRcvReturn(p) \/ MsgCtl(p) \/ Killed(p)

Next == ~stuck /\ \E p \in Proc : Step(p)

Spec == Init /\ [][Next]_vars

-----------------------------------------------------------------------------
\* Properties.

\* The counts of msg_ids and of a queue are those of what they count, and a
\* process is in the list it sleeps in, once.
TypeOK ==
    /\ ids.in_use = Cardinality(Live) /\ ids.seq \in 0..(SEQ_MOD - 1)
    /\ \A i \in Live : entries[i].sum = Len(entries[i].messages)
                       /\ entries[i].sum \in 0..MAX_MSGNUM
    /\ \A i, j \in Live, p \in Proc :
         /\ p \in ToSet(entries[i].senders) => proc[p].at = "blocked"
         /\ p \in ToSet(entries[i].senders) \cap ToSet(entries[j].senders) => i = j
    /\ \A i \in Live : /\ IsInjective(entries[i].senders)
                       /\ \A r \in ToSet(entries[i].receivers) :
                             proc[r.proc].at = "waiting"

\* Nobody sleeps on what is there: a receiver waits only while no message in
\* the queue is of a type it takes, and a sender is blocked only while the
\* queue is full; sys_msgsnd and sys_msgrcv hand over or wake in every case.
NoMissedWakeup ==
    \A i \in Live :
        /\ \A r \in ToSet(entries[i].receivers), m \in ToSet(entries[i].messages) :
              ~testmsg(r.type, m.type)
        /\ entries[i].senders # <<>> => entries[i].sum = MAX_MSGNUM

\* An identifier reaches the queue it was given for and no other, whatever was
\* removed and made in its entry since: a process that kept one from before
\* IPC_RMID, or slept across it, is told EIDRM.  seq is an unsigned short, so
\* this ends when SEQ_MOD queues were made since that queue.
StaleIdRefused ==
    \A p \in Proc : proc[p].msgid # None =>
        LET id == get_msgq(proc[p].msgid.id)
        IN  id # None => LET since == entries[id].queue - proc[p].msgid.queue
                         IN  since = 0 \/ since >= SEQ_MOD

\* The messages that exist: queued, with a sender, or handed to a receiver.
InHand(p) == {m \in {proc[p].msg, proc[p].r_msg} : m \notin {None, Garbage}}
Queued == UNION {ToSet(entries[i].messages) : i \in Live}
Existing == Queued \cup UNION {InHand(p) : p \in Proc}

\* A message is delivered once: it is in one place, whoever sends, receives or
\* removes the queue; its pages are given back once; and a message of one page
\* arrives as it was sent, when the buffer takes it.
DeliveredOnce ==
    ~stuck =>
      /\ \A p, r \in Proc : p # r => InHand(p) \cap InHand(r) = {}
      /\ \A p \in Proc : InHand(p) \cap Queued = {}
      /\ pages = MapThenSumSet(LAMBDA m : Len(m.data), Existing)
      /\ \A p \in Proc : LET g == proc[p].got IN
           /\ g # None => \A m \in Existing : m.n # g.n
           /\ g # None => (g.size > MSG_MSGSZ \/ g.data = Source(g.n, g.size))
=============================================================================
