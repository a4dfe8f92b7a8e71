------------------------- MODULE AbstractSemaphore -------------------------
(***************************************************************************)
(* What the semaphores of sem.c promise, without locks, CPUs or process    *)
(* states: a counting semaphore whose posts are handed directly to its     *)
(* waiters, the oldest first.  A unit is either available, or was handed   *)
(* to one waiter, and nobody waits while a unit is available.              *)
(***************************************************************************)
EXTENDS SleepList

CONSTANTS Client, Sem, InitCount

VARIABLES
    count,      \* units available, per semaphore
    queue,      \* the waiting clients, the oldest first, per semaphore
    granted     \* clients whose wait has been granted and not yet returned

absVars == <<count, queue, granted>>

AInit ==
    /\ count = InitCount
    /\ queue = [s \in Sem |-> <<>>]
    /\ granted = {}

\* A unit is taken at once: wait_sem without sleeping, or get_sem.
Take(s) ==
    /\ count[s] > 0
    /\ count' = [count EXCEPT ![s] = @ - 1]
    /\ UNCHANGED <<queue, granted>>

TakeAll(s) ==
    /\ count[s] > 0
    /\ count' = [count EXCEPT ![s] = 0]
    /\ UNCHANGED <<queue, granted>>

\* A client starts to wait, only when no unit is available.
Join(p, s) ==
    /\ count[s] = 0
    /\ p \notin granted
    /\ \A r \in Sem : ~InList(queue[r], p)
    /\ queue' = [queue EXCEPT ![s] = Append(@, p)]
    /\ UNCHANGED <<count, granted>>

\* A post makes a unit available, only when nobody waits.
Put(s) ==
    /\ queue[s] = <<>>
    /\ count' = [count EXCEPT ![s] = @ + 1]
    /\ UNCHANGED <<queue, granted>>

\* A post serves the client that has waited longest.
Serve(s) ==
    /\ queue[s] # <<>>
    /\ queue' = [queue EXCEPT ![s] = Tail(@)]
    /\ granted' = granted \cup {Head(queue[s])}
    /\ UNCHANGED count

\* A granted wait returns.
Return(p) ==
    /\ p \in granted
    /\ granted' = granted \ {p}
    /\ UNCHANGED <<count, queue>>

\* A wait is given up; no unit is lost or gained, no other client moves.
Cancel(p, s) ==
    /\ InList(queue[s], p)
    /\ queue' = [queue EXCEPT ![s] = Detach(@, p)]
    /\ UNCHANGED <<count, granted>>

ANext ==
    \/ \E s \in Sem : Take(s) \/ TakeAll(s) \/ Put(s) \/ Serve(s)
    \/ \E p \in Client : Return(p) \/ \E s \in Sem : Join(p, s) \/ Cancel(p, s)

ASpec == AInit /\ [][ANext]_absVars
=============================================================================
