----------------------------- MODULE Semaphore -----------------------------
(***************************************************************************)
(* The semaphores of src/src/common/sem.c on top of the scheduler.         *)
(*                                                                         *)
(* A step is what one CPU does between two points where it may have to     *)
(* wait for a spinlock.  The hand-over that keeps a wakeup from being lost *)
(* is therefore visible: _wait_sem takes rqlock while it still holds the   *)
(* semaphore's lock, releases the semaphore's lock, and only then sleeps;  *)
(* _post_sem holds the semaphore's lock while it waits for rqlock.         *)
(*                                                                         *)
(* Control points of a thread (pc):                                        *)
(*   "run"         outside the semaphore operations                        *)
(*   "wait_lock"   in _wait_sem, listed, at lock_for_sched (sem.c:59)      *)
(*   "wait_sched"  in _wait_sem, rqlock held, at sched (sem.c:61)          *)
(*   "wait_woken"  in _wait_sem, at the second acquire_spinlock (sem.c:62) *)
(*   "post_act"    in _post_sem called by post_sem, at activate_proc       *)
(*   "all_act"     in _post_sem called by post_all_sem, at activate_proc   *)
(***************************************************************************)
EXTENDS Sched, SleepList

CONSTANTS
    Sem,           \* the semaphores
    InitVal,       \* init_sem's second argument for each of them
    MaxVal,        \* bound on val: no post beyond it
    Alertable,     \* the kinds of wait in use: wait_sem is TRUE,
                   \* unalertable_wait_sem is FALSE
    Victims        \* the processes kill() is called on

ASSUME SemAssumption ==
    /\ Sem # {}
    /\ InitVal \in [Sem -> Nat]
    /\ MaxVal \in Nat
    /\ Alertable \subseteq BOOLEAN
    /\ Victims \subseteq Proc

VARIABLES
    semlock,      \* sem->lock: the thread that holds it, or Free
    val,          \* sem->val
    sleeplist,    \* sem->sleeplist, the oldest waiter first
    up,           \* wait->up of the wait a process is in
    wsem,         \* the semaphore a thread operates on
    alertable     \* _wait_sem's second argument

semVars == <<semlock, val, sleeplist, up, wsem, alertable>>
vars == <<schedVars, semVars>>

\* The semaphore wsem[t] of a thread that is in no semaphore operation.
AnySem == CHOOSE s \in Sem : TRUE

Init ==
    /\ \E p \in Proc : SchedInit({p})
    /\ semlock = [s \in Sem |-> Free]
    /\ val = InitVal
    /\ sleeplist = [s \in Sem |-> <<>>]
    /\ up = [p \in Proc |-> FALSE]
    /\ wsem = [t \in Thread |-> AnySem]
    /\ alertable = [p \in Proc |-> TRUE]

-----------------------------------------------------------------------------
\* A thread that is running and about to take the free lock of s.
Enters(t, s) == OnCPU(t) /\ pc[t] = "run" /\ semlock[s] = Free

\* _wait_sem when --val >= 0.
WaitFast(p, s) ==
    /\ Enters(p, s)
    /\ val[s] - 1 >= 0
    /\ val' = [val EXCEPT ![s] = @ - 1]
    /\ UNCHANGED <<schedVars, semlock, sleeplist, up, wsem, alertable>>

\* _wait_sem when --val < 0: list the WaitData and keep the lock.
WaitEnqueue(p, s, a) ==
    /\ Enters(p, s)
    /\ val[s] - 1 < 0
    /\ val' = [val EXCEPT ![s] = @ - 1]
    /\ sleeplist' = [sleeplist EXCEPT ![s] = Append(@, p)]
    /\ up' = [up EXCEPT ![p] = FALSE]
    /\ semlock' = [semlock EXCEPT ![s] = p]
    /\ wsem' = [wsem EXCEPT ![p] = s]
    /\ alertable' = [alertable EXCEPT ![p] = a]
    /\ pc' = [pc EXCEPT ![p] = "wait_lock"]
    /\ UNCHANGED <<queueVars, killed, thisproc, rqlock, panic_flag, target>>

\* Mutant: the semaphore is unlocked before rqlock is taken, which sched then
\* takes by itself.
WaitUnlockFirst(c) ==
    LET p == thisproc[c] IN
    /\ pc[p] = "wait_lock"
    /\ semlock' = [semlock EXCEPT ![wsem[p]] = Free]
    /\ pc' = [pc EXCEPT ![p] = "wait_sched"]
    /\ UNCHANGED <<queueVars, killed, thisproc, rqlock, panic_flag, target,
                   val, sleeplist, up, wsem, alertable>>

\* lock_for_sched, then release_spinlock of the semaphore.
WaitLockSched(c) ==
    LET p == thisproc[c] IN
    /\ pc[p] = "wait_lock"
    /\ rqlock = Free
    /\ rqlock' = c
    /\ semlock' = [semlock EXCEPT ![wsem[p]] = Free]
    /\ pc' = [pc EXCEPT ![p] = "wait_sched"]
    /\ UNCHANGED <<queueVars, killed, thisproc, panic_flag, target,
                   val, sleeplist, up, wsem, alertable>>

\* sched(SLEEPING or DEEPSLEEPING).
WaitSched(c) ==
    LET p == thisproc[c] IN
    /\ pc[p] = "wait_sched"
    /\ SimpleSched(c, IF alertable[p] THEN "SLEEPING" ELSE "DEEPSLEEPING")
    /\ pc' = [pc EXCEPT ![p] = "wait_woken"]
    /\ UNCHANGED <<killed, panic_flag, target, semVars>>

\* The rest of _wait_sem when a post woke it: returns true.
WaitGranted(p) ==
    /\ OnCPU(p)
    /\ pc[p] = "wait_woken"
    /\ semlock[wsem[p]] = Free
    /\ up[p]
    /\ up' = [up EXCEPT ![p] = FALSE]
    /\ pc' = [pc EXCEPT ![p] = "run"]
    /\ wsem' = [wsem EXCEPT ![p] = AnySem]
    /\ alertable' = [alertable EXCEPT ![p] = TRUE]
    /\ UNCHANGED <<queueVars, killed, thisproc, rqlock, panic_flag, target,
                   semlock, val, sleeplist>>

\* Mutant: an interrupted wait does not give back its decrement of val.
WaitInterruptedUncounted(p) ==
    /\ OnCPU(p)
    /\ pc[p] = "wait_woken"
    /\ semlock[wsem[p]] = Free
    /\ ~up[p]
    /\ sleeplist' = [sleeplist EXCEPT ![wsem[p]] = Detach(@, p)]
    /\ pc' = [pc EXCEPT ![p] = IF alertable[p] THEN "run" ELSE "panic"]
    /\ panic_flag' = (panic_flag \/ ~alertable[p])
    /\ wsem' = [wsem EXCEPT ![p] = AnySem]
    /\ alertable' = [alertable EXCEPT ![p] = TRUE]
    /\ UNCHANGED <<queueVars, killed, thisproc, rqlock, target, semlock, val, up>>

\* The rest of _wait_sem when nothing set up: undo the wait and return false,
\* on which unalertable_wait_sem panics (_panic of core.c).
WaitInterrupted(p) ==
    /\ OnCPU(p)
    /\ pc[p] = "wait_woken"
    /\ semlock[wsem[p]] = Free
    /\ ~up[p]
    /\ val' = [val EXCEPT ![wsem[p]] = @ + 1]
    /\ sleeplist' = [sleeplist EXCEPT ![wsem[p]] = Detach(@, p)]
    /\ pc' = [pc EXCEPT ![p] = IF alertable[p] THEN "run" ELSE "panic"]
    /\ panic_flag' = (panic_flag \/ ~alertable[p])
    /\ wsem' = [wsem EXCEPT ![p] = AnySem]
    /\ alertable' = [alertable EXCEPT ![p] = TRUE]
    /\ UNCHANGED <<queueVars, killed, thisproc, rqlock, target, semlock, up>>

-----------------------------------------------------------------------------
\* _post_sem when ++val > 0.
PostFree(t, s) ==
    /\ Enters(t, s)
    /\ val[s] + 1 > 0
    /\ val[s] < MaxVal
    /\ val' = [val EXCEPT ![s] = @ + 1]
    /\ UNCHANGED <<schedVars, semlock, sleeplist, up, wsem, alertable>>

\* Mutants: the newest waiter is chosen; the chosen waiter is not marked.
GrantNewest(t, s) ==
    LET n == Len(sleeplist[s]) IN
    /\ val' = [val EXCEPT ![s] = @ + 1]
    /\ sleeplist' = [sleeplist EXCEPT ![s] = SubSeq(@, 1, n - 1)]
    /\ up' = [up EXCEPT ![sleeplist[s][n]] = TRUE]
    /\ target' = [target EXCEPT ![t] = sleeplist[s][n]]
GrantUnmarked(t, s) ==
    /\ val' = [val EXCEPT ![s] = @ + 1]
    /\ target' = [target EXCEPT ![t] = Head(sleeplist[s])]
    /\ UNCHANGED <<sleeplist, up>>

\* _post_sem when ++val <= 0, up to activate_proc: the oldest waiter of s is
\* detached and marked.
Grant(t, s) ==
    LET w == Head(sleeplist[s]) IN
    /\ val' = [val EXCEPT ![s] = @ + 1]
    /\ sleeplist' = [sleeplist EXCEPT ![s] = Tail(@)]
    /\ up' = [up EXCEPT ![w] = TRUE]
    /\ target' = [target EXCEPT ![t] = w]

\* post_sem (next = "post_act") and post_all_sem ("all_act") on a semaphore
\* with waiters.
PostGrant(t, s, next) ==
    /\ Enters(t, s)
    /\ val[s] + 1 <= 0
    /\ Grant(t, s)
    /\ semlock' = [semlock EXCEPT ![s] = t]
    /\ wsem' = [wsem EXCEPT ![t] = s]
    /\ pc' = [pc EXCEPT ![t] = next]
    /\ UNCHANGED <<queueVars, killed, thisproc, rqlock, panic_flag, alertable>>

\* activate_proc of the waiter, and the unlock that ends post_sem, or
\* post_all_sem once no waiter is left (it then posts and takes one unit).
Finish(t) ==
    /\ semlock' = [semlock EXCEPT ![wsem[t]] = Free]
    /\ wsem' = [wsem EXCEPT ![t] = AnySem]
    /\ target' = [target EXCEPT ![t] = t]
    /\ pc' = [pc EXCEPT ![t] = "run"]
    /\ UNCHANGED <<val, sleeplist, up>>

PostActivate(t) ==
    /\ pc[t] = "post_act"
    /\ ActivateProc(target[t], FALSE)
    /\ Finish(t)
    /\ UNCHANGED <<killed, thisproc, rqlock, panic_flag, alertable>>

\* Mutant: post_all_sem unlocks the semaphore between two posts.
PostAllUnlocks(t) ==
    LET s == wsem[t] IN
    /\ pc[t] = "all_act"
    /\ ActivateProc(target[t], FALSE)
    /\ \/ /\ val[s] + 1 <= 0
          /\ Grant(t, s)
          /\ semlock' = [semlock EXCEPT ![s] = Free]
          /\ UNCHANGED <<wsem, pc>>
       \/ val[s] + 1 > 0 /\ Finish(t)
    /\ UNCHANGED <<killed, thisproc, rqlock, panic_flag, alertable>>

PostAllActivate(t) ==
    LET s == wsem[t] IN
    /\ pc[t] = "all_act"
    /\ ActivateProc(target[t], FALSE)
    /\ \/ val[s] + 1 <= 0 /\ Grant(t, s) /\ UNCHANGED <<semlock, wsem, pc>>
       \/ val[s] + 1 > 0 /\ Finish(t)
    /\ UNCHANGED <<killed, thisproc, rqlock, panic_flag, alertable>>

\* get_all_sem on a semaphore with a positive val; get_sem then is WaitFast,
\* and both leave the semaphore alone otherwise.
GetAll(t, s) ==
    /\ Enters(t, s)
    /\ val[s] > 0
    /\ val' = [val EXCEPT ![s] = 0]
    /\ UNCHANGED <<schedVars, semlock, sleeplist, up, wsem, alertable>>

-----------------------------------------------------------------------------
\* Every CPU has stopped after a panic.
Halted ==
    /\ \A c \in CPU : pc[thisproc[c]] \in {"off", "panic"}
    /\ UNCHANGED vars

SchedNext ==
    /\ \/ \E c \in CPU : Yield(c) \/ IdleStop(c) \/ Exit(c)
       \/ \E t \in Thread, p \in Proc : StartProc(t, p)
       \/ \E t \in Proc, p \in Victims : Kill(t, p)
       \/ \E t \in Proc : KillAlert(t)
    /\ UNCHANGED semVars

WaitNext ==
    \/ \E p \in Proc, s \in Sem : WaitFast(p, s)
    \/ \E p \in Proc, s \in Sem, a \in Alertable : WaitEnqueue(p, s, a)
    \/ \E c \in CPU : WaitLockSched(c) \/ WaitSched(c)
    \/ \E p \in Proc : WaitGranted(p) \/ WaitInterrupted(p)

PostNext ==
    \/ \E t \in Thread, s \in Sem :
         \/ PostFree(t, s)
         \/ PostGrant(t, s, "post_act")
         \/ PostGrant(t, s, "all_act")
         \/ GetAll(t, s)
    \/ \E t \in Thread : PostActivate(t) \/ PostAllActivate(t)

Next == SchedNext \/ WaitNext \/ PostNext \/ Halted

Spec == Init /\ [][Next]_vars

-----------------------------------------------------------------------------
(***************************************************************************)
(* Properties.                                                             *)
(***************************************************************************)
WaitPC == {"wait_lock", "wait_sched", "wait_woken"}
PostPC == {"post_act", "all_act"}
LockPC == {"wait_lock"} \cup PostPC
PC == {"run", "off", "panic", "kill_alert"} \cup WaitPC \cup PostPC

\* The values the kernel's scheduling and semaphore state can take.
TypeOK ==
    /\ state \in [Thread -> ProcState]
    /\ killed \in [Thread -> BOOLEAN]
    /\ rq \in SUBSET Proc
    /\ node_cnt \in Int
    /\ thisproc \in [CPU -> Thread]
    /\ rqlock \in CPU \cup {Free}
    /\ panic_flag \in BOOLEAN
    /\ pc \in [Thread -> PC]
    /\ target \in [Thread -> Thread]
    /\ semlock \in [Sem -> Thread \cup {Free}]
    /\ val \in [Sem -> Int]
    /\ sleeplist \in [Sem -> Seq(Proc)]
    /\ up \in [Proc -> BOOLEAN]
    /\ wsem \in [Thread -> Sem]
    /\ alertable \in [Proc -> BOOLEAN]

\* A negative val counts the waiters in the sleeplist and a val that is not
\* negative means there are none, so the ASSERTs of sem.c (++val <= 0 on an
\* interrupted wait, a sleeplist that is not empty on a post) cannot fail.
ValCountsSleepers ==
    \A s \in Sem :
        /\ Len(sleeplist[s]) = (IF val[s] < 0 THEN -val[s] ELSE 0)
        /\ Distinct(sleeplist[s])

Asleep(p) == state[p] \in {"SLEEPING", "DEEPSLEEPING"}

\* No wakeup is lost: a sleeping process is either still in its sleeplist,
\* where a later post finds it, or the poster that took it out has yet to
\* activate it.  It is never asleep after its activation was dropped.
NoLostWakeup ==
    \A p \in Proc : Asleep(p) =>
        /\ pc[p] = "wait_woken"
        /\ \/ ~up[p] /\ InList(sleeplist[wsem[p]], p)
           \/ up[p] /\ \E t \in Thread : pc[t] \in PostPC /\ target[t] = p

\* A kill is not lost either: a killed process is in an alertable sleep only
\* as long as the killer has yet to alert it.  simple_sched reads killed
\* under rqlock, kill sets it before it takes rqlock for the alert.
NoLostKill ==
    \A p \in Proc : killed[p] /\ state[p] = "SLEEPING" =>
        \E t \in Proc : pc[t] = "kill_alert" /\ target[t] = p

\* The assertion of unalertable_wait_sem fails only in a process that was
\* killed: no alert ends a DEEPSLEEPING wait.
OnlyKilledPanics ==
    panic_flag => \E p \in Proc : pc[p] = "panic" /\ killed[p]

\* A process leaves DEEPSLEEPING only after a post chose it; an alert never
\* wakes it (_activate_proc with onalert).
DeepSleepEndsByPost ==
    [][\A p \in Proc :
          state[p] = "DEEPSLEEPING" /\ state'[p] # "DEEPSLEEPING" => up[p]]_vars

\* doc/lab6.md: an unalertable wait is not interrupted by kill and has no
\* return value; so its assertion never stops the kernel.
UnalertableWaitUninterrupted == ~panic_flag

-----------------------------------------------------------------------------
(***************************************************************************)
(* The inductive invariant: what the locks protect, and where a thread     *)
(* stands when it is in a sleeplist, marked up, or about to be activated.  *)
(***************************************************************************)

\* A spinlock is held exactly by the thread whose control point says so, and
\* a thread inside a critical section keeps its CPU.
SemLockHolder ==
    \A t \in Thread, s \in Sem :
        semlock[s] = t <=> pc[t] \in LockPC /\ wsem[t] = s

RqLockHolder ==
    \A c \in CPU : rqlock = c <=> pc[thisproc[c]] = "wait_sched"

HoldersRun ==
    \A t \in Thread :
        pc[t] \in LockPC \cup {"wait_sched", "kill_alert", "panic"} => OnCPU(t)

\* An idle process runs on its own CPU only and never waits.
IdleInv ==
    \A c \in CPU :
        /\ thisproc[c] \in Proc \cup {c}
        /\ state[c] \in {"RUNNABLE", "RUNNING"}
        /\ pc[c] \notin WaitPC

\* A process is listed while it waits and was not chosen by a post.
ListedIffWaiting ==
    \A p \in Proc, s \in Sem :
        InList(sleeplist[s], p) <=> pc[p] \in WaitPC /\ wsem[p] = s /\ ~up[p]

\* A post chooses a waiter only while it can take the semaphore's lock.
ChosenWaits ==
    \A p \in Proc : up[p] => pc[p] \in {"wait_sched", "wait_woken"}

\* The process a poster is about to activate was chosen; an alert goes to a
\* process.
TargetOK ==
    \A t \in Thread :
        /\ pc[t] \in PostPC =>
              target[t] \in Proc /\ up[target[t]] /\ wsem[target[t]] = wsem[t]
        /\ pc[t] = "kill_alert" => target[t] \in Proc

\* A chosen process that is asleep, or about to be, has a poster that has yet
\* to activate it.
ChosenHasPoster ==
    \A p \in Proc : up[p] /\ (pc[p] = "wait_sched" \/ Asleep(p)) =>
        \E t \in Thread : pc[t] \in PostPC /\ target[t] = p

\* The kind of sleep is the kind of wait, and an unalertable wait of a process
\* that was not killed is over only once it was chosen.
SleepKind ==
    \A p \in Proc :
        /\ state[p] = "SLEEPING" => alertable[p]
        /\ state[p] = "DEEPSLEEPING" => ~alertable[p]
        /\ Asleep(p) => pc[p] = "wait_woken"
        /\ /\ pc[p] = "wait_woken"
           /\ ~alertable[p] /\ ~killed[p]
           /\ state[p] # "DEEPSLEEPING"
           => up[p]

SemInv ==
    /\ TypeOK
    /\ RunningIsCurrent
    /\ QueueExact /\ IsFiniteSet(rq)
    /\ ValCountsSleepers
    /\ SemLockHolder /\ RqLockHolder /\ HoldersRun
    /\ IdleInv
    /\ ListedIffWaiting /\ ChosenWaits /\ TargetOK /\ ChosenHasPoster
    /\ SleepKind
    /\ NoLostKill
    /\ OnlyKilledPanics
=============================================================================
