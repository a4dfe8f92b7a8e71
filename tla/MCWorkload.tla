----------------------------- MODULE MCWorkload -----------------------------
(***************************************************************************)
(* Finite workloads on Semaphore, to check that they finish.  Every        *)
(* process has a script of calls and exits when it is through.             *)
(*                                                                         *)
(* Fairness: a process that is on a CPU executes its next instruction, a   *)
(* process that is scheduled again and again makes progress (SF: the timer *)
(* preempts user mode only after a slice), and the idle loop yields for    *)
(* ever (WF).  Nothing is assumed of the choice pick_next makes.           *)
(***************************************************************************)
EXTENDS Semaphore, TLC

CONSTANTS p1, p2, p3

VARIABLE script

Call(op, arg) == [op |-> op, arg |-> arg]
W(s) == Call("wait", s)
U(s) == Call("unalertable_wait", s)
P(s) == Call("post", s)
K(p) == Call("kill", p)

NoUnits == [s \in Sem |-> 0]

\* Initial scripts: two waiters and a poster; a sleep lock contended by all;
\* waiters killed instead of posted to; a waiter killed while both are posted to.
Workloads ==
    LET s == AnySem
        Of(a, b, c) == (p1 :> a) @@ (p2 :> b) @@ (p3 :> c)
    IN  { Of(<<W(s)>>, <<U(s)>>, <<P(s), P(s)>>),
          Of(<<P(s), U(s), P(s)>>, <<W(s), P(s)>>, <<U(s), P(s)>>),
          Of(<<W(s)>>, <<W(s)>>, <<K(p1), K(p2)>>),
          Of(<<W(s)>>, <<U(s)>>, <<K(p1), P(s), P(s)>>) }

LiveInit ==
    /\ SchedInit(Proc)
    /\ semlock = [s \in Sem |-> Free]
    /\ val = InitVal
    /\ sleeplist = [s \in Sem |-> <<>>]
    /\ up = [p \in Proc |-> FALSE]
    /\ wsem = [t \in Thread |-> AnySem]
    /\ alertable = [p \in Proc |-> TRUE]
    /\ script \in Workloads

Wait(p, s, a) == WaitFast(p, s) \/ WaitEnqueue(p, s, a)
Post(p, s) == PostFree(p, s) \/ PostGrant(p, s, "post_act")

\* p starts the next call of its script.
Begin(p) ==
    /\ script[p] # <<>>
    /\ LET c == Head(script[p]) IN
          \/ c.op = "wait" /\ Wait(p, c.arg, TRUE)
          \/ c.op = "unalertable_wait" /\ Wait(p, c.arg, FALSE)
          \/ c.op = "post" /\ Post(p, c.arg)
          \/ c.op = "kill" /\ Kill(p, c.arg) /\ UNCHANGED semVars
    /\ script' = [script EXCEPT ![p] = Tail(@)]

\* p goes on with the call it is in, or exits.
Continue(p) ==
    /\ \/ \E c \in CPU : Runs(c, p) /\ (WaitLockSched(c) \/ WaitSched(c))
       \/ WaitGranted(p) \/ WaitInterrupted(p) \/ PostActivate(p)
       \/ KillAlert(p) /\ UNCHANGED semVars
       \/ /\ script[p] = <<>>
          /\ \E c \in CPU : Runs(c, p) /\ Exit(c)
          /\ UNCHANGED semVars
    /\ UNCHANGED script

Tick(c) == Yield(c) /\ UNCHANGED <<semVars, script>>

LiveNext ==
    \/ \E p \in Proc : Begin(p) \/ Continue(p)
    \/ \E c \in CPU : Tick(c)

liveVars == <<vars, script>>

LiveSpec ==
    /\ LiveInit /\ [][LiveNext]_liveVars
    /\ \A p \in Proc : SF_liveVars(Begin(p) \/ Continue(p))
    /\ \A c \in CPU : WF_liveVars(Runs(c, c) /\ Tick(c))

\* Every process of a workload with enough posts or kills gets through: each
\* wait returns, each killed sleeper is woken, and no spinlock order in
\* sem.c and sched.c leaves the CPUs waiting for each other.
EveryoneFinishes == <>[](\A p \in Proc : state[p] = "ZOMBIE")
=============================================================================
