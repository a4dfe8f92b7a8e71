------------------------------- MODULE Sched -------------------------------
(***************************************************************************)
(* The scheduler of src/src/kernel/sched.c, with the parts of proc.c and   *)
(* core.c that change a process's scheduling state: activation, alert,     *)
(* yield, exit and kill, on several CPUs.                                  *)
(*                                                                         *)
(* The kernel runs with traps masked, so a CPU leaves a process only       *)
(* inside simple_sched.  What one CPU does while it holds rqlock and takes *)
(* no other lock is one step.  rqlock is held across swtch and released by *)
(* the process switched to (the tail of simple_sched, or proc_entry), so   *)
(* its holder is a CPU and not a process.                                  *)
(*                                                                         *)
(* The run queue is the set of queued processes: the order in which the    *)
(* red-black tree gives them out, and the container hierarchy, are left    *)
(* out, so pick_next may return any queued process.                        *)
(***************************************************************************)
EXTENDS Integers, FiniteSets

CONSTANTS
    Proc,     \* the processes, the per-CPU idle processes excluded
    CPU,      \* the CPUs; the idle process of CPU c is written c itself
    Free      \* the value of a spinlock nobody holds

ASSUME SchedAssumption ==
    /\ Proc \cap CPU = {}
    /\ Free \notin Proc \cup CPU

Thread == Proc \cup CPU

ProcState ==
    {"UNUSED", "RUNNABLE", "RUNNING", "SLEEPING", "DEEPSLEEPING", "ZOMBIE"}

VARIABLES
    state,        \* proc->state
    killed,       \* proc->killed
    rq,           \* schqueue.rq: the processes in the run queue
    node_cnt,     \* schqueue.node_cnt
    thisproc,     \* cpus[c].sched.thisproc
    rqlock,       \* the CPU that holds rqlock, or Free
    panic_flag,   \* panic_flag of core.c
    pc,           \* where a thread is in the kernel
    target        \* the process a thread is about to activate or alert

queueVars == <<state, rq, node_cnt>>
schedVars == <<state, killed, rq, node_cnt, thisproc, rqlock, panic_flag,
               pc, target>>

\* CPU c is executing thread t.
Runs(c, t) == thisproc[c] = t

OnCPU(t) == \E c \in CPU : Runs(c, t)

(***************************************************************************)
(* define_init(sched): every CPU starts in its idle process.  First is the *)
(* process that define_init(root_proc) starts; the others are not started. *)
(***************************************************************************)
SchedInit(First) ==
    /\ state = [t \in Thread |-> IF t \in CPU THEN "RUNNING"
                                 ELSE IF t \in First THEN "RUNNABLE"
                                 ELSE "UNUSED"]
    /\ killed = [t \in Thread |-> FALSE]
    /\ rq = First
    /\ node_cnt = Cardinality(First)
    /\ thisproc = [c \in CPU |-> c]
    /\ rqlock = Free
    /\ panic_flag = FALSE
    /\ pc = [t \in Thread |-> "run"]
    /\ target = [t \in Thread |-> t]

(***************************************************************************)
(* _activate_proc: RUNNING, RUNNABLE and ZOMBIE are left alone, and so is  *)
(* DEEPSLEEPING on an alert; the other states become RUNNABLE and queued.  *)
(***************************************************************************)
\* Mutants: a RUNNABLE process is queued again; an alert wakes every sleeper.
WakesRunnable(p, onalert) ==
    \/ state[p] \in {"SLEEPING", "UNUSED", "RUNNABLE"}
    \/ state[p] = "DEEPSLEEPING" /\ ~onalert
WakesOnAlert(p, onalert) ==
    state[p] \in {"SLEEPING", "UNUSED", "DEEPSLEEPING"}

Wakes(p, onalert) ==
    \/ state[p] \in {"SLEEPING", "UNUSED"}
    \/ state[p] = "DEEPSLEEPING" /\ ~onalert

ActivateProc(p, onalert) ==
    /\ rqlock = Free
    /\ IF Wakes(p, onalert)
       THEN /\ state' = [state EXCEPT ![p] = "RUNNABLE"]
            /\ rq' = rq \cup {p}
            /\ node_cnt' = node_cnt + 1
       ELSE UNCHANGED queueVars

(***************************************************************************)
(* pick_next on CPU c when the queue holds Q: a queued process if there is *)
(* one, else c's idle process, and always the idle process after a panic.  *)
(***************************************************************************)
PickNext(c, Q) == IF panic_flag \/ Q = {} THEN {c} ELSE Q

(***************************************************************************)
(* simple_sched on CPU c, which holds rqlock or takes it in this step.  A  *)
(* killed process that is not exiting goes on running.  Otherwise          *)
(* update_this_state queues the process if it stays RUNNABLE (the idle     *)
(* process is never queued), pick_next takes the next one out of the queue *)
(* and update_this_proc installs it; it then releases rqlock.              *)
(***************************************************************************)
\* Mutant: the idle process is queued like the others.
RequeuedIdle(this, new_state) == IF new_state = "RUNNABLE" THEN {this} ELSE {}

Requeued(this, new_state) ==
    IF this \in Proc /\ new_state = "RUNNABLE" THEN {this} ELSE {}

\* Mutants: the next process stays in the queue; killed is not looked at.
SimpleSchedNotErased(c, new_state) ==
    LET this == thisproc[c]
        queued == rq \cup Requeued(this, new_state)
        cnt == node_cnt + Cardinality(Requeued(this, new_state))
    IN  /\ rqlock' = Free
        /\ IF killed[this] /\ new_state # "ZOMBIE"
           THEN UNCHANGED <<queueVars, thisproc>>
           ELSE \E next \in PickNext(c, queued) :
                  /\ state' = [state EXCEPT ![this] = new_state,
                                            ![next] = "RUNNING"]
                  /\ thisproc' = [thisproc EXCEPT ![c] = next]
                  /\ rq' = queued
                  /\ node_cnt' = cnt
SimpleSchedKilled(c, new_state) ==
    LET this == thisproc[c]
        queued == rq \cup Requeued(this, new_state)
        cnt == node_cnt + Cardinality(Requeued(this, new_state))
    IN  /\ rqlock' = Free
        /\ \E next \in PickNext(c, queued) :
             /\ state' = [state EXCEPT ![this] = new_state, ![next] = "RUNNING"]
             /\ thisproc' = [thisproc EXCEPT ![c] = next]
             /\ rq' = queued \ {next}
             /\ node_cnt' = IF next \in Proc THEN cnt - 1 ELSE cnt

SimpleSched(c, new_state) ==
    LET this == thisproc[c]
        queued == rq \cup Requeued(this, new_state)
        cnt == node_cnt + Cardinality(Requeued(this, new_state))
    IN  /\ rqlock' = Free
        /\ IF killed[this] /\ new_state # "ZOMBIE"
           THEN UNCHANGED <<queueVars, thisproc>>
           ELSE \E next \in PickNext(c, queued) :
                  /\ state' = [state EXCEPT ![this] = new_state,
                                            ![next] = "RUNNING"]
                  /\ thisproc' = [thisproc EXCEPT ![c] = next]
                  /\ rq' = queued \ {next}
                  /\ node_cnt' = IF next \in Proc THEN cnt - 1 ELSE cnt

-----------------------------------------------------------------------------
(***************************************************************************)
(* The scheduler's own entry points, taken by a thread at "run": in user   *)
(* mode, or in kernel code that holds none of the modelled locks.          *)
(***************************************************************************)

\* yield(): from the idle loop, the timer handler or a kernel thread.
Yield(c) ==
    /\ pc[thisproc[c]] = "run"
    /\ rqlock = Free
    /\ SimpleSched(c, "RUNNABLE")
    /\ UNCHANGED <<killed, panic_flag, pc, target>>

\* The idle loop leaves for good once panic_flag is set (core.c).
IdleStop(c) ==
    /\ Runs(c, c)
    /\ pc[c] = "run"
    /\ panic_flag
    /\ pc' = [pc EXCEPT ![c] = "off"]
    /\ UNCHANGED <<queueVars, killed, thisproc, rqlock, panic_flag, target>>

\* exit(): its last part, which gives the CPU away for good.  The process
\* tree is in another module.
Exit(c) ==
    /\ thisproc[c] \in Proc
    /\ pc[thisproc[c]] = "run"
    /\ rqlock = Free
    /\ SimpleSched(c, "ZOMBIE")
    /\ pc' = [pc EXCEPT ![thisproc[c]] = "off"]
    /\ UNCHANGED <<killed, panic_flag, target>>

\* start_proc(): its activation of a process that was never started.
StartProc(t, p) ==
    /\ OnCPU(t)
    /\ pc[t] = "run"
    /\ state[p] = "UNUSED"
    /\ ActivateProc(p, FALSE)
    /\ UNCHANGED <<killed, thisproc, rqlock, panic_flag, pc, target>>

\* kill(), first part: under plock, set the flag of a process of the tree.
Kill(t, p) ==
    /\ OnCPU(t)
    /\ t \in Proc
    /\ pc[t] = "run"
    /\ state[p] # "UNUSED"
    /\ killed' = [killed EXCEPT ![p] = TRUE]
    /\ pc' = [pc EXCEPT ![t] = "kill_alert"]
    /\ target' = [target EXCEPT ![t] = p]
    /\ UNCHANGED <<queueVars, thisproc, rqlock, panic_flag>>

\* Mutant: kill() does not alert.
KillSilent(t) ==
    /\ pc[t] = "kill_alert"
    /\ pc' = [pc EXCEPT ![t] = "run"]
    /\ target' = [target EXCEPT ![t] = t]
    /\ UNCHANGED <<queueVars, killed, thisproc, rqlock, panic_flag>>

\* kill(), second part: alert_proc, after plock was released.
KillAlert(t) ==
    /\ pc[t] = "kill_alert"
    /\ ActivateProc(target[t], TRUE)
    /\ pc' = [pc EXCEPT ![t] = "run"]
    /\ target' = [target EXCEPT ![t] = t]
    /\ UNCHANGED <<killed, thisproc, rqlock, panic_flag>>

-----------------------------------------------------------------------------
(***************************************************************************)
(* What the scheduler keeps true.                                          *)
(***************************************************************************)
\* No process runs on two CPUs at once, and a process is RUNNING exactly
\* while a CPU executes it: rqlock is kept across swtch, so nobody picks a
\* process whose kernel stack is still in use (sched.c, simple_sched).
RunningIsCurrent ==
    /\ \A t \in Thread : state[t] = "RUNNING" <=> OnCPU(t)
    /\ \A c, d \in CPU : thisproc[c] = thisproc[d] => c = d

\* The run queue holds the RUNNABLE processes, each once, and node_cnt counts
\* them: the ASSERTs on _rb_insert, on node_cnt and on next->state in sched.c
\* cannot fail.
QueueExact ==
    /\ rq = {p \in Proc : state[p] = "RUNNABLE"}
    /\ node_cnt = Cardinality(rq)

\* Both, with the types they need and what sets the idle processes apart: an
\* idle process runs on its own CPU only and is never queued.
QueueInv ==
    /\ state \in [Thread -> ProcState]
    /\ rq \in SUBSET Proc /\ IsFiniteSet(rq)
    /\ node_cnt \in Int
    /\ thisproc \in [CPU -> Thread]
    /\ RunningIsCurrent
    /\ QueueExact
    /\ \A c \in CPU : /\ thisproc[c] \in Proc \cup {c}
                      /\ state[c] \in {"RUNNABLE", "RUNNING"}
=============================================================================
