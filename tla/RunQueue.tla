------------------------------ MODULE RunQueue ------------------------------
(***************************************************************************)
(* Which process runs next: the run queues of the containers, vruntime and *)
(* pick_next of src/src/kernel/sched.c, with the timers of                 *)
(* src/src/kernel/cpu.c and the clock of src/src/driver/clock.c that call  *)
(* yield when a slice is over.  Module Sched leaves this choice open.      *)
(*                                                                         *)
(* Processes and containers are numbers, their addresses; a CPU stands for *)
(* its idle process too.  Every container has a tree of its RUNNABLE       *)
(* processes and of its sub-containers.  What is done under rqlock is one  *)
(* step, and so is one turn of the loop of timer_clock_handler.  The       *)
(* weights and limits of the containers are all 1 in the code and do not   *)
(* appear.  A killed process returns from                                  *)
(* simple_sched at once, and a panic elsewhere makes pick_next return the  *)
(* idle process: both are in Sched.                                        *)
(***************************************************************************)
EXTENDS RbTree

CONSTANTS
    CPU, Proc, Container,
    root_proc, root_container,
    ContainerOf,      \* proc->container
    ParentOf,         \* container->parent, of the others than the root
    rootproc,         \* container->rootproc
    OddIdle,          \* the CPUs whose idle process has a pid other than 0:
                      \* the pid of an idle process is never written
    TIMER_ELAPSE, SLICE,
    HELLO,            \* the 5000 ms of hello_timer
    RESET,            \* the 1000 ms of reset_clock
    MaxTime, MaxVruntime \* bounds on the time and on vruntime

ASSUME RunQueueAssumption ==
    /\ CPU \cap (Proc \cup Container) = {}
    /\ Proc \cap Container = {}
    /\ Null \notin CPU \cup Proc \cup Container
    /\ root_container \in Container /\ root_proc \in Proc
    /\ ContainerOf \in [Proc -> Container]
    /\ ParentOf \in [Container \ {root_container} -> Container]
    /\ rootproc \in [Container -> Proc]
    /\ \A c \in Container : ContainerOf[rootproc[c]] = c
    /\ OddIdle \subseteq CPU
    /\ {TIMER_ELAPSE, SLICE, HELLO, RESET, MaxTime, MaxVruntime} \subseteq Nat

SubContainer == Container \ {root_container}
Node == Proc \cup SubContainer
QueueOf(n) == IF n \in Proc THEN ContainerOf[n] ELSE ParentOf[n]

hello_timer == 1
sched_timer == 2
Timer == {hello_timer, sched_timer}

VARIABLES
    state,         \* proc->state
    active,        \* the containers that are in the queue of their parent
    creating,      \* the container for which a CPU is in create_container
    rq,            \* schqueue.rq of each container
    node_cnt,      \* schqueue.node_cnt
    vruntime,      \* schinfo.vruntime of the processes and containers
    start_time,    \* schinfo.start_time of the process on a CPU: that of a
                   \* process that is on none is never read
    skip,          \* the containers with schinfo.skip
    thisproc,      \* cpus[c].sched.thisproc
    timer,         \* cpus[c].timer with _key and triggered of its timers, the
                   \* time its clock interrupt is due, and a failed ASSERT
    sched_timer_set,
    online,        \* cpus[c].online
    handling,      \* the threads inside the loop of timer_clock_handler
    now,           \* get_timestamp_ms()
    panic_flag,    \* an ASSERT failed
    picked         \* history: what pick_next returned in the last step

queueVars == <<state, active, creating, rq, node_cnt, vruntime, start_time,
               skip, thisproc>>
clockVars == <<timer, sched_timer_set, online, handling>>
vars == <<queueVars, clockVars, now, panic_flag, picked>>

(***************************************************************************)
(* The queues of one container after its node n went in or out.            *)
(***************************************************************************)
Inserted(q, n, key) == [q EXCEPT ![QueueOf(n)] = Insert(@, n, key)]
Erased(q, n) == [q EXCEPT ![QueueOf(n)] = Erase(@, n)]

\* define_init(sched), init_container, init_schinfo: root_proc is queued.
Init ==
    /\ state = [p \in Proc \cup CPU |-> IF p \in CPU THEN "RUNNING"
                                        ELSE IF p = root_proc THEN "RUNNABLE"
                                        ELSE "UNUSED"]
    /\ active = {root_container}
    /\ creating = [c \in CPU |-> Null]
    /\ vruntime = [n \in Node |-> 0]
    /\ rq = Inserted([c \in Container |-> EmptyTree({n \in Node : QueueOf(n) = c})],
                     root_proc, vruntime)
    /\ node_cnt = [c \in Container |-> IF c = root_container THEN 1 ELSE 0]
    /\ start_time = [c \in CPU |-> 0]
    /\ skip = {}
    /\ thisproc = [c \in CPU |-> c]
    /\ timer = [c \in CPU |-> [tree |-> EmptyTree(Timer),
                               key |-> [t \in Timer |-> 0],
                               triggered |-> [t \in Timer |-> FALSE],
                               clock |-> 0, failed |-> FALSE]]
    /\ sched_timer_set = [c \in CPU |-> FALSE]
    /\ online = {}
    /\ handling = {}
    /\ now = 0
    /\ panic_flag = FALSE
    /\ picked = Null

\* CPU c executes neither the clock handler nor create_container.
Running(c) ==
    /\ c \in online
    /\ ~panic_flag
    /\ thisproc[c] \notin handling
    /\ creating[c] = Null

(***************************************************************************)
(* The timers of one CPU.                                                  *)
(***************************************************************************)
\* Mutant: the clock is set to the timer at hand, not to the first one.
ClockSetLast(tm, t) == [tm EXCEPT !.clock = tm.key[t]]

\* __timer_set_clock and reset_clock, after timer t went in or out.
ClockSet(tm, t) ==
    Once(tm, LAMBDA x :
        LET first == First(x.tree)
        IN  [x EXCEPT !.clock = IF first = Null THEN now + RESET
                                ELSE Max({now, x.key[first]})])

Elapse(t) == IF t = sched_timer THEN TIMER_ELAPSE ELSE HELLO

set_cpu_timer(tm, t) ==
    LET key == [tm.key EXCEPT ![t] = now + Elapse(t)]
    IN  ClockSet([tm EXCEPT !.triggered[t] = FALSE, !.key = key,
                            !.tree = Insert(@, t, key),
                            !.failed = @ \/ Finds(tm.tree, t, key)], t)

cancel_cpu_timer(tm, t) ==
    ClockSet([tm EXCEPT !.tree = Erase(@, t),
                        !.failed = @ \/ tm.triggered[t]], t)

(***************************************************************************)
(* pick_next: the first process in the order of the trees, from the root   *)
(* container down; a container in which there is none is skipped.          *)
(***************************************************************************)
\* _rb_first_ex_p: the first node that is not a skipped container.
FirstEx(t, skipped) ==
    Once(SelectSeq(InOrder(t, t.root), LAMBDA n : n \notin skipped),
         LAMBDA rest : IF rest = << >> THEN Null ELSE Head(rest))

\* pick_next_r: the process it finds, Null for the idle process, and the
\* containers marked on the way.
RECURSIVE PickNextR(_, _, _, _)
PickNextR(q, cnt, c, skipped) ==
    Once(FirstEx(q[c], skipped), LAMBDA n :
        IF c # root_container /\ cnt[c] # 0 /\ n = Null
        THEN PickNextR(q, cnt, ParentOf[c], skipped \cup {c})
        ELSE IF n \in Proc \cup {Null} THEN [proc |-> n, skip |-> skipped]
        ELSE IF cnt[n] = 0 THEN PickNextR(q, cnt, c, skipped \cup {n})
        ELSE PickNextR(q, cnt, n, skipped))

\* Mutant: only the containers of the root's own queue are cleared.
FixSkipOuter(q, marked) == marked \ {n \in marked : QueueOf(n) = root_container}

\* _rb_fix_skip clears every container it reaches from the root's tree.
RECURSIVE Reached(_, _)
Reached(q, c) ==
    LET walk == InOrder(q[c], q[c].root)
        inner == {walk[i] : i \in DOMAIN walk} \ Proc
    IN  inner \cup UNION {Reached(q, d) : d \in inner}
FixSkip(q, marked) == marked \ Reached(q, root_container)

(***************************************************************************)
(* update_this_state: a process that stays RUNNABLE is charged the time    *)
(* since its start_time and queued, and every container around it is       *)
(* charged and moved in its parent's tree.                                 *)
(***************************************************************************)
Around[c \in Container] ==
    IF c = root_container THEN << >> ELSE <<c>> \o Around[ParentOf[c]]

Charged(c, p) ==
    LET path == Around[ContainerOf[p]]
        delta == now - start_time[c]
    IN  [n \in Node |->
            IF n = p \/ \E i \in DOMAIN path : path[i] = n
            THEN vruntime[n] + delta ELSE vruntime[n]]

\* Mutant: the containers stay where they are in their parents' trees.
MovedNever(q, path, key) == q

\* The containers of path moved, the innermost one first.
RECURSIVE Moved(_, _, _)
Moved(q, path, key) ==
    IF path = << >> THEN q
    ELSE Moved(Inserted(Erased(q, Head(path)), Head(path), key), Tail(path),
               key)

\* The ASSERT on the insertion of n.
InsertFails(n, key) == Finds(rq[QueueOf(n)], n, key)

UpdateThisState(c, new_state) ==
    LET this == thisproc[c]
    IN  IF this \in Proc /\ new_state = "RUNNABLE"
        THEN Once(Charged(c, this), LAMBDA key :
                 [key |-> key,
                  rq |-> Moved(Inserted(rq, this, key),
                               Around[ContainerOf[this]], key),
                  cnt |-> [node_cnt EXCEPT ![ContainerOf[this]] = @ + 1],
                  failed |-> InsertFails(this, key)])
        ELSE [key |-> vruntime, rq |-> rq, cnt |-> node_cnt, failed |-> FALSE]

(***************************************************************************)
(* simple_sched on CPU c.  start_time is written only when the process     *)
(* changes.  update_this_proc starts the sched timer of the CPU for the    *)
(* first process other than root_proc.                                     *)
(***************************************************************************)
StartsTimer(c, next) ==
    /\ next # root_proc
    /\ next \in Proc \/ next \in OddIdle
    /\ ~sched_timer_set[c]

SimpleSched(c, new_state, tm) ==
    LET this == thisproc[c]
        updated == [state EXCEPT ![this] = new_state]
    IN  \E u \in {UpdateThisState(c, new_state)} :
        \E found \in {PickNextR(u.rq, u.cnt, root_container, skip)} :
        \E next \in {IF found.proc = Null THEN c ELSE found.proc} :
        \E q \in {IF next = c THEN u.rq ELSE Erased(u.rq, next)} :
        \E tm2 \in {IF StartsTimer(c, next) THEN set_cpu_timer(tm, sched_timer)
                    ELSE tm} :
        /\ \A n \in Node : u.key[n] <= MaxVruntime
        /\ vruntime' = u.key
        /\ rq' = q
        /\ node_cnt' = IF next = c THEN u.cnt
                       ELSE [u.cnt EXCEPT ![ContainerOf[next]] = @ - 1]
        /\ skip' = FixSkip(q, found.skip)
        /\ state' = [updated EXCEPT ![next] = "RUNNING"]
        /\ start_time' = IF next = this THEN start_time
                         ELSE [start_time EXCEPT ![c] = IF next = c THEN 0
                                                        ELSE now]
        /\ thisproc' = [thisproc EXCEPT ![c] = next]
        /\ timer' = [timer EXCEPT ![c] = tm2]
        /\ sched_timer_set' =
               [sched_timer_set EXCEPT ![c] = @ \/ StartsTimer(c, next)]
        /\ panic_flag' = \/ state[this] # "RUNNING"
                         \/ u.failed
                         \/ updated[next] # "RUNNABLE"
                         \/ tm2.failed
        /\ picked' = next
        /\ UNCHANGED <<active, creating, online, handling, now>>

\* yield, in a system call or in the idle loop.
Yield(c) ==
    /\ Running(c)
    /\ SimpleSched(c, "RUNNABLE", timer[c])

\* _sched(SLEEPING) in a wait, and the other states that are not queued: a
\* process that exits sleeps here for ever.
Leave(c) ==
    /\ Running(c)
    /\ thisproc[c] \in Proc
    /\ SimpleSched(c, "SLEEPING", timer[c])

\* _activate_proc on a SLEEPING or UNUSED process p.
Activate(p) ==
    /\ state' = [state EXCEPT ![p] = "RUNNABLE"]
    /\ rq' = Inserted(rq, p, vruntime)
    /\ node_cnt' = [node_cnt EXCEPT ![ContainerOf[p]] = @ + 1]
    /\ panic_flag' = InsertFails(p, vruntime)
    /\ picked' = Null
    /\ UNCHANGED <<active, vruntime, start_time, skip, thisproc, clockVars, now>>

\* A post or an alert wakes a sleeper.
Wake(c, p) ==
    /\ Running(c)
    /\ state[p] = "SLEEPING"
    /\ Activate(p)
    /\ UNCHANGED creating

\* fork: the new process joins the container of its parent.
Fork(c, p) ==
    /\ Running(c)
    /\ thisproc[c] \in Proc
    /\ state[p] = "UNUSED"
    /\ ContainerOf[p] = ContainerOf[thisproc[c]]
    /\ p # rootproc[ContainerOf[p]]
    /\ Activate(p)
    /\ UNCHANGED creating

\* create_container starts the root process of the new container d, ...
CreateContainer(c, d) ==
    /\ Running(c)
    /\ thisproc[c] \in Proc
    /\ d \notin active \cup {creating[e] : e \in CPU}
    /\ ParentOf[d] = ContainerOf[thisproc[c]]
    /\ Activate(rootproc[d])
    /\ creating' = [creating EXCEPT ![c] = d]

\* ... and activate_group then puts d into the queue of its parent.
ActivateGroup(c) ==
    LET d == creating[c]
    IN  /\ d # Null
        /\ ~panic_flag
        /\ creating' = [creating EXCEPT ![c] = Null]
        /\ active' = active \cup {d}
        /\ rq' = Inserted(rq, d, vruntime)
        /\ node_cnt' = [node_cnt EXCEPT ![ParentOf[d]] = @ + 1]
        /\ panic_flag' = InsertFails(d, vruntime)
        /\ picked' = Null
        /\ UNCHANGED <<state, vruntime, start_time, skip, thisproc, clockVars,
                       now>>

\* set_cpu_on, at the start of the idle loop.
SetCpuOn(c) ==
    /\ c \notin online
    /\ online' = online \cup {c}
    /\ timer' = [timer EXCEPT ![c] =
                     set_cpu_timer([@ EXCEPT !.clock = now + RESET],
                                   hello_timer)]
    /\ picked' = Null
    /\ UNCHANGED <<queueVars, sched_timer_set, handling, now, panic_flag>>

(***************************************************************************)
(* The clock interrupt.  root_proc is a kernel thread and runs with traps  *)
(* masked.  The handler may yield inside the loop: the process goes on     *)
(* with the loop when it runs again, maybe on another CPU.                 *)
(***************************************************************************)
ClockInterrupt(c) ==
    /\ Running(c)
    /\ thisproc[c] # root_proc
    /\ timer[c].clock <= now
    /\ timer' = [timer EXCEPT ![c].clock = now + RESET]
    /\ handling' = handling \cup {thisproc[c]}
    /\ picked' = Null
    /\ UNCHANGED <<queueVars, sched_timer_set, online, now, panic_flag>>

\* sched_timer_handler and hello: both wind their timer again.
SliceOver(c) == thisproc[c] = c \/ now - start_time[c] >= SLICE

TimerClockHandler(c) ==
    LET this == thisproc[c]
        t == First(timer[c].tree)
    IN  /\ this \in handling
        /\ ~panic_flag
        /\ IF t = Null \/ now < timer[c].key[t]
           THEN /\ handling' = handling \ {this}
                /\ picked' = Null
                /\ UNCHANGED <<queueVars, timer, sched_timer_set, online, now,
                               panic_flag>>
           ELSE \E fired \in {[cancel_cpu_timer(timer[c], t)
                                EXCEPT !.triggered[t] = TRUE]} :
                \E wound \in {set_cpu_timer(fired, t)} :
                IF t = sched_timer /\ SliceOver(c)
                THEN SimpleSched(c, "RUNNABLE", wound)
                ELSE /\ timer' = [timer EXCEPT ![c] = wound]
                     /\ panic_flag' = wound.failed
                     /\ picked' = Null
                     /\ UNCHANGED <<queueVars, sched_timer_set, online,
                                    handling, now>>

\* Time passes; the CPUs come up within the first millisecond.
Tick ==
    /\ online = CPU
    /\ now < MaxTime
    /\ now' = now + 1
    /\ picked' = Null
    /\ UNCHANGED <<queueVars, clockVars, panic_flag>>

Next ==
    \/ Tick
    \/ \E c \in CPU :
           \/ Yield(c) \/ Leave(c) \/ ActivateGroup(c) \/ SetCpuOn(c)
           \/ ClockInterrupt(c) \/ TimerClockHandler(c)
           \/ \E p \in Proc : Wake(c, p) \/ Fork(c, p)
           \/ \E d \in SubContainer : CreateContainer(c, d)

Spec == Init /\ [][Next]_vars

-----------------------------------------------------------------------------
Members(c) ==
    {n \in Node : /\ QueueOf(n) = c
                  /\ IF n \in Proc THEN state[n] = "RUNNABLE" ELSE n \in active}

(***************************************************************************)
(* No ASSERT of sched.c and cpu.c fails, and the trees are what the code   *)
(* takes them for: the queue of a container is a red-black tree, in the    *)
(* order of vruntime, of its RUNNABLE processes and its sub-containers,    *)
(* node_cnt of them, although update_this_state changes the keys of        *)
(* containers that are in a tree; no skip mark outlives pick_next; and the *)
(* timers of a CPU are a red-black tree in the order of their keys.        *)
(***************************************************************************)
QueuesExact ==
    /\ ~panic_flag
    /\ skip = {}
    /\ \A c \in Container :
           /\ RedBlackTree(rq[c], Members(c), vruntime)
           /\ node_cnt[c] = Cardinality(Members(c))
    /\ \A c \in online :
           RedBlackTree(timer[c].tree,
                        {hello_timer} \cup (IF sched_timer_set[c]
                                            THEN {sched_timer} ELSE {}),
                        timer[c].key)

\* A queued process below n: one that pick_next can reach through n.
RECURSIVE Supplies(_)
Supplies(n) ==
    n \in Proc \/ \E m \in Members(n) : Supplies(m)

RECURSIVE LeastPath(_)
LeastPath(n) ==
    /\ \A m \in Members(QueueOf(n)) \ {n} :
           Supplies(m) => Before(vruntime, n, m)
    /\ QueueOf(n) # root_container => LeastPath(QueueOf(n))

(***************************************************************************)
(* pick_next with its skip marks finds what the hierarchy asks for: the    *)
(* process it returns is the least of its container, its container is the  *)
(* least in its parent among all that have a process to run, and so on up  *)
(* to the root; and it returns the idle process only when no active        *)
(* container has a process to run.                                         *)
(***************************************************************************)
PickIsLeast ==
    /\ picked \in Proc => LeastPath(picked)
    /\ picked \in CPU => ~Supplies(root_container)

(***************************************************************************)
(* No CPU loses its preemption: once started, the sched timer of a CPU is  *)
(* always in its tree, and unless the CPU is in timer_clock_handler its    *)
(* clock interrupt is due no later than its first timer, although the      *)
(* handler yields in the middle of the loop and the process may go on with *)
(* the loop on another CPU.                                                *)
(***************************************************************************)
PreemptionArmed ==
    \A c \in online :
        /\ sched_timer_set[c] => ~timer[c].triggered[sched_timer]
        /\ thisproc[c] \notin handling =>
               timer[c].clock <= Max({now, timer[c].key[First(timer[c].tree)]})
=============================================================================
