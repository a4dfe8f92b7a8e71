------------------------------ MODULE Process ------------------------------
(***************************************************************************)
(* The process tree of src/src/kernel/proc.c and container.c: creation,    *)
(* start, exit, wait and kill, with the global and the per-container       *)
(* process identifiers.                                                    *)
(*                                                                         *)
(* What a process does while it holds plock is one step.  exit() is a      *)
(* single step because it takes rqlock before it releases plock and keeps  *)
(* it until it is a ZOMBIE, and is_zombie() takes rqlock.  childexit is    *)
(* the counting semaphore of AbstractSemaphore, which Semaphore            *)
(* implements: a wait takes a unit, or returns false in a killed process   *)
(* that finds none.  ACTIVE stands for RUNNABLE, RUNNING and SLEEPING,     *)
(* which Sched tells apart.                                                *)
(*                                                                         *)
(* Control points of a process (pc):                                       *)
(*   "unstarted"    kcontext not set up yet                                *)
(*   "run"          outside the operations below                           *)
(*   "created"      holds a process made by create_proc, in target         *)
(*   "cont_parent"  in create_container, at set_parent_to_this             *)
(*   "cont_start"   in create_container, at start_proc                     *)
(*   "wait_sem"     in wait(), at wait_sem(&this->childexit)               *)
(*   "wait_reap"    in wait(), about to take plock again                   *)
(*   "kill_alert"   in kill(), plock released, at alert_proc(target)       *)
(***************************************************************************)
EXTENDS Integers, Sequences, FiniteSets

CONSTANTS
    Slot,          \* the struct procs that kalloc can hand out
    RootProc,      \* root_proc
    Container,     \* the containers
    RootContainer, \* root_container
    PID_NUM,       \* size of a pid pool
    Killers,       \* bound: the processes that call kill()
    KillIds,       \* bound: the pids they call it with
    None

ASSUME ProcessAssumption ==
    /\ RootProc \in Slot /\ RootContainer \in Container
    /\ None \notin Slot /\ None \notin Container
    /\ PID_NUM \in Nat /\ PID_NUM >= 2

VARIABLES
    allocated,     \* the struct procs in use; a freed one keeps its state
    state,         \* proc->state
    killed, pid, localpid, parent, container,
    children,      \* proc->children, in the order of the list
    childexit,     \* proc->childexit.val, while it is not negative
    global_pids,   \* the pool of global pids
    pids,          \* container->pids
    rootproc,      \* container->rootproc, None before create_container
    pc, target,
    panic          \* why the kernel panicked, or "no"

treeVars == <<parent, children, childexit>>
pidVars == <<pid, localpid, global_pids, pids>>
contVars == <<container, rootproc>>
vars == <<allocated, state, killed, treeVars, pidVars, contVars, pc, target, panic>>

Pid == 0 .. PID_NUM - 1

Elems(seq) == {seq[i] : i \in DOMAIN seq}
Distinct(seq) == \A i, j \in DOMAIN seq : seq[i] = seq[j] => i = j

(***************************************************************************)
(* struct pid_pool as the stack of its free numbers freelist[avail ..].    *)
(* Nothing reads the entries below avail.                                  *)
(***************************************************************************)
FirstPid(pool) == Head(pool)
TakePid(pool) == Tail(pool)
ReturnPid(pool, id) == <<id>> \o pool

FullPool == [i \in 1 .. PID_NUM |-> i - 1]

\* root_proc has taken the first global pid that is not 0 and the first
\* local pid of root_container (define_init(root_proc)).
Init ==
    /\ allocated = {RootProc}
    /\ state = [s \in Slot |-> IF s = RootProc THEN "ACTIVE" ELSE "UNUSED"]
    /\ killed = [s \in Slot |-> FALSE]
    /\ pid = [s \in Slot |-> IF s = RootProc THEN 1 ELSE 0]
    /\ localpid = [s \in Slot |-> 0]
    /\ parent = [s \in Slot |-> IF s = RootProc THEN RootProc ELSE None]
    /\ container = [s \in Slot |-> RootContainer]
    /\ children = [s \in Slot |-> <<>>]
    /\ childexit = [s \in Slot |-> 0]
    /\ global_pids = SubSeq(FullPool, 3, PID_NUM)
    /\ pids = [c \in Container |->
                  IF c = RootContainer THEN TakePid(FullPool) ELSE FullPool]
    /\ rootproc = [c \in Container |-> IF c = RootContainer THEN RootProc ELSE None]
    /\ pc = [s \in Slot |-> IF s = RootProc THEN "run" ELSE "unstarted"]
    /\ target = [s \in Slot |-> None]
    /\ panic = "no"

\* A process that executes kernel code at control point l.
At(t, l) == panic = "no" /\ t \in allocated /\ state[t] = "ACTIVE" /\ pc[t] = l

Goto(t, l) == pc' = [pc EXCEPT ![t] = l]

-----------------------------------------------------------------------------
\* init_proc: the fields it sets in the struct proc s.  It does not test the
\* pool; the model stops creating when the pool is used up.
InitProc(s, c) ==
    /\ s \notin allocated
    /\ global_pids # <<>>
    /\ allocated' = allocated \cup {s}
    /\ state' = [state EXCEPT ![s] = "UNUSED"]
    /\ killed' = [killed EXCEPT ![s] = FALSE]
    /\ pid' = [pid EXCEPT ![s] = FirstPid(global_pids)]
    /\ global_pids' = TakePid(global_pids)
    /\ localpid' = [localpid EXCEPT ![s] = 0]
    /\ parent' = [parent EXCEPT ![s] = None]
    /\ children' = [children EXCEPT ![s] = <<>>]
    /\ childexit' = [childexit EXCEPT ![s] = 0]
    /\ container' = [container EXCEPT ![s] = c]

CreateProc(t, s) ==
    /\ At(t, "run")
    /\ InitProc(s, RootContainer)
    /\ pc' = [pc EXCEPT ![t] = "created", ![s] = "unstarted"]
    /\ target' = [target EXCEPT ![t] = s]
    /\ UNCHANGED <<pids, rootproc, panic>>

\* create_container up to its call of set_parent_to_this.
CreateContainer(t, s, c) ==
    /\ At(t, "run")
    /\ rootproc[c] = None
    /\ InitProc(s, c)
    /\ pids' = [pids EXCEPT ![c] = FullPool]
    /\ rootproc' = [rootproc EXCEPT ![c] = s]
    /\ pc' = [pc EXCEPT ![t] = "cont_parent", ![s] = "unstarted"]
    /\ target' = [target EXCEPT ![t] = s]
    /\ UNCHANGED panic

\* set_parent_to_this(target), called once for each process.
SetParentToThis(t) ==
    LET s == target[t] IN
    /\ At(t, "created") \/ At(t, "cont_parent")
    /\ parent[s] = None
    /\ parent' = [parent EXCEPT ![s] = t]
    /\ children' = [children EXCEPT ![t] = <<s>> \o @]
    /\ Goto(t, IF pc[t] = "created" THEN "created" ELSE "cont_start")
    /\ UNCHANGED <<allocated, state, killed, childexit, pidVars, contVars, target, panic>>

\* set_container_to_this(target), before the process is started.
SetContainerToThis(t) ==
    /\ At(t, "created")
    /\ container' = [container EXCEPT ![target[t]] = container[t]]
    /\ UNCHANGED <<allocated, state, killed, treeVars, pidVars, rootproc, pc, target, panic>>

\* start_proc(target): the last step of create_container, too.
StartProc(t) ==
    LET s == target[t]
        c == container[s]
    IN
    /\ At(t, "created") \/ At(t, "cont_start")
    /\ pids[c] # <<>>
    /\ IF parent[s] = None
       THEN /\ parent' = [parent EXCEPT ![s] = RootProc]
            /\ children' = [children EXCEPT ![RootProc] = <<s>> \o @]
       ELSE UNCHANGED <<parent, children>>
    /\ localpid' = [localpid EXCEPT ![s] = FirstPid(pids[c])]
    /\ pids' = [pids EXCEPT ![c] = TakePid(@)]
    /\ state' = [state EXCEPT ![s] = "ACTIVE"]
    /\ pc' = [pc EXCEPT ![t] = "run", ![s] = "run"]
    /\ target' = [target EXCEPT ![t] = None]
    /\ UNCHANGED <<allocated, killed, childexit, pid, global_pids, contVars, panic>>

\* A CPU switches to a process whose kcontext start_proc has not set up.
RunUnstarted(s) ==
    /\ At(s, "unstarted")
    /\ panic' = "unstarted"
    /\ UNCHANGED <<allocated, state, killed, treeVars, pidVars, contVars, pc, target>>

-----------------------------------------------------------------------------
IsZombie(s) == state[s] = "ZOMBIE"

\* The list of root after exit() has merged the children cs into it.
\* Mutant: the child merged_list points to is not linked in.
MergeChildrenRest(rs, cs) == IF cs = <<>> THEN rs ELSE rs \o Tail(cs)
MergeChildren(rs, cs) == IF cs = <<>> THEN rs ELSE rs \o Tail(cs) \o <<Head(cs)>>

Zombies(seq) == Cardinality({i \in DOMAIN seq : IsZombie(seq[i])})

\* The units exit() posts to q: one for each zombie child that root inherits,
\* and one to the parent.
\* Mutants: only the parent is notified; root is notified of every child.
PostsParentOnly(this, root, q) == IF q = parent[this] THEN 1 ELSE 0
PostsEveryChild(this, root, q) == (IF q = root THEN Len(children[this]) ELSE 0)
                                + (IF q = parent[this] THEN 1 ELSE 0)
Posts(this, root, q) == (IF q = root THEN Zombies(children[this]) ELSE 0)
                      + (IF q = parent[this] THEN 1 ELSE 0)

\* The number exit() gives back.  Mutant: the local pid.
ExitedLocalPid(t) == localpid[t]
ExitedPid(t) == pid[t]

\* exit().  The root process of a container must not call it.
ExitRoot(t) ==
    /\ At(t, "run")
    /\ t = rootproc[container[t]]
    /\ panic' = "exit"
    /\ UNCHANGED <<allocated, state, killed, treeVars, pidVars, contVars, pc, target>>

Exit(t) ==
    LET root == rootproc[container[t]] IN
    /\ At(t, "run")
    /\ t # root
    /\ childexit' = [q \in Slot |-> childexit[q] + Posts(t, root, q)]
    /\ parent' = [q \in Slot |-> IF q \in Elems(children[t]) THEN root ELSE parent[q]]
    /\ children' = [children EXCEPT ![t] = <<>>,
                                    ![root] = MergeChildren(@, children[t])]
    /\ global_pids' = ReturnPid(global_pids, ExitedPid(t))
    /\ state' = [state EXCEPT ![t] = "ZOMBIE"]
    /\ UNCHANGED <<allocated, killed, pid, localpid, pids, contVars, pc, target, panic>>

\* wait(): -1 without children (no step), else on to the semaphore.
WaitStart(t) ==
    /\ At(t, "run")
    /\ children[t] # <<>>
    /\ Goto(t, "wait_sem")
    /\ UNCHANGED <<allocated, state, killed, treeVars, pidVars, contVars, target, panic>>

\* Mutant: the semaphore does not make the parent wait.
WaitNotBlocked(t) ==
    /\ At(t, "wait_sem")
    /\ childexit' = [childexit EXCEPT ![t] = @ - 1]
    /\ Goto(t, "wait_reap")
    /\ UNCHANGED <<allocated, state, killed, parent, children, pidVars, contVars, target, panic>>
WaitGranted(t) ==
    /\ At(t, "wait_sem")
    /\ childexit[t] > 0
    /\ childexit' = [childexit EXCEPT ![t] = @ - 1]
    /\ Goto(t, "wait_reap")
    /\ UNCHANGED <<allocated, state, killed, parent, children, pidVars, contVars, target, panic>>

WaitInterrupted(t) ==
    /\ At(t, "wait_sem")
    /\ childexit[t] = 0
    /\ killed[t]
    /\ Goto(t, "run")
    /\ UNCHANGED <<allocated, state, killed, treeVars, pidVars, contVars, target, panic>>

\* wait() with plock again: reap the first zombie of the list.
FirstZombie(seq) ==
    CHOOSE i \in DOMAIN seq : IsZombie(seq[i])
                           /\ \A j \in 1 .. i - 1 : ~IsZombie(seq[j])

Without(seq, i) == SubSeq(seq, 1, i - 1) \o SubSeq(seq, i + 1, Len(seq))

\* kfree(child).  Nothing reads the freed struct but a late alert_proc, which
\* looks at its state: the other fields take the values Init gives them.
Freed(s) ==
    /\ allocated' = allocated \ {s}
    /\ killed' = [killed EXCEPT ![s] = FALSE]
    /\ pid' = [pid EXCEPT ![s] = 0]
    /\ localpid' = [localpid EXCEPT ![s] = 0]
    /\ parent' = [parent EXCEPT ![s] = None]
    /\ container' = [container EXCEPT ![s] = RootContainer]

\* The local pid that goes back to the pool of the child's container.
\* Mutant: the global pid is returned instead.
ReapedGlobalPid(s) == pid[s]
ReapedPid(s) == localpid[s]

WaitReap(t) ==
    LET i == FirstZombie(children[t])
        s == children[t][i]
        c == container[s]
    IN
    /\ At(t, "wait_reap")
    /\ IF Zombies(children[t]) > 0
       THEN /\ pids' = [pids EXCEPT ![c] = ReturnPid(@, ReapedPid(s))]
            /\ children' = [children EXCEPT ![t] = Without(@, i)]
            /\ Freed(s)
            /\ Goto(t, "run")
            /\ UNCHANGED <<state, childexit, global_pids, rootproc, target, panic>>
       ELSE /\ panic' = "wait"
            /\ UNCHANGED <<allocated, state, killed, treeVars, pidVars, contVars,
                           pc, target>>

-----------------------------------------------------------------------------
(***************************************************************************)
(* dfs: the first process with the pid in preorder that is not UNUSED,     *)
(* down to the given depth of the tree.                                    *)
(***************************************************************************)
Matches(s, id) == pid[s] = id /\ state[s] # "UNUSED"

Dfs(id) ==
    LET Search[d \in 0 .. Cardinality(Slot), s \in Slot] ==
          IF Matches(s, id) THEN s
          ELSE LET cs == children[s]
                   hits == IF d = 0 THEN {}
                           ELSE {i \in DOMAIN cs : Search[d - 1, cs[i]] # None}
               IN  IF hits = {} THEN None
                   ELSE Search[d - 1, cs[CHOOSE i \in hits : \A j \in hits : i <= j]]
    IN  Search[Cardinality(Slot), RootProc]

\* kill(id), first part, under plock; -1 when there is no such process (no step).
Kill(t, id) ==
    /\ t \in Killers
    /\ At(t, "run")
    /\ Dfs(id) \in Slot
    /\ killed' = [killed EXCEPT ![Dfs(id)] = TRUE]
    /\ target' = [target EXCEPT ![t] = Dfs(id)]
    /\ Goto(t, "kill_alert")
    /\ UNCHANGED <<allocated, state, treeVars, pidVars, contVars, panic>>

\* kill(id), second part: alert_proc, with the effect of _activate_proc on
\* whatever the struct proc is by now.
KillAlert(t) ==
    /\ At(t, "kill_alert")
    /\ state' = [state EXCEPT ![target[t]] = IF @ = "UNUSED" THEN "ACTIVE" ELSE @]
    /\ target' = [target EXCEPT ![t] = None]
    /\ Goto(t, "run")
    /\ UNCHANGED <<allocated, killed, treeVars, pidVars, contVars, panic>>

-----------------------------------------------------------------------------
Next ==
    \E t \in Slot :
        \/ \E s \in Slot : CreateProc(t, s)
        \/ \E s \in Slot, c \in Container : CreateContainer(t, s, c)
        \/ SetParentToThis(t) \/ SetContainerToThis(t) \/ StartProc(t)
        \/ RunUnstarted(t)
        \/ ExitRoot(t) \/ Exit(t)
        \/ WaitStart(t) \/ WaitGranted(t) \/ WaitInterrupted(t)
        \/ WaitReap(t)
        \/ \E id \in KillIds : Kill(t, id)
        \/ KillAlert(t)

Spec == Init /\ [][Next]_vars

-----------------------------------------------------------------------------
PC == {"unstarted", "run", "created", "cont_parent", "cont_start", "wait_sem",
       "wait_reap", "kill_alert"}

TypeOK ==
    /\ allocated \subseteq Slot
    /\ state \in [Slot -> {"UNUSED", "ACTIVE", "ZOMBIE"}]
    /\ killed \in [Slot -> BOOLEAN]
    /\ pid \in [Slot -> Pid] /\ localpid \in [Slot -> Pid]
    /\ parent \in [Slot -> Slot \cup {None}]
    /\ container \in [Slot -> Container]
    /\ children \in [Slot -> Seq(Slot)]
    /\ childexit \in [Slot -> Nat]
    /\ global_pids \in Seq(Pid) /\ pids \in [Container -> Seq(Pid)]
    /\ rootproc \in [Container -> Slot \cup {None}]
    /\ pc \in [Slot -> PC] /\ target \in [Slot -> Slot \cup {None}]
    /\ panic \in {"no", "unstarted", "exit", "wait"}

\* The processes that have not exited.
Live == {s \in allocated : state[s] # "ZOMBIE"}

(***************************************************************************)
(* doc/lab3.md:44 asks that no two processes in the tree have the same     *)
(* pid.  exit() returns the pid while the zombie stays in the tree until   *)
(* wait(), so a new process may get the pid of a zombie.  What the code    *)
(* keeps: of two processes in the tree with one pid, one has exited; a     *)
(* free pid belongs to nobody or to zombies; and no pid is lost, each is   *)
(* free, once, or belongs to a process that has not exited.                *)
(***************************************************************************)
PidsDistinct ==
    /\ \A s, u \in allocated :
          pid[s] = pid[u] => s = u \/ IsZombie(s) \/ IsZombie(u)
    /\ \A s \in allocated : pid[s] \in Elems(global_pids) => IsZombie(s)
    /\ \A i \in Pid \ {0} :
          i \in Elems(global_pids) \/ \E s \in Live : pid[s] = i
    /\ Distinct(global_pids)

\* The processes of container c that own a local pid, from start_proc() to the
\* wait() of their parent.
LocalHolders(c) == {s \in allocated : container[s] = c /\ pc[s] # "unstarted"}

\* A local pid identifies one process of its container, from start_proc() until
\* the parent has reaped it, zombies included.
LocalPidsDistinct ==
    \A c \in Container :
        /\ \A s, u \in LocalHolders(c) : localpid[s] = localpid[u] => s = u
        /\ \A s \in LocalHolders(c) : localpid[s] \notin Elems(pids[c])
        /\ Distinct(pids[c])

\* childexit counts the zombies among the children of a process, less the one
\* that a wait() past the semaphore is about to reap.  exit() has to keep this
\* when it hands children over to the root process of the container.
ChildexitExact ==
    \A s \in Live :
        childexit[s] + (IF pc[s] = "wait_reap" THEN 1 ELSE 0) = Zombies(children[s])

\* The PANIC at the end of wait() is out of reach: whoever got a unit of
\* childexit finds a zombie, even if it has inherited or lost children since.
WaitFindsZombie == panic # "wait"

\* The lists of children are the parent pointers read backwards, and every
\* child is in one list once and allocated: no reaped process stays in the tree.
TreeConsistent ==
    /\ \A s \in allocated, u \in Slot :
          u \in Elems(children[s]) <=> /\ u \in allocated /\ u # RootProc
                                       /\ parent[u] = s
    /\ \A s \in allocated : Distinct(children[s])
    /\ \A s \in allocated : IsZombie(s) => children[s] = <<>>
=============================================================================
