-------------------------- MODULE SemaphoreProofs ---------------------------
(***************************************************************************)
(* TLAPS proofs about Semaphore, for any processes, CPUs and semaphores:   *)
(* SemInv is inductive, what follows from it, and that sem.c implements    *)
(* AbstractSemaphore.                                                      *)
(***************************************************************************)
EXTENDS SemaphoreImpl, SemaphorePostProofs

\* A leaf that names no prover is tried by Z3 twice, by Zenon, and by Z3 again.
USE SMTT(10), Z3T(10), ZenonT(30), SMTT(30)

(***************************************************************************)
(* Starting, killing, alerting, and the idle loop's end.                   *)
(***************************************************************************)

\* Steps that move one thread t between control points outside the semaphore
\* operations and, of the processes outside any sleep a post must end, may wake
\* p: what they do not disturb.
LEMMA OutsideInv ==
    ASSUME SemInv, NEW t \in Thread, NEW l \in {"run", "off", "kill_alert"},
           pc[t] \in {"run", "kill_alert"}, l = "kill_alert" => OnCPU(t),
           pc' = [pc EXCEPT ![t] = l],
           UNCHANGED <<thisproc, rqlock, panic_flag, semVars>>,
           TypeOK', QueueInv', NoLostKill', ChosenHasPoster', SleepKind',
           \A u \in Thread \ {t} : target'[u] = target[u],
           l = "kill_alert" => target'[t] \in Proc,
           \A p \in Proc : killed[p] => killed'[p]
    PROVE  SemInv'
<1> USE DEF SemInv
<1>1. /\ semlock' = semlock /\ val' = val /\ sleeplist' = sleeplist
      /\ up' = up /\ wsem' = wsem /\ thisproc' = thisproc /\ rqlock' = rqlock
      /\ panic_flag' = panic_flag
  BY DEF semVars
<1>2. pc'[t] = l /\ \A u \in Thread \ {t} : pc'[u] = pc[u]
  BY DEF TypeOK
<1>3. ValCountsSleepers'
  BY <1>1 DEF ValCountsSleepers
<1>4. SemLockHolder'
  <2> SUFFICES ASSUME NEW u \in Thread
               PROVE  pc'[u] \in LockPC <=> pc[u] \in LockPC
    BY <1>1 DEF SemLockHolder
  <2> QED
    BY <1>2 DEF LockPC, PostPC
<1>5. RqLockHolder'
  <2> SUFFICES ASSUME NEW u \in Thread
               PROVE  pc'[u] = "wait_sched" <=> pc[u] = "wait_sched"
    BY <1>1 DEF RqLockHolder, TypeOK
  <2> QED
    BY <1>2, ZenonT(30)
<1>6. HoldersRun'
  BY <1>1, <1>2 DEF HoldersRun, OnCPU, Runs, LockPC, PostPC
<1>7. IdleInv'
  BY <1>2 DEF IdleInv, QueueInv, WaitPC, Thread
<1>8. ListedIffWaiting' /\ ChosenWaits'
  <2> SUFFICES ASSUME NEW q \in Proc
               PROVE  /\ pc'[q] \in WaitPC <=> pc[q] \in WaitPC
                      /\ pc'[q] \in {"wait_sched", "wait_woken"}
                           <=> pc[q] \in {"wait_sched", "wait_woken"}
    BY <1>1, ZenonT(30) DEF ListedIffWaiting, ChosenWaits
  <2> QED
    BY <1>2 DEF WaitPC, Thread
<1>9. TargetOK'
  BY <1>1, <1>2, ZenonT(30) DEF TargetOK, PostPC
<1>10. OnlyKilledPanics'
  BY <1>1, <1>2 DEF OnlyKilledPanics, Thread
<1> QED
  BY <1>3, <1>4, <1>5, <1>6, <1>7, <1>8, <1>9, <1>10 DEF QueueInv

\* An idle loop that sees the panic flag stops its CPU.
LEMMA IdleStopInv ==
    ASSUME SemInv, NEW c \in CPU, IdleStop(c), UNCHANGED semVars
    PROVE  SemInv'
<1> USE DEF SemInv
<1>1. /\ c \in Thread /\ c \notin Proc /\ pc[c] = "run"
      /\ pc' = [pc EXCEPT ![c] = "off"]
      /\ state' = state /\ killed' = killed /\ thisproc' = thisproc
      /\ rqlock' = rqlock /\ panic_flag' = panic_flag /\ target' = target
      /\ up' = up /\ alertable' = alertable
  BY SchedAssumption DEF IdleStop, queueVars, semVars, Thread
<1>2. pc'[c] = "off" /\ \A u \in Thread \ {c} : pc'[u] = pc[u]
  BY <1>1 DEF TypeOK
<1>3. QueueInv'
  BY QueueUnchanged DEF IdleStop
<1>4. TypeOK'
  BY <1>1, <1>3 DEF TypeOK, QueueInv, PC, semVars
<1>5. NoLostKill' /\ SleepKind'
  BY <1>1, <1>2 DEF NoLostKill, SleepKind, Asleep, Thread
<1>6. ChosenHasPoster'
  BY <1>1, <1>2 DEF ChosenHasPoster, Asleep, PostPC, Thread
<1> QED
  BY <1>1, <1>3, <1>4, <1>5, <1>6, OutsideInv, ZenonT(30)

\* kill marks its victim and goes on to alert it.
LEMMA KillInv ==
    ASSUME SemInv, NEW t \in Proc, NEW p \in Proc, Kill(t, p),
           UNCHANGED semVars
    PROVE  SemInv'
<1> USE DEF SemInv
<1>1. /\ t \in Thread /\ p \in Thread /\ pc[t] = "run" /\ OnCPU(t)
      /\ killed' = [killed EXCEPT ![p] = TRUE]
      /\ pc' = [pc EXCEPT ![t] = "kill_alert"]
      /\ target' = [target EXCEPT ![t] = p]
      /\ state' = state /\ thisproc' = thisproc /\ rqlock' = rqlock
      /\ panic_flag' = panic_flag /\ up' = up /\ alertable' = alertable
  BY DEF Kill, queueVars, semVars, Thread
<1>2. /\ pc'[t] = "kill_alert" /\ target'[t] = p
      /\ \A u \in Thread \ {t} : pc'[u] = pc[u] /\ target'[u] = target[u]
      /\ killed'[p] /\ \A q \in Thread \ {p} : killed'[q] = killed[q]
  BY <1>1 DEF TypeOK
<1>3. QueueInv'
  BY QueueUnchanged DEF Kill
<1>4. TypeOK'
  BY <1>1, <1>3 DEF TypeOK, QueueInv, PC, semVars
<1>5. NoLostKill'
  <2> SUFFICES ASSUME NEW q \in Proc, killed'[q], state[q] = "SLEEPING"
               PROVE  \E u \in Proc : pc'[u] = "kill_alert" /\ target'[u] = q
    BY <1>1, ZenonT(30) DEF NoLostKill
  <2>1. CASE q = p
    BY <1>2, <2>1, ZenonT(30)
  <2>2. CASE q # p
    BY <1>1, <1>2, <2>2 DEF NoLostKill, Thread
  <2> QED
    BY <2>1, <2>2, ZenonT(30)
<1>6. SleepKind'
  BY <1>1, <1>2 DEF SleepKind, Asleep, Thread
<1>7. ChosenHasPoster'
  BY <1>1, <1>2 DEF ChosenHasPoster, Asleep, PostPC, Thread
<1> QED
  BY <1>1, <1>2, <1>3, <1>4, <1>5, <1>6, <1>7, OutsideInv, ZenonT(30) DEF Thread

\* start_proc makes a new process runnable.
LEMMA StartProcInv ==
    ASSUME SemInv, NEW t \in Thread, NEW p \in Proc, StartProc(t, p),
           UNCHANGED semVars
    PROVE  SemInv'
<1> USE DEF SemInv
<1>1. /\ p \in Thread /\ pc[t] = "run" /\ state[p] = "UNUSED"
      /\ killed' = killed /\ thisproc' = thisproc /\ rqlock' = rqlock
      /\ panic_flag' = panic_flag /\ pc' = pc /\ target' = target
      /\ up' = up /\ alertable' = alertable
  BY DEF StartProc, semVars, Thread
<1>2. QueueInv' /\ state' = [state EXCEPT ![p] = "RUNNABLE"]
  BY <1>1, SemInvQueueInv, ActivateLemma, ZenonT(30) DEF StartProc, Wakes
<1>3. state'[p] = "RUNNABLE" /\ \A q \in Thread \ {p} : state'[q] = state[q]
  BY <1>1, <1>2 DEF TypeOK
<1>4. TypeOK'
  BY <1>1, <1>2 DEF TypeOK, QueueInv, semVars
<1>5. NoLostKill'
  BY <1>1, <1>3, ZenonT(30) DEF NoLostKill, Thread
<1>6. SleepKind'
  BY <1>1, <1>3, ZenonT(30) DEF SleepKind, Asleep, Thread
<1>7. ChosenHasPoster'
  BY <1>1, <1>3, ZenonT(30) DEF ChosenHasPoster, Asleep, Thread
<1>8. pc' = [pc EXCEPT ![t] = "run"]
  BY <1>1, ZenonT(30) DEF TypeOK
<1> QED
  BY <1>1, <1>2, <1>4, <1>5, <1>6, <1>7, <1>8, OutsideInv, ZenonT(30)

\* kill wakes its victim out of an interruptible sleep.
LEMMA KillAlertInv ==
    ASSUME SemInv, NEW t \in Proc, KillAlert(t), UNCHANGED semVars
    PROVE  SemInv'
<1> USE DEF SemInv
<1> DEFINE p == target[t]
<1>1. /\ t \in Thread /\ p \in Proc /\ p \in Thread /\ pc[t] = "kill_alert"
      /\ killed' = killed /\ thisproc' = thisproc /\ rqlock' = rqlock
      /\ panic_flag' = panic_flag
      /\ pc' = [pc EXCEPT ![t] = "run"]
      /\ target' = [target EXCEPT ![t] = t]
      /\ up' = up /\ alertable' = alertable
  BY DEF KillAlert, TargetOK, semVars, Thread
<1>2. /\ QueueInv'
      /\ \/ Wakes(p, TRUE) /\ state' = [state EXCEPT ![p] = "RUNNABLE"]
         \/ ~Wakes(p, TRUE) /\ state' = state
  BY <1>1, SemInvQueueInv, ActivateLemma, ZenonT(30) DEF KillAlert
<1>3. p = target[t]
  OBVIOUS
<1> HIDE DEF p
<1>4. /\ \A q \in Thread \ {p} : state'[q] = state[q]
      /\ \/ state[p] \in {"SLEEPING", "UNUSED"} /\ state'[p] = "RUNNABLE"
         \/ state[p] \notin {"SLEEPING", "UNUSED"} /\ state'[p] = state[p]
  BY <1>1, <1>2 DEF TypeOK, Wakes
<1>5. /\ pc'[t] = "run" /\ target'[t] = t
      /\ \A u \in Thread \ {t} : pc'[u] = pc[u] /\ target'[u] = target[u]
  BY <1>1, ZenonT(30) DEF TypeOK
<1>6. TypeOK'
  BY <1>1, <1>2, ZenonT(30) DEF TypeOK, QueueInv, PC, semVars
<1>7. NoLostKill'
  <2> SUFFICES ASSUME NEW q \in Proc, killed[q], state'[q] = "SLEEPING"
               PROVE  \E u \in Proc : pc'[u] = "kill_alert" /\ target'[u] = q
    BY <1>1 DEF NoLostKill
  <2>1. q # p /\ state[q] = "SLEEPING"
    BY <1>4, ZenonT(30) DEF Thread
  <2>2. PICK u \in Proc : pc[u] = "kill_alert" /\ target[u] = q
    BY <2>1, ZenonT(30) DEF NoLostKill
  <2> QED
    BY <1>3, <1>5, <2>1, <2>2 DEF Thread
<1>8. SleepKind'
  <2> SUFFICES ASSUME NEW q \in Proc
               PROVE  /\ state'[q] = "SLEEPING" => alertable[q]
                      /\ state'[q] = "DEEPSLEEPING" => ~alertable[q]
                      /\ Asleep(q)' => pc'[q] = "wait_woken"
                      /\ /\ pc'[q] = "wait_woken"
                         /\ ~alertable[q] /\ ~killed[q]
                         /\ state'[q] # "DEEPSLEEPING"
                         => up[q]
    BY <1>1 DEF SleepKind
  <2>1. q \in Thread
    BY ZenonT(30) DEF Thread
  <2>2. CASE q = t
    BY <1>1, <1>4, <1>5, <2>2 DEF SleepKind, Asleep
  <2>3. CASE q # t
    BY <1>4, <1>5, <2>1, <2>3 DEF SleepKind, Asleep
  <2> QED
    BY <2>2, <2>3, ZenonT(30)
<1>9. ChosenHasPoster'
  <2> SUFFICES ASSUME NEW q \in Proc, up[q], pc'[q] = "wait_sched" \/ Asleep(q)'
               PROVE  \E u \in Thread : pc'[u] \in PostPC /\ target'[u] = q
    BY <1>1, ZenonT(30) DEF ChosenHasPoster
  <2>1. pc[q] = "wait_sched" \/ Asleep(q)
    BY <1>4, <1>5, ZenonT(30) DEF Asleep, Thread
  <2>2. PICK u \in Thread : pc[u] \in PostPC /\ target[u] = q
    BY <2>1 DEF ChosenHasPoster
  <2> QED
    BY <1>1, <1>5, <2>2, ZenonT(30) DEF PostPC
<1> QED
  BY <1>1, <1>2, <1>5, <1>6, <1>7, <1>8, <1>9, OutsideInv, ZenonT(30)

-----------------------------------------------------------------------------
(***************************************************************************)
(* The invariant, and what follows from it.                                *)
(***************************************************************************)

\* The state init_sem and define_init(sched) leave satisfies the invariant.
LEMMA InitInv == Init => SemInv
<1> SUFFICES ASSUME Init PROVE SemInv
  OBVIOUS
<1>1. PICK first \in Proc : SchedInit({first})
  BY ZenonT(30) DEF Init
<1>2. /\ state = [t \in Thread |-> IF t \in CPU THEN "RUNNING"
                                   ELSE IF t \in {first} THEN "RUNNABLE"
                                   ELSE "UNUSED"]
      /\ killed = [t \in Thread |-> FALSE]
      /\ rq = {first} /\ node_cnt = Cardinality({first})
      /\ thisproc = [c \in CPU |-> c] /\ rqlock = Free /\ panic_flag = FALSE
      /\ pc = [t \in Thread |-> "run"] /\ target = [t \in Thread |-> t]
      /\ semlock = [s \in Sem |-> Free] /\ val = InitVal
      /\ sleeplist = [s \in Sem |-> <<>>] /\ up = [p \in Proc |-> FALSE]
      /\ wsem = [t \in Thread |-> AnySem] /\ alertable = [p \in Proc |-> TRUE]
  BY <1>1 DEF SchedInit, Init
<1>3. AnySem \in Sem
  BY SemAssumption DEF AnySem
<1>4. IsFiniteSet(rq) /\ node_cnt = Cardinality(rq) /\ node_cnt \in Int
  <2>1. IsFiniteSet({first}) /\ Cardinality({first}) = 1
    BY FS_Singleton, ZenonT(30)
  <2> QED
    BY <1>2, <2>1
<1>5. TypeOK
  <2>1. val \in [Sem -> Int] /\ sleeplist \in [Sem -> Seq(Proc)]
    BY <1>2, SemAssumption
  <2> QED
    BY <1>2, <1>3, <1>4, <2>1, ZenonT(30) DEF TypeOK, Thread, ProcState, PC
<1>6. RunningIsCurrent /\ QueueExact
  BY <1>2, <1>4, SchedAssumption
  DEF RunningIsCurrent, QueueExact, OnCPU, Runs, Thread
<1>7. ValCountsSleepers
  BY <1>2, SemAssumption DEF ValCountsSleepers, Distinct
<1>8. SemLockHolder /\ RqLockHolder /\ HoldersRun
  BY <1>2, SchedAssumption, ZenonT(30)
  DEF SemLockHolder, RqLockHolder, HoldersRun, LockPC, PostPC, Thread
<1>9. IdleInv
  BY <1>2 DEF IdleInv, WaitPC, Thread
<1>10. ListedIffWaiting /\ ChosenWaits /\ TargetOK /\ ChosenHasPoster
  BY <1>2
  DEF ListedIffWaiting, ChosenWaits, TargetOK, ChosenHasPoster, InList, WaitPC,
      PostPC, Thread
<1>11. SleepKind /\ NoLostKill /\ OnlyKilledPanics
  BY <1>2, SchedAssumption, ZenonT(30)
  DEF SleepKind, NoLostKill, OnlyKilledPanics, Asleep, Thread
<1> QED
  BY <1>4, <1>5, <1>6, <1>7, <1>8, <1>9, <1>10, <1>11, ZenonT(30) DEF SemInv

\* SemInv speaks about the variables of the specification only.
LEMMA StutterInv == SemInv /\ UNCHANGED vars => SemInv'
<1> SUFFICES ASSUME SemInv, UNCHANGED vars PROVE SemInv'
  OBVIOUS
<1> USE DEF SemInv, vars, schedVars, semVars
<1>1. QueueInv'
  BY QueueUnchanged, ZenonT(30) DEF queueVars
<1>2. TypeOK' /\ ValCountsSleepers'
  BY DEF TypeOK, ValCountsSleepers
<1>3. SemLockHolder' /\ RqLockHolder' /\ HoldersRun'
  <2>1. SemLockHolder'
    BY DEF SemLockHolder
  <2>2. RqLockHolder'
    BY DEF RqLockHolder
  <2>3. HoldersRun'
    BY ZenonT(30) DEF HoldersRun, OnCPU, Runs
  <2> QED
    BY <2>1, <2>2, <2>3, ZenonT(30)
<1>4. IdleInv' /\ ListedIffWaiting' /\ ChosenWaits' /\ TargetOK'
  BY DEF IdleInv, ListedIffWaiting, ChosenWaits, TargetOK
<1>5. ChosenHasPoster' /\ SleepKind' /\ NoLostKill' /\ OnlyKilledPanics'
  <2>1. ChosenHasPoster'
    BY ZenonT(30) DEF ChosenHasPoster, Asleep
  <2>2. SleepKind'
    BY DEF SleepKind, Asleep
  <2>3. NoLostKill' /\ OnlyKilledPanics'
    BY DEF NoLostKill, OnlyKilledPanics
  <2> QED
    BY <2>1, <2>2, <2>3, ZenonT(30)
<1> QED
  BY <1>1, <1>2, <1>3, <1>4, <1>5, ZenonT(30) DEF QueueInv

\* Every step of the scheduler and of the semaphores preserves the invariant.
LEMMA NextInv == SemInv /\ [Next]_vars => SemInv'
<1> SUFFICES ASSUME SemInv, [Next]_vars PROVE SemInv'
  OBVIOUS
<1>1. CASE SchedNext
  BY <1>1, SemAssumption, YieldInv, IdleStopInv, ExitInv, StartProcInv, KillInv,
     KillAlertInv DEF SchedNext
<1>2. CASE WaitNext
  BY <1>2, SemAssumption, WaitFastInv, WaitEnqueueInv, WaitLockSchedInv,
     WaitSchedInv, WaitGrantedInv, WaitInterruptedInv DEF WaitNext
<1>3. CASE PostNext
  <2>1. "post_act" \in PostPC /\ "all_act" \in PostPC
    BY DEF PostPC
  <2> QED
    BY <1>3, <2>1, PostFreeInv, PostGrantInv, GetAllInv, PostActivateInv,
       PostAllActivateInv DEF PostNext
<1>4. CASE UNCHANGED vars
  BY <1>4, StutterInv
<1> QED
  BY <1>1, <1>2, <1>3, <1>4 DEF Next, Halted

\* The inductive invariant holds in every state of the scheduler with its
\* semaphores, for any number of processes, CPUs and semaphores.
THEOREM SemaphoreInvariant == Spec => []SemInv
BY InitInv, NextInv, PTL DEF Spec

\* Type correctness of the state of sched.c and sem.c.
THEOREM TypeCorrect == Spec => []TypeOK
<1>1. SemInv => TypeOK
  BY DEF SemInv
<1> QED
  BY <1>1, SemaphoreInvariant, PTL

\* simple_sched never lets two CPUs execute one process, and only the process
\* that a CPU executes is RUNNING.
THEOREM RunningOnOneCpu == Spec => []RunningIsCurrent
<1>1. SemInv => RunningIsCurrent
  BY ZenonT(30) DEF SemInv
<1> QED
  BY <1>1, SemaphoreInvariant, PTL

\* The run queue of simple_sched and its counter stay exact.
THEOREM SchedulerConsistent == Spec => []QueueExact
<1>1. SemInv => QueueExact
  BY ZenonT(30) DEF SemInv
<1> QED
  BY <1>1, SemaphoreInvariant, PTL

\* val and the sleeplist of a semaphore agree whenever its state is visible, so
\* no ASSERT of sem.c fails.
THEOREM CountsSleepers == Spec => []ValCountsSleepers
<1>1. SemInv => ValCountsSleepers
  BY ZenonT(30) DEF SemInv
<1> QED
  BY <1>1, SemaphoreInvariant, PTL

\* _wait_sem and _post_sem lose no wakeup, whatever order the CPUs take the
\* semaphore's lock and rqlock in.
THEOREM WakeupsKept == Spec => []NoLostWakeup
<1>1. SemInv => NoLostWakeup
  <2> SUFFICES ASSUME SemInv, NEW p \in Proc, Asleep(p)
               PROVE  /\ pc[p] = "wait_woken"
                      /\ \/ ~up[p] /\ InList(sleeplist[wsem[p]], p)
                         \/ up[p] /\ \E t \in Thread :
                                        pc[t] \in PostPC /\ target[t] = p
    BY DEF NoLostWakeup
  <2>1. pc[p] = "wait_woken"
    BY DEF SemInv, SleepKind
  <2>2. CASE up[p]
    BY <2>1, <2>2, ZenonT(30) DEF SemInv, ChosenHasPoster
  <2>3. CASE ~up[p]
    <3>1. wsem[p] \in Sem /\ pc[p] \in WaitPC
      BY <2>1, ZenonT(30) DEF SemInv, TypeOK, WaitPC, Thread
    <3> QED
      BY <2>1, <2>3, <3>1, ZenonT(30) DEF SemInv, ListedIffWaiting
  <2> QED
    BY <2>1, <2>2, <2>3, ZenonT(30)
<1> QED
  BY <1>1, SemaphoreInvariant, PTL

\* kill reaches every process that sleeps in an alertable wait.
THEOREM KillsKept == Spec => []NoLostKill
<1>1. SemInv => NoLostKill
  BY DEF SemInv
<1> QED
  BY <1>1, SemaphoreInvariant, PTL

\* The assertion in unalertable_wait_sem can fail only after a kill.
THEOREM PanicNeedsKill == Spec => []OnlyKilledPanics
<1>1. SemInv => OnlyKilledPanics
  BY DEF SemInv
<1> QED
  BY <1>1, SemaphoreInvariant, PTL

\* An alert never ends an unalertable wait: a process leaves DEEPSLEEPING only
\* through the activate_proc of the post that chose it.
THEOREM DeepSleepKept == Spec => DeepSleepEndsByPost
<1> DEFINE Ends == \A p \in Proc :
             state[p] = "DEEPSLEEPING" /\ state'[p] # "DEEPSLEEPING" => up[p]
<1>1. SemInv /\ [Next]_vars => Ends
  <2> SUFFICES ASSUME SemInv, [Next]_vars, NEW p \in Proc,
                      state[p] = "DEEPSLEEPING", state'[p] # "DEEPSLEEPING"
               PROVE  up[p]
    OBVIOUS
  <2>1. p \in Thread
    BY DEF Thread
  <2>2. ASSUME NEW c \in CPU,
               NEW new_state \in {"RUNNABLE", "SLEEPING", "DEEPSLEEPING", "ZOMBIE"},
               thisproc[c] \in Proc \/ new_state = "RUNNABLE",
               SimpleSched(c, new_state)
        PROVE  FALSE
    <3>1. p # thisproc[c]
      BY ZenonT(30) DEF SemInv, RunningIsCurrent, OnCPU, Runs, TypeOK
    <3>2. state'[p] = state[p] \/ state[p] = "RUNNABLE"
      BY <2>1, <2>2, <3>1, SemInvQueueInv, SwitchLemma
    <3> QED
      BY <3>2, ZenonT(30)
  <2>3. ASSUME NEW t \in Thread, pc[t] \in PostPC, thisproc' = thisproc,
               ActivateProc(target[t], FALSE)
        PROVE  up[p]
    BY <2>1, <2>3, PosterActivates, ZenonT(30)
  <2>4. CASE SchedNext
    <3>1. ASSUME NEW c \in CPU, Yield(c) \/ Exit(c) PROVE FALSE
      BY <2>2, <3>1 DEF Yield, Exit
    <3>2. ASSUME NEW c \in CPU, IdleStop(c) PROVE FALSE
      BY <3>2, ZenonT(30) DEF IdleStop, queueVars
    <3>3. ASSUME NEW t \in Thread, NEW q \in Proc, StartProc(t, q) PROVE FALSE
      BY <2>1, <3>3, ZenonT(30)
         DEF StartProc, ActivateProc, queueVars, SemInv, TypeOK
    <3>4. ASSUME NEW t \in Proc, NEW q \in Proc, Kill(t, q) PROVE FALSE
      BY <3>4 DEF Kill, queueVars
    <3>5. ASSUME NEW t \in Proc, KillAlert(t) PROVE FALSE
      BY <2>1, <3>5
         DEF KillAlert, ActivateProc, Wakes, queueVars, SemInv, TypeOK
    <3> QED
      BY <2>4, <3>1, <3>2, <3>3, <3>4, <3>5, SemAssumption DEF SchedNext
  <2>5. CASE WaitNext
    <3>1. ASSUME NEW c \in CPU, WaitSched(c) PROVE FALSE
      <4>1. thisproc[c] \in Proc
        BY <3>1 DEF WaitSched, SemInv, IdleInv, WaitPC
      <4> QED
        BY <2>2, <3>1, <4>1 DEF WaitSched
    <3>2. ASSUME NEW q \in Proc, NEW s \in Sem, NEW a \in BOOLEAN,
                 WaitFast(q, s) \/ WaitEnqueue(q, s, a)
          PROVE  FALSE
      BY <3>2 DEF WaitFast, WaitEnqueue, queueVars, schedVars
    <3>3. ASSUME NEW c \in CPU, WaitLockSched(c) PROVE FALSE
      BY <3>3 DEF WaitLockSched, queueVars
    <3>4. ASSUME NEW q \in Proc, WaitGranted(q) \/ WaitInterrupted(q)
          PROVE  FALSE
      BY <3>4, ZenonT(30) DEF WaitGranted, WaitInterrupted, queueVars
    <3> QED
      BY <2>5, <3>1, <3>2, <3>3, <3>4, SemAssumption, ZenonT(30) DEF WaitNext
  <2>6. CASE PostNext
    <3>1. ASSUME NEW t \in Thread, NEW s \in Sem, NEW next \in PostPC,
                 PostFree(t, s) \/ PostGrant(t, s, next) \/ GetAll(t, s)
          PROVE  FALSE
      BY <3>1, ZenonT(30) DEF PostFree, PostGrant, GetAll, queueVars, schedVars
    <3>2. ASSUME NEW t \in Thread, PostActivate(t) \/ PostAllActivate(t)
          PROVE  up[p]
      BY <2>3, <3>2, ZenonT(30) DEF PostActivate, PostAllActivate, PostPC
    <3> QED
      BY <2>6, <3>1, <3>2, ZenonT(30) DEF PostNext, PostPC
  <2>7. CASE UNCHANGED vars
    BY <2>7 DEF vars, schedVars
  <2> QED
    BY <2>4, <2>5, <2>6, <2>7, ZenonT(30) DEF Next, Halted
<1> QED
  BY <1>1, SemaphoreInvariant, PTL DEF Spec, DeepSleepEndsByPost

-----------------------------------------------------------------------------
(***************************************************************************)
(* The refinement: every step of Semaphore is, read through Units,         *)
(* sleeplist and Chosen, one step of AbstractSemaphore or none.            *)
(***************************************************************************)

\* What the steps that leave val, sleeplist and up alone do: nothing.
LEMMA AbsStutter ==
    ASSUME UNCHANGED <<val, sleeplist, up>>
    PROVE  UNCHANGED Abs!absVars
BY DEF Abs!absVars, Units, Chosen

\* Counting steps: val[s] becomes n.
LEMMA UnitsStep ==
    ASSUME SemInv, NEW s \in Sem, NEW n \in Int, val' = [val EXCEPT ![s] = n]
    PROVE  Units' = [Units EXCEPT ![s] = Positive(n)]
BY ZenonT(30) DEF SemInv, TypeOK, Units, Positive

\* A wait that does not sleep takes a unit.
LEMMA WaitFastStep ==
    ASSUME SemInv, NEW p \in Proc, NEW s \in Sem, WaitFast(p, s)
    PROVE  Abs!Take(s)
<1>1. /\ val[s] \in Int /\ val[s] - 1 \in Int /\ val[s] - 1 >= 0
      /\ val' = [val EXCEPT ![s] = val[s] - 1]
  BY DEF WaitFast, SemInv, TypeOK
<1>2. Units' = [Units EXCEPT ![s] = Positive(val[s] - 1)]
  BY <1>1, UnitsStep, ZenonT(30)
<1>3. Units[s] = val[s] /\ Positive(val[s] - 1) = val[s] - 1
  BY <1>1 DEF Units, Positive
<1>4. UNCHANGED <<sleeplist, Chosen>>
  BY DEF WaitFast, Chosen
<1>5. Units[s] > 0
  BY <1>1, <1>3
<1>6. Units' = [Units EXCEPT ![s] = Units[s] - 1]
  BY <1>2, <1>3, ZenonT(30)
<1> QED
  BY <1>4, <1>5, <1>6 DEF Abs!Take

\* get_all_sem takes the units of the abstract semaphore.
LEMMA GetAllStep ==
    ASSUME SemInv, NEW t \in Thread, NEW s \in Sem, GetAll(t, s)
    PROVE  Abs!TakeAll(s)
<1>1. val[s] \in Int /\ val[s] > 0 /\ val' = [val EXCEPT ![s] = 0]
  BY DEF GetAll, SemInv, TypeOK
<1>2. Units' = [Units EXCEPT ![s] = Positive(0)]
  BY <1>1, 0 \in Int, UnitsStep, ZenonT(30)
<1>3. UNCHANGED <<sleeplist, Chosen>>
  BY DEF GetAll, Chosen
<1> QED
  BY <1>1, <1>2, <1>3 DEF Abs!TakeAll, Units, Positive

\* A post that finds nobody waiting makes a unit available.
LEMMA PostFreeStep ==
    ASSUME SemInv, NEW t \in Thread, NEW s \in Sem, PostFree(t, s)
    PROVE  Abs!Put(s)
<1>1. /\ val[s] \in Int /\ val[s] + 1 \in Int /\ val[s] >= 0
      /\ val' = [val EXCEPT ![s] = val[s] + 1]
  BY DEF PostFree, SemInv, TypeOK
<1>2. Units' = [Units EXCEPT ![s] = Positive(val[s] + 1)]
  BY <1>1, UnitsStep, ZenonT(30)
<1>3. Units[s] = val[s] /\ Positive(val[s] + 1) = val[s] + 1
  BY <1>1 DEF Units, Positive
<1>4. sleeplist[s] = <<>>
  <2>1. sleeplist[s] \in Seq(Proc) /\ Len(sleeplist[s]) = 0
    BY <1>1 DEF SemInv, TypeOK, ValCountsSleepers
  <2> QED
    BY <2>1
<1>5. UNCHANGED <<sleeplist, Chosen>>
  BY DEF PostFree, Chosen
<1> QED
  BY <1>2, <1>3, <1>4, <1>5, ZenonT(30) DEF Abs!Put

\* A wait that finds no unit queues up.
LEMMA WaitEnqueueStep ==
    ASSUME SemInv, NEW p \in Proc, NEW s \in Sem, NEW a \in BOOLEAN,
           WaitEnqueue(p, s, a)
    PROVE  Abs!Join(p, s)
<1>1. /\ val[s] \in Int /\ val[s] - 1 \in Int /\ val[s] <= 0
      /\ val' = [val EXCEPT ![s] = val[s] - 1]
  BY DEF WaitEnqueue, SemInv, TypeOK
<1>2. Units' = [Units EXCEPT ![s] = Positive(val[s] - 1)]
  BY <1>1, UnitsStep, ZenonT(30)
<1>3. Units[s] = 0 /\ Positive(val[s] - 1) = 0
  BY <1>1 DEF Units, Positive
<1>4. Units' = Units
  BY <1>2, <1>3, ZenonT(30) DEF Units
<1>5. ~up[p] /\ \A r \in Sem : ~InList(sleeplist[r], p)
  BY EntersFacts DEF WaitEnqueue, Thread
<1>6. Chosen' = Chosen /\ p \notin Chosen
  BY <1>5, ZenonT(30) DEF WaitEnqueue, Chosen, SemInv, TypeOK
<1>7. \A r \in Sem : ~Abs!InList(sleeplist[r], p)
  BY <1>5, ZenonT(30) DEF InList, Abs!InList
<1>8. sleeplist' = [sleeplist EXCEPT ![s] = Append(sleeplist[s], p)]
  BY DEF WaitEnqueue
<1> QED
  BY <1>3, <1>4, <1>6, <1>7, <1>8 DEF Abs!Join

\* A chosen wait returns.
LEMMA WaitGrantedStep ==
    ASSUME SemInv, NEW p \in Proc, WaitGranted(p)
    PROVE  Abs!Return(p)
<1>1. p \in Chosen /\ Chosen' = Chosen \ {p}
  BY DEF WaitGranted, Chosen, SemInv, TypeOK
<1>2. UNCHANGED <<Units, sleeplist>>
  BY DEF WaitGranted, Units
<1> QED
  BY <1>1, <1>2, ZenonT(30) DEF Abs!Return

\* An interrupted wait is cancelled: the decrement of val is undone and no unit
\* appears.
LEMMA WaitInterruptedStep ==
    ASSUME SemInv, NEW p \in Proc, WaitInterrupted(p)
    PROVE  Abs!Cancel(p, wsem[p])
<1> DEFINE s == wsem[p]
<1>1. s \in Sem /\ InList(sleeplist[s], p)
  BY ZenonT(30)
     DEF WaitInterrupted, SemInv, TypeOK, ListedIffWaiting, WaitPC, Thread
<1>2. /\ val' = [val EXCEPT ![s] = val[s] + 1]
      /\ sleeplist' = [sleeplist EXCEPT ![s] = Detach(sleeplist[s], p)]
      /\ up' = up
  BY ZenonT(30) DEF WaitInterrupted
<1> HIDE DEF s
<1>3. val[s] \in Int /\ val[s] + 1 \in Int /\ val[s] < 0
  <2>1. sleeplist[s] \in Seq(Proc) /\ Len(sleeplist[s]) > 0
    BY <1>1 DEF SemInv, TypeOK, InList
  <2> QED
    BY <1>1, <2>1 DEF SemInv, TypeOK, ValCountsSleepers
<1>4. Units' = [Units EXCEPT ![s] = Positive(val[s] + 1)]
  BY <1>1, <1>2, <1>3, UnitsStep, ZenonT(30)
<1>5. Units[s] = 0 /\ Positive(val[s] + 1) = 0
  BY <1>1, <1>3 DEF Units, Positive
<1>6. Units' = Units
  BY <1>4, <1>5 DEF Units
<1>7. Chosen' = Chosen
  BY <1>2 DEF Chosen
<1>8. /\ Abs!InList(sleeplist[s], p)
      /\ Abs!Detach(sleeplist[s], p) = Detach(sleeplist[s], p)
  BY <1>1, ZenonT(30)
  DEF InList, Abs!InList, Detach, Abs!Detach, Position, Abs!Position
<1> QED
  BY <1>2, <1>6, <1>7, <1>8, ZenonT(30) DEF Abs!Cancel, s

\* A post that finds waiters serves the oldest.
LEMMA GrantRefines ==
    ASSUME SemInv, NEW t \in Thread, NEW s \in Sem, val[s] + 1 <= 0,
           semlock[s] \in {Free, t}, pc[t] \notin WaitPC, Grant(t, s)
    PROVE  Abs!Serve(s)
<1> DEFINE w == Head(sleeplist[s])
<1>1. w \in Proc /\ sleeplist[s] \in Seq(Proc) /\ Len(sleeplist[s]) = -val[s]
  BY HeadFacts, ZenonT(30)
<1>2. /\ val' = [val EXCEPT ![s] = val[s] + 1]
      /\ sleeplist' = [sleeplist EXCEPT ![s] = Tail(sleeplist[s])]
      /\ up' = [up EXCEPT ![w] = TRUE]
  BY ZenonT(30) DEF Grant
<1>3. val[s] \in Int /\ val[s] + 1 \in Int
  BY DEF SemInv, TypeOK
<1>4. sleeplist[s] # <<>>
  BY <1>1, <1>3
<1>5. Units' = [Units EXCEPT ![s] = Positive(val[s] + 1)]
  BY <1>2, <1>3, UnitsStep, ZenonT(30)
<1>6. Units[s] = 0 /\ Positive(val[s] + 1) = 0
  BY <1>3 DEF Units, Positive
<1>7. Units' = Units
  BY <1>5, <1>6, ZenonT(30) DEF Units
<1> HIDE DEF w
<1>8. Chosen' = Chosen \cup {w}
  BY <1>1, <1>2 DEF Chosen, SemInv, TypeOK
<1> QED
  BY <1>2, <1>4, <1>7, <1>8, ZenonT(30) DEF Abs!Serve, w

\* Every step of the code's model is an abstract step or changes nothing the
\* abstract semaphore sees.
LEMMA StepSimulation == SemInv /\ [Next]_vars => [Abs!ANext]_(Abs!absVars)
<1> SUFFICES ASSUME SemInv, [Next]_vars
             PROVE  Abs!ANext \/ UNCHANGED Abs!absVars
  OBVIOUS
<1>1. CASE SchedNext
  BY <1>1, AbsStutter, ZenonT(30) DEF SchedNext, semVars
<1>2. CASE WaitNext
  <2>1. ASSUME NEW p \in Proc, NEW s \in Sem, WaitFast(p, s) PROVE Abs!ANext
    BY <2>1, WaitFastStep, ZenonT(30) DEF Abs!ANext
  <2>2. ASSUME NEW p \in Proc, NEW s \in Sem, NEW a \in BOOLEAN,
               WaitEnqueue(p, s, a)
        PROVE  Abs!ANext
    BY <2>2, WaitEnqueueStep, ZenonT(30) DEF Abs!ANext
  <2>3. ASSUME NEW c \in CPU, WaitLockSched(c) \/ WaitSched(c)
        PROVE  UNCHANGED Abs!absVars
    BY <2>3, AbsStutter, ZenonT(30) DEF WaitLockSched, WaitSched, semVars
  <2>4. ASSUME NEW p \in Proc, WaitGranted(p) PROVE Abs!ANext
    BY <2>4, WaitGrantedStep, ZenonT(30) DEF Abs!ANext
  <2>5. ASSUME NEW p \in Proc, WaitInterrupted(p) PROVE Abs!ANext
    <3>1. wsem[p] \in Sem
      BY DEF SemInv, TypeOK, Thread
    <3> QED
      BY <2>5, <3>1, WaitInterruptedStep, ZenonT(30) DEF Abs!ANext
  <2> QED
    BY <1>2, <2>1, <2>2, <2>3, <2>4, <2>5, SemAssumption, ZenonT(30)
       DEF WaitNext
<1>3. CASE PostNext
  <2>1. ASSUME NEW t \in Thread, NEW s \in Sem, PostFree(t, s) PROVE Abs!ANext
    BY <2>1, PostFreeStep, ZenonT(30) DEF Abs!ANext
  <2>2. ASSUME NEW t \in Thread, NEW s \in Sem, GetAll(t, s) PROVE Abs!ANext
    BY <2>2, GetAllStep, ZenonT(30) DEF Abs!ANext
  <2>3. ASSUME NEW t \in Thread, NEW s \in Sem, NEW next \in PostPC,
               PostGrant(t, s, next)
        PROVE  Abs!ANext
    <3>1. Abs!Serve(s)
      BY <2>3, GrantRefines, ZenonT(30) DEF PostGrant, Enters, WaitPC
    <3> QED
      BY <3>1, ZenonT(30) DEF Abs!ANext
  <2>4. ASSUME NEW t \in Thread, PostActivate(t) PROVE UNCHANGED Abs!absVars
    BY <2>4, AbsStutter, ZenonT(30) DEF PostActivate, Finish
  <2>5. ASSUME NEW t \in Thread, PostAllActivate(t)
        PROVE  Abs!ANext \/ UNCHANGED Abs!absVars
    <3>1. CASE Finish(t)
      BY <3>1, AbsStutter, ZenonT(30) DEF Finish
    <3>2. CASE val[wsem[t]] + 1 <= 0 /\ Grant(t, wsem[t])
      <4>1. wsem[t] \in Sem /\ pc[t] = "all_act"
        BY <2>5, ZenonT(30) DEF PostAllActivate, SemInv, TypeOK
      <4>2. semlock[wsem[t]] = t
        BY <4>1, ZenonT(30) DEF SemInv, SemLockHolder, LockPC, PostPC
      <4>3. Abs!Serve(wsem[t])
        BY <3>2, <4>1, <4>2, GrantRefines, ZenonT(30) DEF WaitPC
      <4> QED
        BY <4>1, <4>3, ZenonT(30) DEF Abs!ANext
    <3> QED
      BY <2>5, <3>1, <3>2, ZenonT(30) DEF PostAllActivate
  <2> QED
    BY <1>3, <2>1, <2>2, <2>3, <2>4, <2>5, ZenonT(30) DEF PostNext, PostPC
<1>4. CASE UNCHANGED vars
  BY <1>4, AbsStutter DEF vars, semVars
<1> QED
  BY <1>1, <1>2, <1>3, <1>4 DEF Next, Halted

\* The semaphores of sem.c, on any number of CPUs, implement a counting
\* semaphore with first-come first-served waits and cancellation.
THEOREM SemaphoreRefinement == Spec => ImplementsSemaphore
<1>1. Init => Abs!AInit
  <2> SUFFICES ASSUME Init PROVE Abs!AInit
    OBVIOUS
  <2>1. Units = InitVal
    <3>1. val = InitVal /\ InitVal \in [Sem -> Nat]
      BY SemAssumption DEF Init
    <3>2. \A s \in Sem : Positive(val[s]) = InitVal[s]
      BY <3>1 DEF Positive
    <3> QED
      BY <3>1, <3>2, ZenonT(30) DEF Units
  <2>2. Chosen = {} /\ sleeplist = [s \in Sem |-> <<>>]
    BY DEF Init, Chosen
  <2> QED
    BY <2>1, <2>2 DEF Abs!AInit
<1> QED
  BY <1>1, StepSimulation, SemaphoreInvariant, PTL
  DEF Spec, ImplementsSemaphore, Abs!ASpec
=============================================================================
