------------------------ MODULE SemaphorePostProofs -------------------------
(***************************************************************************)
(* TLAPS proofs about Semaphore, second part: an interrupted wait, the     *)
(* switch of simple_sched, and the steps of post_sem and post_all_sem      *)
(* preserve SemInv.                                                        *)
(***************************************************************************)
EXTENDS SemaphoreWaitProofs

\* A leaf that names no prover is tried by Z3 twice, by Zenon, and by Z3 again.
USE SMTT(10), Z3T(10), ZenonT(30), SMTT(30)

\* A wait that was interrupted undoes itself, and panics if it is unalertable.
LEMMA WaitInterruptedInv ==
    ASSUME SemInv, NEW p \in Proc, WaitInterrupted(p)
    PROVE  SemInv'
<1> USE DEF SemInv
<1> DEFINE s == wsem[p]
<1>1. /\ p \in Thread /\ p \notin CPU /\ p # Free
      /\ pc[p] = "wait_woken" /\ ~up[p] /\ OnCPU(p) /\ state[p] = "RUNNING"
      /\ s \in Sem /\ semlock[s] = Free
  BY SchedAssumption, ZenonT(30)
     DEF WaitInterrupted, Thread, TypeOK, RunningIsCurrent
<1>2. /\ val' = [val EXCEPT ![s] = val[s] + 1]
      /\ sleeplist' = [sleeplist EXCEPT ![s] = Detach(sleeplist[s], p)]
      /\ pc' = [pc EXCEPT ![p] = IF alertable[p] THEN "run" ELSE "panic"]
      /\ panic_flag' = (panic_flag \/ ~alertable[p])
      /\ wsem' = [wsem EXCEPT ![p] = AnySem]
      /\ alertable' = [alertable EXCEPT ![p] = TRUE]
      /\ state' = state /\ killed' = killed /\ thisproc' = thisproc
      /\ rqlock' = rqlock /\ target' = target /\ semlock' = semlock /\ up' = up
  BY DEF WaitInterrupted, queueVars
<1>u. /\ state' = state /\ killed' = killed /\ thisproc' = thisproc
      /\ rqlock' = rqlock /\ target' = target /\ up' = up
      /\ semlock' = semlock
  BY <1>2, ZenonT(30)
<1>3. AnySem \in Sem
  BY SemAssumption DEF AnySem
<1>4. QueueInv'
  BY QueueUnchanged DEF WaitInterrupted
<1>5. s = wsem[p]
  BY ZenonT(30)
<1> HIDE DEF s
<1>6. /\ pc'[p] \in {"run", "panic"} /\ (pc'[p] = "run" <=> alertable[p])
      /\ \A u \in Thread \ {p} : pc'[u] = pc[u] /\ wsem'[u] = wsem[u]
      /\ \A q \in Proc \ {p} : alertable'[q] = alertable[q]
  BY <1>1, <1>2, ZenonT(30) DEF TypeOK, Thread
<1>7. /\ sleeplist'[s] \in Seq(Proc)
      /\ Len(sleeplist'[s]) = Len(sleeplist[s]) - 1
      /\ Distinct(sleeplist'[s])
      /\ \A q : InList(sleeplist'[s], q) <=> InList(sleeplist[s], q) /\ q # p
      /\ \A r \in Sem \ {s} : sleeplist'[r] = sleeplist[r]
      /\ InList(sleeplist[s], p) /\ sleeplist[s] \in Seq(Proc)
  <2>1. sleeplist[s] \in Seq(Proc) /\ Distinct(sleeplist[s])
    BY <1>1, ZenonT(30) DEF TypeOK, ValCountsSleepers
  <2>2. InList(sleeplist[s], p)
    BY <1>1, <1>5, ZenonT(30) DEF ListedIffWaiting, WaitPC
  <2>3. sleeplist'[s] = Detach(sleeplist[s], p)
    BY <1>1, <1>2, ZenonT(30) DEF TypeOK
  <2>4. \A r \in Sem \ {s} : sleeplist'[r] = sleeplist[r]
    BY <1>2, ZenonT(30) DEF TypeOK
  <2> QED
    <3> HIDE DEF SemInv
    <3> QED
      <4>1. /\ Detach(sleeplist[s], p) \in Seq(Proc)
            /\ Len(Detach(sleeplist[s], p)) = Len(sleeplist[s]) - 1
            /\ Distinct(Detach(sleeplist[s], p))
            /\ \A q : InList(Detach(sleeplist[s], p), q)
                         <=> InList(sleeplist[s], q) /\ q # p
        BY <2>1, <2>2, DetachLemma, ZenonT(30)
      <4> QED
        BY <2>1, <2>2, <2>3, <2>4, <4>1, ZenonT(30)
<1>8. TypeOK'
  <2>1. sleeplist' \in [Sem -> Seq(Proc)]
    BY <1>2, <1>7 DEF TypeOK
  <2>2. val' \in [Sem -> Int]
    <3>1. val[s] + 1 \in Int /\ val \in [Sem -> Int]
      <4>1. val \in [Sem -> Int] /\ s \in Sem
        BY <1>1 DEF TypeOK
      <4> HIDE DEF SemInv
      <4> QED
        BY <4>1
    <3>2. val' = [val EXCEPT ![s] = val[s] + 1]
      BY <1>2
    <3> QED
      BY <3>1, <3>2, ZenonT(30)
  <2>3. pc' \in [Thread -> PC] /\ panic_flag' \in BOOLEAN
    BY <1>1, <1>2 DEF TypeOK, PC
  <2>4. wsem' \in [Thread -> Sem] /\ alertable' \in [Proc -> BOOLEAN]
    BY <1>1, <1>2, <1>3, ZenonT(30) DEF TypeOK
  <2> QED
    BY <1>2, <1>4, <2>1, <2>2, <2>3, <2>4, ZenonT(30) DEF TypeOK, QueueInv
<1>9. ValCountsSleepers'
  <2> SUFFICES ASSUME NEW r \in Sem
               PROVE  /\ Len(sleeplist'[r])
                           = (IF val'[r] < 0 THEN -val'[r] ELSE 0)
                      /\ Distinct(sleeplist'[r])
    BY ZenonT(30) DEF ValCountsSleepers
  <2>1. CASE r = s
    <3>1. val'[s] = val[s] + 1 /\ val[s] \in Int
      BY <1>1, <1>2, ZenonT(30) DEF TypeOK
    <3>2. Len(sleeplist[s]) > 0
      <4>1. InList(sleeplist[s], p) /\ sleeplist[s] \in Seq(Proc)
        BY <1>7, ZenonT(30)
      <4> HIDE DEF SemInv
      <4> QED
        BY <4>1 DEF InList
    <3>3. Len(sleeplist[s]) = (IF val[s] < 0 THEN -val[s] ELSE 0)
      BY <1>1, ZenonT(30) DEF ValCountsSleepers
    <3> QED
      <4>1. /\ Len(sleeplist'[s]) = Len(sleeplist[s]) - 1
            /\ Distinct(sleeplist'[s]) /\ Len(sleeplist[s]) \in Nat
        BY <1>7
      <4> HIDE DEF SemInv
      <4> QED
        BY <2>1, <3>1, <3>2, <3>3, <4>1
  <2>2. CASE r # s
    <3>1. val'[r] = val[r]
      BY <1>2, <2>2, ZenonT(30) DEF TypeOK
    <3> QED
      BY <1>7, <2>2, <3>1, ZenonT(30) DEF ValCountsSleepers
  <2> QED
    BY <2>1, <2>2, ZenonT(30)
<1>10. SemLockHolder'
  <2> SUFFICES ASSUME NEW u \in Thread, NEW r \in Sem
               PROVE  semlock[r] = u <=> pc'[u] \in LockPC /\ wsem'[u] = r
    <3>1. semlock' = semlock
      BY <1>2, ZenonT(30)
    <3> HIDE DEF SemInv
    <3> QED
      BY <3>1, ZenonT(30) DEF SemLockHolder
  <2>1. semlock[r] = u <=> pc[u] \in LockPC /\ wsem[u] = r
    BY DEF SemLockHolder
  <2>2. CASE u = p
    BY <1>1, <1>6, <2>1, <2>2, ZenonT(30) DEF LockPC, PostPC
  <2>3. CASE u # p
    BY <1>6, <2>1, <2>3, ZenonT(30)
  <2> QED
    BY <2>2, <2>3
<1>11. RqLockHolder' /\ HoldersRun'
  <2>1. \A u \in Thread : pc'[u] = "wait_sched" <=> pc[u] = "wait_sched"
    BY <1>1, <1>6, ZenonT(30)
  <2>2. thisproc \in [CPU -> Thread]
    BY DEF TypeOK
  <2>3. RqLockHolder'
    BY <1>u, <2>1, <2>2, ZenonT(30) DEF RqLockHolder
  <2>4. HoldersRun'
    <3> SUFFICES ASSUME NEW u \in Thread,
                        pc'[u] \in LockPC \cup {"wait_sched", "kill_alert", "panic"}
                 PROVE  OnCPU(u)
      BY <1>u, ZenonT(30) DEF HoldersRun, OnCPU, Runs
    <3>1. CASE u = p
      BY <1>1, <3>1, ZenonT(30)
    <3>2. CASE u # p
      BY <1>6, <3>2, ZenonT(30) DEF HoldersRun
    <3> QED
      BY <3>1, <3>2
  <2> QED
    BY <2>3, <2>4
<1>12. IdleInv'
  BY <1>1, <1>2, <1>6, ZenonT(30) DEF IdleInv, Thread
<1>13. ListedIffWaiting'
  <2> SUFFICES ASSUME NEW q \in Proc, NEW r \in Sem
               PROVE  InList(sleeplist'[r], q)
                        <=> pc'[q] \in WaitPC /\ wsem'[q] = r /\ ~up[q]
    BY <1>2 DEF ListedIffWaiting
  <2>1. InList(sleeplist[r], q) <=> pc[q] \in WaitPC /\ wsem[q] = r /\ ~up[q]
    BY DEF ListedIffWaiting
  <2>2. q \in Thread
    BY ZenonT(30) DEF Thread
  <2>3. CASE q = p
    BY <1>5, <1>6, <1>7, <2>1, <2>3, ZenonT(30) DEF WaitPC
  <2>4. CASE q # p
    BY <1>6, <1>7, <2>1, <2>2, <2>4, ZenonT(30)
  <2> QED
    BY <2>3, <2>4, ZenonT(30)
<1>14. ChosenWaits'
  BY <1>1, <1>2, <1>6, ZenonT(30) DEF ChosenWaits, Thread
<1>15. TargetOK'
  <2> SUFFICES ASSUME NEW u \in Thread
               PROVE  /\ pc'[u] \in PostPC =>
                           /\ target[u] \in Proc /\ up[target[u]]
                           /\ wsem'[target[u]] = wsem'[u]
                      /\ pc'[u] = "kill_alert" => target[u] \in Proc
    BY <1>2, ZenonT(30) DEF TargetOK
  <2>1. u = p => pc'[u] \notin PostPC \cup {"kill_alert"}
    BY <1>6, ZenonT(30) DEF PostPC
  <2>2. pc[u] \in PostPC => target[u] # p
    BY <1>1, ZenonT(30) DEF TargetOK
  <2> QED
    BY <1>1, <1>6, <2>1, <2>2, ZenonT(30) DEF TargetOK, Thread
<1>16. ChosenHasPoster'
  <2> SUFFICES ASSUME NEW q \in Proc, up[q], pc'[q] = "wait_sched" \/ Asleep(q)
               PROVE  \E u \in Thread : pc'[u] \in PostPC /\ target[u] = q
    BY <1>u, ZenonT(30) DEF ChosenHasPoster, Asleep
  <2>1. q # p
    BY <1>1, ZenonT(30)
  <2>2. pc[q] = "wait_sched" \/ Asleep(q)
    BY <1>6, <2>1, ZenonT(30) DEF Thread
  <2>3. PICK u \in Thread : pc[u] \in PostPC /\ target[u] = q
    BY <2>2, ZenonT(30) DEF ChosenHasPoster
  <2>4. u # p
    BY <1>1, <2>3, ZenonT(30) DEF PostPC
  <2> QED
    BY <1>6, <2>3, <2>4, ZenonT(30)
<1>17. SleepKind'
  <2> SUFFICES ASSUME NEW q \in Proc
               PROVE  /\ state[q] = "SLEEPING" => alertable'[q]
                      /\ state[q] = "DEEPSLEEPING" => ~alertable'[q]
                      /\ Asleep(q) => pc'[q] = "wait_woken"
                      /\ /\ pc'[q] = "wait_woken"
                         /\ ~alertable'[q] /\ ~killed[q]
                         /\ state[q] # "DEEPSLEEPING"
                         => up[q]
    BY <1>2, ZenonT(30) DEF SleepKind, Asleep
  <2>1. q \in Thread
    BY ZenonT(30) DEF Thread
  <2>2. CASE q = p
    BY <1>1, <1>6, <2>2, ZenonT(30) DEF Asleep
  <2>3. CASE q # p
    BY <1>6, <2>1, <2>3, ZenonT(30) DEF SleepKind
  <2> QED
    BY <2>2, <2>3, ZenonT(30)
<1>K. NoLostKill'
  <2> SUFFICES ASSUME NEW q \in Proc, killed[q], state[q] = "SLEEPING"
               PROVE  \E u \in Proc : pc'[u] = "kill_alert" /\ target[u] = q
    BY <1>u DEF NoLostKill
  <2>1. PICK u \in Proc : pc[u] = "kill_alert" /\ target[u] = q
    BY DEF NoLostKill
  <2> QED
    BY <1>1, <1>6, <2>1, ZenonT(30) DEF Thread
<1>19. OnlyKilledPanics'
  <2>1. CASE alertable[p]
    BY <1>1, <1>2, <1>6, <2>1, ZenonT(30) DEF OnlyKilledPanics, Thread
  <2>2. CASE ~alertable[p]
    <3>1. killed[p]
      BY <1>1, <2>2 DEF SleepKind
    <3> QED
      BY <1>2, <1>6, <2>2, <3>1 DEF OnlyKilledPanics
  <2> QED
    BY <2>1, <2>2, ZenonT(30)
<1> QED
  BY <1>4, <1>8, <1>9, <1>10, <1>11, <1>12, <1>13, <1>14, <1>15, <1>16, <1>17,
     <1>K, <1>19 DEF QueueInv

-----------------------------------------------------------------------------
(***************************************************************************)
(* Steps that give the CPU away through simple_sched, from "run" (yield,   *)
(* exit) or from the wait that holds rqlock.                               *)
(***************************************************************************)
LEMMA SwitchInv ==
    ASSUME SemInv, NEW c \in CPU,
           NEW new_state \in {"RUNNABLE", "SLEEPING", "DEEPSLEEPING", "ZOMBIE"},
           NEW l \in {"run", "off", "wait_woken"},
           SimpleSched(c, new_state),
           thisproc[c] \in Proc \/ (new_state = "RUNNABLE" /\ l = "run"),
           \/ /\ pc[thisproc[c]] = "run" /\ rqlock = Free
              /\ new_state \in {"RUNNABLE", "ZOMBIE"} /\ l \in {"run", "off"}
           \/ /\ pc[thisproc[c]] = "wait_sched" /\ l = "wait_woken"
              /\ new_state = IF alertable[thisproc[c]] THEN "SLEEPING"
                                                       ELSE "DEEPSLEEPING",
           pc' = [pc EXCEPT ![thisproc[c]] = l],
           UNCHANGED <<killed, panic_flag, target, semVars>>
    PROVE  SemInv'
<1> USE DEF SemInv
<1> DEFINE this == thisproc[c]
<1>1. /\ QueueInv'
      /\ rqlock' = Free
      /\ killed[this] /\ new_state # "ZOMBIE" =>
            state' = state /\ thisproc' = thisproc
      /\ ~killed[this] /\ new_state # "RUNNABLE" => state'[this] = new_state
      /\ \A t \in Thread \ {this} :
            /\ \/ state'[t] = state[t]
               \/ state[t] = "RUNNABLE" /\ state'[t] = "RUNNING"
            /\ OnCPU(t) => OnCPU(t)'
      /\ state'[this] \in {"RUNNING", new_state}
      /\ \A d \in CPU : \/ thisproc'[d] = thisproc[d]
                        \/ d = c /\ ~OnCPU(thisproc'[d])
  BY SemInvQueueInv, SwitchLemma, ZenonT(30)
<1>2. /\ this \in Thread /\ OnCPU(this) /\ state[this] = "RUNNING"
      /\ pc[this] \in {"run", "wait_sched"}
  BY ZenonT(30) DEF TypeOK, OnCPU, Runs, RunningIsCurrent
<1>3. /\ pc'[this] = l
      /\ \A t \in Thread \ {this} : pc'[t] = pc[t]
  BY <1>2, ZenonT(30) DEF TypeOK
<1>4. /\ semlock' = semlock /\ val' = val /\ sleeplist' = sleeplist
      /\ up' = up /\ wsem' = wsem /\ alertable' = alertable
      /\ killed' = killed /\ panic_flag' = panic_flag /\ target' = target
  BY ZenonT(30) DEF semVars
<1>5. this \in CPU => l = "run"
  BY SchedAssumption, ZenonT(30)
<1>6. /\ l = "wait_woken" <=> pc[this] = "wait_sched"
      /\ l # "wait_woken" => new_state \in {"RUNNABLE", "ZOMBIE"}
      /\ l = "wait_woken" => new_state = IF alertable[this] THEN "SLEEPING"
                                                            ELSE "DEEPSLEEPING"
  BY ZenonT(30)
<1> HIDE DEF this
<1>7. TypeOK'
  <2>1. pc' \in [Thread -> PC]
    BY <1>2, ZenonT(30) DEF TypeOK, PC, WaitPC, this
  <2> QED
    BY <1>1, <1>4, <2>1, ZenonT(30) DEF TypeOK, QueueInv
<1>8. ValCountsSleepers'
  BY <1>4, ZenonT(30) DEF ValCountsSleepers
<1>9. SemLockHolder'
  <2> SUFFICES ASSUME NEW t \in Thread
               PROVE  pc'[t] \in LockPC <=> pc[t] \in LockPC
    BY <1>4, ZenonT(30) DEF SemLockHolder
  <2> QED
    BY <1>2, <1>3, ZenonT(30) DEF LockPC, PostPC
<1>10. RqLockHolder'
  <2> SUFFICES ASSUME NEW d \in CPU
               PROVE  pc'[thisproc'[d]] # "wait_sched"
    BY <1>1, SchedAssumption, ZenonT(30) DEF RqLockHolder
  <2>1. thisproc[d] \in Thread /\ thisproc'[d] \in Thread
    BY <1>1, ZenonT(30) DEF TypeOK, QueueInv
  <2>2. rqlock \in {Free, c}
    BY ZenonT(30) DEF RqLockHolder, this
  <2>3. d # c => thisproc[d] # this /\ pc[thisproc[d]] # "wait_sched"
    BY <2>2, SchedAssumption, ZenonT(30)
       DEF RunningIsCurrent, RqLockHolder, this
  <2>4. CASE thisproc'[d] = thisproc[d]
    BY <1>3, <2>1, <2>3, <2>4, ZenonT(30) DEF this
  <2>5. CASE d = c /\ ~OnCPU(thisproc'[d])
    BY <1>2, <1>3, <2>1, <2>5, ZenonT(30) DEF HoldersRun
  <2> QED
    BY <1>1, <2>4, <2>5, ZenonT(30)
<1>11. HoldersRun'
  <2> SUFFICES ASSUME NEW t \in Thread,
                      pc'[t] \in LockPC \cup {"wait_sched", "kill_alert", "panic"}
               PROVE  OnCPU(t)'
    BY ZenonT(30) DEF HoldersRun
  <2>1. t # this
    BY <1>3, ZenonT(30) DEF LockPC, PostPC
  <2> QED
    BY <1>1, <1>3, <2>1, ZenonT(30) DEF HoldersRun
<1>12. IdleInv'
  BY <1>1, <1>3, <1>5 DEF IdleInv, QueueInv, WaitPC, Thread
<1>13. ListedIffWaiting'
  <2> SUFFICES ASSUME NEW p \in Proc
               PROVE  pc'[p] \in WaitPC <=> pc[p] \in WaitPC
    BY <1>4, ZenonT(30) DEF ListedIffWaiting
  <2> QED
    BY <1>2, <1>3, <1>6, ZenonT(30) DEF WaitPC, Thread
<1>14. ChosenWaits'
  BY <1>2, <1>3, <1>4, <1>6, ZenonT(30) DEF ChosenWaits, Thread
<1>15. TargetOK'
  BY <1>3, <1>4, ZenonT(30) DEF TargetOK, PostPC
<1>16. ChosenHasPoster'
  <2> SUFFICES ASSUME NEW p \in Proc, up[p],
                      pc'[p] = "wait_sched" \/ Asleep(p)'
               PROVE  \E t \in Thread : pc'[t] \in PostPC /\ target[t] = p
    BY <1>4, ZenonT(30) DEF ChosenHasPoster
  <2>1. pc[p] = "wait_sched" \/ Asleep(p)
    <3>1. CASE p = this
      BY <1>1, <1>3, <1>6, <3>1, ZenonT(30) DEF Asleep
    <3>2. CASE p # this
      BY <1>1, <1>3, <3>2, ZenonT(30) DEF Asleep, Thread
    <3> QED
      BY <3>1, <3>2, ZenonT(30)
  <2>2. PICK t \in Thread : pc[t] \in PostPC /\ target[t] = p
    BY <2>1, ZenonT(30) DEF ChosenHasPoster
  <2>3. t # this
    BY <1>2, <2>2, ZenonT(30) DEF PostPC
  <2> QED
    BY <1>3, <2>2, <2>3, ZenonT(30)
<1>17. SleepKind'
  <2> SUFFICES ASSUME NEW p \in Proc
               PROVE  /\ state'[p] = "SLEEPING" => alertable[p]
                      /\ state'[p] = "DEEPSLEEPING" => ~alertable[p]
                      /\ Asleep(p)' => pc'[p] = "wait_woken"
                      /\ /\ pc'[p] = "wait_woken"
                         /\ ~alertable[p] /\ ~killed[p]
                         /\ state'[p] # "DEEPSLEEPING"
                         => up[p]
    BY <1>4, ZenonT(30) DEF SleepKind
  <2>1. p \in Thread
    BY ZenonT(30) DEF Thread
  <2>2. CASE p = this
    BY <1>1, <1>3, <1>6, <2>2, ZenonT(30) DEF Asleep
  <2>3. CASE p # this
    BY <1>1, <1>3, <2>1, <2>3 DEF SleepKind, Asleep
  <2> QED
    BY <2>2, <2>3, ZenonT(30)
<1>18. NoLostKill'
  <2> SUFFICES ASSUME NEW p \in Proc, killed[p], state'[p] = "SLEEPING"
               PROVE  \E t \in Proc : pc'[t] = "kill_alert" /\ target[t] = p
    <3>1. killed' = killed /\ target' = target
      BY <1>4, ZenonT(30)
    <3> QED
      <4> HIDE DEF SemInv
      <4> QED
        BY <3>1 DEF NoLostKill
  <2>1. p # this
    BY <1>1, <1>2, ZenonT(30)
  <2>2. state[p] = "SLEEPING"
    BY <1>1, <2>1, ZenonT(30) DEF Thread
  <2>3. PICK t \in Proc : pc[t] = "kill_alert" /\ target[t] = p
    BY <2>2, ZenonT(30) DEF NoLostKill
  <2> QED
    BY <1>2, <1>3, <2>3, ZenonT(30) DEF Thread
<1>19. OnlyKilledPanics'
  <2> SUFFICES ASSUME panic_flag
               PROVE  \E p \in Proc : pc'[p] = "panic" /\ killed[p]
    <3>1. panic_flag' = panic_flag /\ killed' = killed
      BY <1>4, ZenonT(30)
    <3> HIDE DEF SemInv
    <3> QED
      BY <3>1 DEF OnlyKilledPanics
  <2>1. PICK p \in Proc : pc[p] = "panic" /\ killed[p]
    BY ZenonT(30) DEF OnlyKilledPanics
  <2> QED
    BY <1>2, <1>3, <2>1, ZenonT(30) DEF Thread
<1> QED
  BY <1>1, <1>7, <1>8, <1>9, <1>10, <1>11, <1>12, <1>13, <1>14, <1>15, <1>16,
     <1>17, <1>18, <1>19 DEF QueueInv

\* A process yields.
LEMMA YieldInv ==
    ASSUME SemInv, NEW c \in CPU, Yield(c), UNCHANGED semVars
    PROVE  SemInv'
<1>1. pc' = [pc EXCEPT ![thisproc[c]] = "run"]
  BY DEF Yield, SemInv, TypeOK
<1> QED
  BY <1>1, SwitchInv, ZenonT(30) DEF Yield

\* A process becomes a zombie and leaves its CPU for ever.
LEMMA ExitInv ==
    ASSUME SemInv, NEW c \in CPU, Exit(c), UNCHANGED semVars
    PROVE  SemInv'
BY SwitchInv, ZenonT(30) DEF Exit

\* A listed waiter goes to sleep and releases its CPU.
LEMMA WaitSchedInv ==
    ASSUME SemInv, NEW c \in CPU, WaitSched(c)
    PROVE  SemInv'
<1>1. thisproc[c] \in Proc
  BY DEF WaitSched, SemInv, IdleInv, WaitPC
<1> DEFINE new_state == IF alertable[thisproc[c]] THEN "SLEEPING"
                                                  ELSE "DEEPSLEEPING"
<1>2. new_state \in {"RUNNABLE", "SLEEPING", "DEEPSLEEPING", "ZOMBIE"}
  OBVIOUS
<1>3. SimpleSched(c, new_state)
  BY DEF WaitSched
<1> QED
  BY <1>1, <1>2, <1>3, SwitchInv, ZenonT(30) DEF WaitSched

-----------------------------------------------------------------------------

\* The waiter a post chooses: it stands in the list, it has left its critical
\* section, and no other post chose it.
LEMMA HeadFacts ==
    ASSUME SemInv, NEW t \in Thread, NEW s \in Sem, val[s] + 1 <= 0,
           semlock[s] \in {Free, t}, pc[t] \notin WaitPC
    PROVE  LET w == Head(sleeplist[s]) IN
           /\ w \in Proc /\ w # t /\ ~up[w] /\ wsem[w] = s
           /\ pc[w] \in {"wait_sched", "wait_woken"}
           /\ \A u \in Thread : pc[u] \in PostPC => target[u] # w
           /\ sleeplist[s] \in Seq(Proc)
           /\ Tail(sleeplist[s]) \in Seq(Proc)
           /\ Len(sleeplist[s]) = -val[s]
           /\ Len(Tail(sleeplist[s])) = Len(sleeplist[s]) - 1
           /\ Distinct(Tail(sleeplist[s]))
           /\ \A q : InList(Tail(sleeplist[s]), q)
                        <=> InList(sleeplist[s], q) /\ q # w
<1> USE DEF SemInv
<1> DEFINE w == Head(sleeplist[s])
<1>1. /\ sleeplist[s] \in Seq(Proc) /\ Distinct(sleeplist[s])
      /\ Len(sleeplist[s]) = -val[s] /\ Len(sleeplist[s]) > 0
  BY DEF TypeOK, ValCountsSleepers
<1>2. /\ Tail(sleeplist[s]) \in Seq(Proc)
      /\ Len(Tail(sleeplist[s])) = Len(sleeplist[s]) - 1
      /\ Distinct(Tail(sleeplist[s]))
      /\ w \in Proc /\ InList(sleeplist[s], w)
      /\ \A q : InList(Tail(sleeplist[s]), q) <=> InList(sleeplist[s], q) /\ q # w
  BY <1>1, TailLemma
<1> HIDE DEF w
<1>3. pc[w] \in WaitPC /\ wsem[w] = s /\ ~up[w] /\ w # t
  BY <1>2 DEF ListedIffWaiting
<1>4. pc[w] # "wait_lock"
  BY <1>2, <1>3, SchedAssumption DEF SemLockHolder, LockPC, Thread
<1>5. \A u \in Thread : pc[u] \in PostPC => target[u] # w
  BY <1>3 DEF TargetOK
<1> QED
  BY <1>1, <1>2, <1>3, <1>4, <1>5 DEF WaitPC, w

\* A poster's activate_proc: only the process it chose may become RUNNABLE, and
\* that process neither sleeps nor is about to sleep afterwards.
LEMMA PosterActivates ==
    ASSUME SemInv, NEW t \in Thread, pc[t] \in PostPC,
           ActivateProc(target[t], FALSE), thisproc' = thisproc
    PROVE  /\ QueueInv'
           /\ target[t] \in Proc /\ up[target[t]] /\ target[t] # t
           /\ \A q \in Thread \ {target[t]} : state'[q] = state[q]
           /\ state'[target[t]] \in {state[target[t]], "RUNNABLE"}
           /\ state'[target[t]] \notin {"SLEEPING", "DEEPSLEEPING"}
           /\ pc[target[t]] = "wait_woken"
<1> USE DEF SemInv
<1> DEFINE p == target[t]
<1>1. p \in Proc /\ up[p] /\ p \in Thread
  BY DEF TargetOK, Thread
<1>2. pc[p] \in {"wait_sched", "wait_woken"} /\ p # t
  BY <1>1 DEF ChosenWaits, PostPC
<1>3. /\ QueueInv'
      /\ \/ Wakes(p, FALSE) /\ state' = [state EXCEPT ![p] = "RUNNABLE"]
         \/ ~Wakes(p, FALSE) /\ state' = state
  BY <1>1, SemInvQueueInv, ActivateLemma, ZenonT(30)
<1>4. pc[p] # "wait_sched"
  \* it would hold rqlock
  <2> SUFFICES ASSUME pc[p] = "wait_sched" PROVE FALSE
    OBVIOUS
  <2>1. PICK c \in CPU : thisproc[c] = p
    BY <1>1 DEF HoldersRun, OnCPU, Runs
  <2>2. rqlock = c
    BY <2>1 DEF RqLockHolder
  <2> QED
    BY <2>2, SchedAssumption DEF ActivateProc
<1> HIDE DEF p
<1>5. /\ \A q \in Thread \ {p} : state'[q] = state[q]
      /\ state'[p] \in {state[p], "RUNNABLE"}
      /\ state'[p] \notin {"SLEEPING", "DEEPSLEEPING"}
  BY <1>1, <1>3 DEF Wakes, TypeOK
<1> QED
  BY <1>1, <1>2, <1>3, <1>4, <1>5 DEF p

\* A post chooses the oldest waiter; a post_all_sem has just activated the one
\* before.
GrantStep(t, s, next) ==
    /\ val[s] + 1 <= 0
    /\ Grant(t, s)
    /\ \/ /\ pc[t] = "run" /\ OnCPU(t) /\ semlock[s] = Free
          /\ UNCHANGED queueVars
       \/ /\ pc[t] \in PostPC /\ wsem[t] = s
          /\ ActivateProc(target[t], FALSE)
    /\ semlock' = [semlock EXCEPT ![s] = t]
    /\ wsem' = [wsem EXCEPT ![t] = s]
    /\ pc' = [pc EXCEPT ![t] = next]
    /\ UNCHANGED <<killed, thisproc, rqlock, panic_flag, alertable>>

\* That step keeps the invariant.
LEMMA GrantInv ==
    ASSUME SemInv, NEW t \in Thread, NEW s \in Sem, NEW next \in PostPC,
           GrantStep(t, s, next)
    PROVE  SemInv'
<1> USE DEF SemInv
<1> DEFINE w == Head(sleeplist[s])
<1>1. semlock[s] \in {Free, t} /\ pc[t] \notin WaitPC
  BY ZenonT(30) DEF GrantStep, SemLockHolder, LockPC, WaitPC, PostPC
<1>2. /\ w \in Proc /\ w # t /\ ~up[w] /\ wsem[w] = s
      /\ pc[w] \in {"wait_sched", "wait_woken"}
      /\ \A u \in Thread : pc[u] \in PostPC => target[u] # w
      /\ Tail(sleeplist[s]) \in Seq(Proc)
      /\ Len(sleeplist[s]) = -val[s]
      /\ Len(Tail(sleeplist[s])) = Len(sleeplist[s]) - 1
      /\ Distinct(Tail(sleeplist[s]))
      /\ \A q : InList(Tail(sleeplist[s]), q) <=> InList(sleeplist[s], q) /\ q # w
  BY <1>1, HeadFacts, ZenonT(30) DEF GrantStep
<1>3. /\ val' = [val EXCEPT ![s] = val[s] + 1]
      /\ sleeplist' = [sleeplist EXCEPT ![s] = Tail(sleeplist[s])]
      /\ up' = [up EXCEPT ![w] = TRUE]
      /\ target' = [target EXCEPT ![t] = w]
      /\ semlock' = [semlock EXCEPT ![s] = t]
      /\ wsem' = [wsem EXCEPT ![t] = s]
      /\ pc' = [pc EXCEPT ![t] = next]
  BY DEF GrantStep, Grant
<1>4. /\ killed' = killed /\ thisproc' = thisproc /\ rqlock' = rqlock
      /\ panic_flag' = panic_flag /\ alertable' = alertable
  BY DEF GrantStep
<1>5. /\ QueueInv'
      /\ \A q \in Thread : \/ state'[q] = state[q]
                           \/ q \in Proc /\ up[q] /\ state'[q] = "RUNNABLE"
      /\ pc[t] \in PostPC => /\ state'[target[t]] \notin {"SLEEPING", "DEEPSLEEPING"}
                             /\ pc[target[t]] = "wait_woken"
  <2>1. CASE pc[t] = "run"
    <3>1. UNCHANGED queueVars
      BY <2>1 DEF GrantStep, PostPC
    <3> QED
      BY <2>1, <3>1, <1>4, QueueUnchanged DEF queueVars, PostPC
  <2>2. CASE pc[t] \in PostPC
    <3>1. ActivateProc(target[t], FALSE)
      BY <2>2, ZenonT(30) DEF GrantStep, PostPC
    <3> QED
      BY <1>4, <2>2, <3>1, PosterActivates, ZenonT(30)
  <2> QED
    BY <2>1, <2>2, ZenonT(30) DEF GrantStep
<1>6. OnCPU(t) /\ \A u \in Thread \ {t} : pc[u] \in LockPC => wsem[u] # s
  <2>1. OnCPU(t)
    BY ZenonT(30) DEF GrantStep, HoldersRun, LockPC
  <2> QED
    BY <1>1, <2>1, SchedAssumption DEF SemLockHolder, Thread
<1>7. pc[t] \in {"run"} \cup PostPC /\ (pc[t] \in PostPC => wsem[t] = s)
  BY ZenonT(30) DEF GrantStep, PostPC
<1> HIDE DEF w
<1>8. /\ pc'[t] = next /\ wsem'[t] = s /\ target'[t] = w
      /\ \A u \in Thread \ {t} :
            pc'[u] = pc[u] /\ wsem'[u] = wsem[u] /\ target'[u] = target[u]
      /\ up'[w] /\ \A q \in Proc \ {w} : up'[q] = up[q]
      /\ semlock'[s] = t /\ \A r \in Sem \ {s} : semlock'[r] = semlock[r]
  BY <1>2, <1>3 DEF TypeOK
<1>9. /\ sleeplist'[s] = Tail(sleeplist[s])
      /\ \A r \in Sem \ {s} : sleeplist'[r] = sleeplist[r]
      /\ val'[s] = val[s] + 1 /\ \A r \in Sem \ {s} : val'[r] = val[r]
      /\ val[s] \in Int
  BY <1>3 DEF TypeOK
<1>10. TypeOK'
  <2>1. w \in Thread
    BY <1>2, ZenonT(30) DEF Thread
  <2>2. sleeplist' \in [Sem -> Seq(Proc)]
    BY <1>2, <1>3, ZenonT(30) DEF TypeOK
  <2>3. val' \in [Sem -> Int]
    BY <1>3 DEF TypeOK
  <2>4. /\ up' \in [Proc -> BOOLEAN] /\ target' \in [Thread -> Thread]
        /\ semlock' \in [Sem -> Thread \cup {Free}]
        /\ wsem' \in [Thread -> Sem] /\ pc' \in [Thread -> PC]
    BY <1>3, <2>1, ZenonT(30) DEF TypeOK, PC
  <2>5. /\ state' \in [Thread -> ProcState] /\ rq' \in SUBSET Proc
        /\ node_cnt' \in Int /\ thisproc' \in [CPU -> Thread]
    BY <1>5 DEF QueueInv
  <2>6. /\ killed' \in [Thread -> BOOLEAN] /\ rqlock' \in CPU \cup {Free}
        /\ panic_flag' \in BOOLEAN /\ alertable' \in [Proc -> BOOLEAN]
    BY <1>4 DEF TypeOK
  <2> QED
    BY <2>2, <2>3, <2>4, <2>5, <2>6, Zenon DEF TypeOK
<1>11. ValCountsSleepers'
  <2> SUFFICES ASSUME NEW r \in Sem
               PROVE  /\ Len(sleeplist'[r])
                           = (IF val'[r] < 0 THEN -val'[r] ELSE 0)
                      /\ Distinct(sleeplist'[r])
    BY DEF ValCountsSleepers
  <2>1. CASE r = s
    <3>1. /\ Len(sleeplist'[r]) = -val[s] - 1 /\ Distinct(sleeplist'[r])
          /\ val'[r] = val[s] + 1
      BY <1>2, <1>9, <2>1, ZenonT(30)
    <3> QED
      BY <1>9, <3>1
  <2>2. CASE r # s
    BY <1>9, <2>2 DEF ValCountsSleepers
  <2> QED
    BY <2>1, <2>2
<1>12. SemLockHolder'
  <2> SUFFICES ASSUME NEW u \in Thread, NEW r \in Sem
               PROVE  semlock'[r] = u <=> pc'[u] \in LockPC /\ wsem'[u] = r
    BY DEF SemLockHolder
  <2>1. semlock[r] = u <=> pc[u] \in LockPC /\ wsem[u] = r
    BY DEF SemLockHolder
  <2>2. CASE u = t
    BY <1>7, <1>8, <2>1, <2>2 DEF LockPC, PostPC
  <2>3. CASE u # t
    BY <1>6, <1>8, <2>1, <2>3
  <2> QED
    BY <2>2, <2>3
<1>13. RqLockHolder'
  <2> SUFFICES ASSUME NEW u \in Thread
               PROVE  pc'[u] = "wait_sched" <=> pc[u] = "wait_sched"
    BY <1>4 DEF RqLockHolder, TypeOK
  <2> QED
    BY <1>7, <1>8, ZenonT(30) DEF PostPC
<1>14. HoldersRun'
  <2> SUFFICES ASSUME NEW u \in Thread,
                      pc'[u] \in LockPC \cup {"wait_sched", "kill_alert", "panic"}
               PROVE  OnCPU(u)'
    BY DEF HoldersRun
  <2>1. OnCPU(u)
    BY <1>6, <1>8, ZenonT(30) DEF HoldersRun
  <2> QED
    BY <1>4, <2>1 DEF OnCPU, Runs
<1>15. IdleInv'
  BY <1>5, <1>7, <1>8, ZenonT(30) DEF IdleInv, QueueInv, WaitPC, PostPC, Thread
<1>16. ListedIffWaiting'
  <2> SUFFICES ASSUME NEW q \in Proc, NEW r \in Sem
               PROVE  InList(sleeplist'[r], q)
                        <=> pc'[q] \in WaitPC /\ wsem'[q] = r /\ ~up'[q]
    BY DEF ListedIffWaiting
  <2>1. InList(sleeplist[r], q) <=> pc[q] \in WaitPC /\ wsem[q] = r /\ ~up[q]
    BY DEF ListedIffWaiting
  <2>2. q \in Thread
    BY DEF Thread
  <2>3. q # w => (InList(sleeplist'[r], q) <=> InList(sleeplist[r], q))
    BY <1>2, <1>9, ZenonT(30)
  <2>4. CASE q = t
    <3>1. pc[q] \notin WaitPC /\ pc'[q] \notin WaitPC
      BY <1>1, <1>8, <2>4, ZenonT(30) DEF WaitPC, PostPC
    <3> QED
      BY <1>2, <2>1, <2>3, <2>4, <3>1, ZenonT(30)
  <2>5. CASE q = w
    <3>1. r # s => ~InList(sleeplist[r], q)
      BY <1>2, <2>1, <2>5, ZenonT(30)
    <3>2. ~InList(sleeplist'[r], q)
      BY <1>2, <1>9, <2>5, <3>1, ZenonT(30)
    <3> QED
      BY <1>8, <2>5, <3>2, ZenonT(30)
  <2>6. CASE q # t /\ q # w
    <3>1. pc'[q] = pc[q] /\ wsem'[q] = wsem[q] /\ up'[q] = up[q]
      BY <1>8, <2>2, <2>6, ZenonT(30)
    <3> QED
      BY <2>1, <2>3, <2>6, <3>1, ZenonT(30)
  <2> QED
    BY <2>4, <2>5, <2>6, ZenonT(30)
<1>17. ChosenWaits'
  <2> SUFFICES ASSUME NEW q \in Proc, up'[q]
               PROVE  pc'[q] \in {"wait_sched", "wait_woken"}
    BY ZenonT(30) DEF ChosenWaits
  <2>1. pc[q] \in {"wait_sched", "wait_woken"}
    BY <1>2, <1>8 DEF ChosenWaits
  <2>2. q # t
    BY <1>7, <2>1, ZenonT(30) DEF PostPC
  <2> QED
    BY <1>8, <2>1, <2>2, ZenonT(30) DEF Thread
<1>18. TargetOK'
  <2> SUFFICES ASSUME NEW u \in Thread
               PROVE  /\ pc'[u] \in PostPC =>
                           /\ target'[u] \in Proc /\ up'[target'[u]]
                           /\ wsem'[target'[u]] = wsem'[u]
                      /\ pc'[u] = "kill_alert" => target'[u] \in Proc
    BY ZenonT(30) DEF TargetOK
  <2>1. CASE u = t
    BY <1>2, <1>8, <2>1, ZenonT(30) DEF PostPC, Thread
  <2>2. CASE u # t
    <3>1. pc[u] \in PostPC => target[u] # t
      BY <1>7, ZenonT(30) DEF TargetOK, ChosenWaits, PostPC
    <3>2. /\ pc'[u] = pc[u] /\ target'[u] = target[u] /\ wsem'[u] = wsem[u]
          /\ pc[u] = "kill_alert" => target[u] \in Proc
      BY <1>8, <2>2, ZenonT(30) DEF TargetOK
    <3> SUFFICES ASSUME pc[u] \in PostPC
                 PROVE  /\ target[u] \in Proc /\ up'[target[u]]
                        /\ wsem'[target[u]] = wsem[u]
      BY <3>2, ZenonT(30)
    <3>3. /\ target[u] \in Proc /\ up[target[u]] /\ wsem[target[u]] = wsem[u]
          /\ target[u] # t /\ target[u] # w
      BY <1>2, <3>1, ZenonT(30) DEF TargetOK
    <3> QED
      BY <1>8, <3>3, ZenonT(30) DEF Thread
  <2> QED
    BY <2>1, <2>2, ZenonT(30)
<1>19. ChosenHasPoster'
  <2> SUFFICES ASSUME NEW q \in Proc, up'[q],
                      pc'[q] = "wait_sched" \/ Asleep(q)'
               PROVE  \E u \in Thread : pc'[u] \in PostPC /\ target'[u] = q
    BY ZenonT(30) DEF ChosenHasPoster
  <2>1. CASE q = w
    BY <1>8, <2>1, ZenonT(30)
  <2>2. CASE q # w
    <3>0. q \in Thread /\ up[q]
      BY <1>8, <2>2, ZenonT(30) DEF Thread
    <3>1. up[q] /\ (pc[q] = "wait_sched" \/ Asleep(q))
      BY <1>5, <1>8, <3>0, ZenonT(30) DEF Asleep, PostPC
    <3>2. PICK u \in Thread : pc[u] \in PostPC /\ target[u] = q
      BY <3>1, ZenonT(30) DEF ChosenHasPoster
    <3>3. u # t
      <4> SUFFICES ASSUME u = t PROVE FALSE
        BY ZenonT(30)
      <4>1. ~Asleep(q)' /\ pc[q] = "wait_woken" /\ q # t
        BY <1>5, <3>2, ZenonT(30) DEF Asleep, PostPC
      <4> QED
        BY <1>8, <3>0, <4>1, ZenonT(30)
    <3> QED
      BY <1>8, <3>2, <3>3, ZenonT(30)
  <2> QED
    BY <2>1, <2>2, ZenonT(30)
<1>20. SleepKind'
  <2> SUFFICES ASSUME NEW q \in Proc
               PROVE  /\ state'[q] = "SLEEPING" => alertable[q]
                      /\ state'[q] = "DEEPSLEEPING" => ~alertable[q]
                      /\ Asleep(q)' => pc'[q] = "wait_woken"
                      /\ /\ pc'[q] = "wait_woken"
                         /\ ~alertable[q] /\ ~killed[q]
                         /\ state'[q] # "DEEPSLEEPING"
                         => up'[q]
    BY <1>4 DEF SleepKind
  <2>1. q \in Thread
    BY ZenonT(30) DEF Thread
  <2>s. \/ state'[q] = state[q]
        \/ up[q] /\ state'[q] = "RUNNABLE"
    BY <1>5, <2>1, ZenonT(30)
  <2>k. /\ state[q] = "SLEEPING" => alertable[q]
        /\ state[q] = "DEEPSLEEPING" => ~alertable[q]
        /\ Asleep(q) => pc[q] = "wait_woken"
        /\ /\ pc[q] = "wait_woken"
           /\ ~alertable[q] /\ ~killed[q]
           /\ state[q] # "DEEPSLEEPING"
           => up[q]
    BY ZenonT(30) DEF SleepKind
  <2>2. CASE q = t
    <3>1. pc[q] # "wait_woken" /\ pc'[q] # "wait_woken"
      BY <1>7, <1>8, <2>2, ZenonT(30) DEF PostPC
    <3> QED
      BY <2>s, <2>k, <3>1, ZenonT(30) DEF Asleep
  <2>3. CASE q # t
    <3>1. pc'[q] = pc[q] /\ (up[q] => up'[q])
      BY <1>8, <2>1, <2>3, ZenonT(30)
    <3> QED
      BY <2>s, <2>k, <3>1, ZenonT(30) DEF Asleep
  <2> QED
    BY <2>2, <2>3, ZenonT(30)
<1>21. NoLostKill'
  <2> SUFFICES ASSUME NEW q \in Proc, killed[q], state'[q] = "SLEEPING"
               PROVE  \E u \in Proc : pc'[u] = "kill_alert" /\ target'[u] = q
    BY <1>4, ZenonT(30) DEF NoLostKill
  <2>1. PICK u \in Proc : pc[u] = "kill_alert" /\ target[u] = q
    BY <1>5, ZenonT(30) DEF NoLostKill, Thread
  <2> QED
    BY <1>7, <1>8, <2>1, ZenonT(30) DEF PostPC, Thread
<1>22. OnlyKilledPanics'
  BY <1>4, <1>7, <1>8, ZenonT(30) DEF OnlyKilledPanics, PostPC, Thread
<1> QED
  BY <1>5, <1>10, <1>11, <1>12, <1>13, <1>14, <1>15, <1>16, <1>17, <1>18,
     <1>19, <1>20, <1>21, <1>22 DEF QueueInv

\* post_sem and post_all_sem choose the oldest waiter.
LEMMA PostGrantInv ==
    ASSUME SemInv, NEW t \in Thread, NEW s \in Sem, NEW next \in PostPC,
           PostGrant(t, s, next)
    PROVE  SemInv'
BY GrantInv, ZenonT(30) DEF PostGrant, GrantStep, Enters

\* A post ends: the waiter is activated and the semaphore's lock released.
LEMMA FinishInv ==
    ASSUME SemInv, NEW t \in Thread, pc[t] \in PostPC,
           ActivateProc(target[t], FALSE), Finish(t),
           UNCHANGED <<killed, thisproc, rqlock, panic_flag, alertable>>
    PROVE  SemInv'
<1> USE DEF SemInv
<1> DEFINE s == wsem[t]
           p == target[t]
<1>1. /\ QueueInv'
      /\ p \in Proc /\ up[p] /\ p # t
      /\ \A q \in Thread \ {p} : state'[q] = state[q]
      /\ state'[p] \in {state[p], "RUNNABLE"}
      /\ state'[p] \notin {"SLEEPING", "DEEPSLEEPING"}
      /\ pc[p] = "wait_woken"
  BY PosterActivates, ZenonT(30)
<1>2. /\ semlock' = [semlock EXCEPT ![s] = Free]
      /\ wsem' = [wsem EXCEPT ![t] = AnySem]
      /\ target' = [target EXCEPT ![t] = t]
      /\ pc' = [pc EXCEPT ![t] = "run"]
      /\ val' = val /\ sleeplist' = sleeplist /\ up' = up
      /\ killed' = killed /\ thisproc' = thisproc /\ rqlock' = rqlock
      /\ panic_flag' = panic_flag /\ alertable' = alertable
  BY DEF Finish
<1>3. s \in Sem /\ semlock[s] = t /\ t # Free /\ AnySem \in Sem
  BY SchedAssumption, SemAssumption
  DEF TypeOK, SemLockHolder, LockPC, AnySem, Thread
<1>4. s = wsem[t] /\ p = target[t]
  OBVIOUS
<1> HIDE DEF s, p
<1>5. /\ pc'[t] = "run" /\ target'[t] = t
      /\ \A u \in Thread \ {t} :
            pc'[u] = pc[u] /\ wsem'[u] = wsem[u] /\ target'[u] = target[u]
      /\ semlock'[s] = Free /\ \A r \in Sem \ {s} : semlock'[r] = semlock[r]
  BY <1>2, <1>3 DEF TypeOK
<1>6. TypeOK'
  BY <1>1, <1>2, <1>3, ZenonT(30) DEF TypeOK, QueueInv, PC
<1>7. ValCountsSleepers'
  BY <1>2, ZenonT(30) DEF ValCountsSleepers
<1>8. SemLockHolder'
  <2> SUFFICES ASSUME NEW u \in Thread, NEW r \in Sem
               PROVE  semlock'[r] = u <=> pc'[u] \in LockPC /\ wsem'[u] = r
    BY ZenonT(30) DEF SemLockHolder
  <2>1. semlock[r] = u <=> pc[u] \in LockPC /\ wsem[u] = r
    BY ZenonT(30) DEF SemLockHolder
  <2>2. u # Free
    BY SchedAssumption, ZenonT(30) DEF Thread
  <2>3. CASE u = t
    BY <1>3, <1>4, <1>5, <2>1, <2>2, <2>3, ZenonT(30) DEF LockPC, PostPC
  <2>4. CASE u # t
    BY <1>3, <1>5, <2>1, <2>2, <2>4, ZenonT(30)
  <2> QED
    BY <2>3, <2>4, ZenonT(30)
<1>9. RqLockHolder'
  <2> SUFFICES ASSUME NEW u \in Thread
               PROVE  pc'[u] = "wait_sched" <=> pc[u] = "wait_sched"
    BY <1>2, ZenonT(30) DEF RqLockHolder, TypeOK
  <2> QED
    BY <1>5, ZenonT(30) DEF PostPC
<1>10. HoldersRun'
  <2> SUFFICES ASSUME NEW u \in Thread,
                      pc'[u] \in LockPC \cup {"wait_sched", "kill_alert", "panic"}
               PROVE  OnCPU(u)'
    BY ZenonT(30) DEF HoldersRun
  <2>1. u # t
    BY <1>5, ZenonT(30) DEF LockPC, PostPC
  <2>2. OnCPU(u)
    BY <1>5, <2>1, ZenonT(30) DEF HoldersRun
  <2>3. thisproc' = thisproc
    BY <1>2, ZenonT(30)
  <2> QED
    BY <2>2, <2>3, ZenonT(30) DEF OnCPU, Runs
<1>11. IdleInv'
  BY <1>1, <1>2, <1>5, ZenonT(30) DEF IdleInv, QueueInv, WaitPC, Thread
<1>12. ListedIffWaiting'
  <2> SUFFICES ASSUME NEW q \in Proc, NEW r \in Sem
               PROVE  InList(sleeplist[r], q)
                        <=> pc'[q] \in WaitPC /\ wsem'[q] = r /\ ~up[q]
    BY <1>2, ZenonT(30) DEF ListedIffWaiting
  <2>1. InList(sleeplist[r], q) <=> pc[q] \in WaitPC /\ wsem[q] = r /\ ~up[q]
    BY DEF ListedIffWaiting
  <2> QED
    BY <1>5, <2>1, ZenonT(30) DEF WaitPC, PostPC, Thread
<1>13. ChosenWaits'
  BY <1>2, <1>5, ZenonT(30) DEF ChosenWaits, PostPC, Thread
<1>14. TargetOK'
  <2> SUFFICES ASSUME NEW u \in Thread
               PROVE  /\ pc'[u] \in PostPC =>
                           /\ target'[u] \in Proc /\ up[target'[u]]
                           /\ wsem'[target'[u]] = wsem'[u]
                      /\ pc'[u] = "kill_alert" => target'[u] \in Proc
    BY <1>2, ZenonT(30) DEF TargetOK
  <2>1. CASE u = t
    BY <1>5, <2>1, ZenonT(30) DEF PostPC
  <2>2. CASE u # t
    <3>1. pc[u] \in PostPC => target[u] # t
      BY ZenonT(30) DEF TargetOK, ChosenWaits, PostPC
    <3>2. /\ pc'[u] = pc[u] /\ target'[u] = target[u] /\ wsem'[u] = wsem[u]
          /\ pc[u] = "kill_alert" => target[u] \in Proc
      BY <1>5, <2>2, ZenonT(30) DEF TargetOK
    <3> SUFFICES ASSUME pc[u] \in PostPC
                 PROVE  /\ target[u] \in Proc /\ up[target[u]]
                        /\ wsem'[target[u]] = wsem[u]
      BY <3>2, ZenonT(30)
    <3>3. /\ target[u] \in Proc /\ up[target[u]] /\ wsem[target[u]] = wsem[u]
          /\ target[u] # t
      BY <3>1, ZenonT(30) DEF TargetOK
    <3> QED
      BY <1>5, <3>3, ZenonT(30) DEF Thread
  <2> QED
    BY <2>1, <2>2, ZenonT(30)
<1>15. ChosenHasPoster'
  <2> SUFFICES ASSUME NEW q \in Proc, up[q], pc'[q] = "wait_sched" \/ Asleep(q)'
               PROVE  \E u \in Thread : pc'[u] \in PostPC /\ target'[u] = q
    BY <1>2, ZenonT(30) DEF ChosenHasPoster
  <2>1. q \in Thread
    BY ZenonT(30) DEF Thread
  <2>2. q # t
    BY ZenonT(30) DEF ChosenWaits, PostPC
  <2>3. q # p
    BY <1>1, <1>5, <2>1, <2>2, ZenonT(30) DEF Asleep
  <2>4. pc[q] = "wait_sched" \/ Asleep(q)
    BY <1>1, <1>5, <2>1, <2>2, <2>3, ZenonT(30) DEF Asleep
  <2>5. PICK u \in Thread : pc[u] \in PostPC /\ target[u] = q
    BY <2>4, ZenonT(30) DEF ChosenHasPoster
  <2> QED
    BY <1>4, <1>5, <2>3, <2>5, ZenonT(30)
<1>16. SleepKind'
  <2> SUFFICES ASSUME NEW q \in Proc
               PROVE  /\ state'[q] = "SLEEPING" => alertable[q]
                      /\ state'[q] = "DEEPSLEEPING" => ~alertable[q]
                      /\ Asleep(q)' => pc'[q] = "wait_woken"
                      /\ /\ pc'[q] = "wait_woken"
                         /\ ~alertable[q] /\ ~killed[q]
                         /\ state'[q] # "DEEPSLEEPING"
                         => up[q]
    BY <1>2, ZenonT(30) DEF SleepKind
  <2>1. q \in Thread
    BY ZenonT(30) DEF Thread
  <2>k. /\ state[q] = "SLEEPING" => alertable[q]
        /\ state[q] = "DEEPSLEEPING" => ~alertable[q]
        /\ Asleep(q) => pc[q] = "wait_woken"
        /\ /\ pc[q] = "wait_woken"
           /\ ~alertable[q] /\ ~killed[q]
           /\ state[q] # "DEEPSLEEPING"
           => up[q]
    BY ZenonT(30) DEF SleepKind
  <2>2. CASE q = p
    BY <1>1, <1>5, <2>1, <2>2, ZenonT(30) DEF Asleep
  <2>3. CASE q = t
    <3>1. state'[q] = state[q] /\ pc'[q] = "run" /\ pc[q] # "wait_woken"
      BY <1>1, <1>5, <2>1, <2>3, ZenonT(30) DEF PostPC
    <3> QED
      BY <2>k, <3>1, ZenonT(30) DEF Asleep
  <2>4. CASE q # p /\ q # t
    <3>1. state'[q] = state[q] /\ pc'[q] = pc[q]
      BY <1>1, <1>5, <2>1, <2>4, ZenonT(30)
    <3> QED
      BY <2>k, <3>1, ZenonT(30) DEF Asleep
  <2> QED
    BY <2>2, <2>3, <2>4, ZenonT(30)
<1>17. NoLostKill'
  <2> SUFFICES ASSUME NEW q \in Proc, killed[q], state'[q] = "SLEEPING"
               PROVE  \E u \in Proc : pc'[u] = "kill_alert" /\ target'[u] = q
    BY <1>2, ZenonT(30) DEF NoLostKill
  <2>1. state[q] = "SLEEPING"
    BY <1>1, ZenonT(30) DEF Thread
  <2>2. PICK u \in Proc : pc[u] = "kill_alert" /\ target[u] = q
    BY <2>1, ZenonT(30) DEF NoLostKill
  <2> QED
    BY <1>5, <2>2, ZenonT(30) DEF PostPC, Thread
<1>18. OnlyKilledPanics'
  BY <1>2, <1>5 DEF OnlyKilledPanics, PostPC, Thread
<1> QED
  BY <1>1, <1>6, <1>7, <1>8, <1>9, <1>10, <1>11, <1>12, <1>13, <1>14, <1>15,
     <1>16, <1>17, <1>18 DEF QueueInv

\* post_sem activates the waiter it chose.
LEMMA PostActivateInv ==
    ASSUME SemInv, NEW t \in Thread, PostActivate(t)
    PROVE  SemInv'
BY FinishInv, ZenonT(30) DEF PostActivate, PostPC

\* post_all_sem activates the waiter it chose, and chooses the next one.
LEMMA PostAllActivateInv ==
    ASSUME SemInv, NEW t \in Thread, PostAllActivate(t)
    PROVE  SemInv'
<1> DEFINE s == wsem[t]
<1>1. pc[t] = "all_act" /\ ActivateProc(target[t], FALSE) /\ s \in Sem
  BY ZenonT(30) DEF PostAllActivate, SemInv, TypeOK
<1>2. CASE val[s] + 1 > 0 /\ Finish(t)
  BY <1>1, <1>2, FinishInv, ZenonT(30) DEF PostAllActivate, PostPC
<1>3. CASE val[s] + 1 <= 0 /\ Grant(t, s) /\ UNCHANGED <<semlock, wsem, pc>>
  <2>1. semlock[s] = t
    BY <1>1 DEF SemInv, SemLockHolder, LockPC, PostPC
  <2>2. /\ semlock' = [semlock EXCEPT ![s] = t]
        /\ wsem' = [wsem EXCEPT ![t] = s]
        /\ pc' = [pc EXCEPT ![t] = "all_act"]
    BY <1>1, <1>3, <2>1 DEF SemInv, TypeOK
  <2>3. "all_act" \in PostPC
    BY DEF PostPC
  <2> QED
    BY <1>1, <1>3, <2>2, <2>3, GrantInv, ZenonT(30)
       DEF GrantStep, PostAllActivate
<1> QED
  BY <1>2, <1>3 DEF PostAllActivate
=============================================================================
