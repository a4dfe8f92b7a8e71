------------------------ MODULE SemaphoreWaitProofs -------------------------
(***************************************************************************)
(* TLAPS proofs about Semaphore, first part: the sleeplist operations, for *)
(* lists over any set of waiters; _activate_proc and simple_sched, the two *)
(* operations every scheduling action is made of; the steps of _wait_sem   *)
(* up to a granted wait, which preserve SemInv.  One lemma per action; in  *)
(* it, one step per conjunct that the action can disturb.                  *)
(***************************************************************************)
EXTENDS Semaphore, TLAPS, FiniteSetTheorems

\* A leaf that names no prover is tried by Z3 twice, by Zenon, and by Z3 again.
USE SMTT(10), Z3T(10), ZenonT(30), SMTT(30)

(***************************************************************************)
(* The sleeplist operations: what they do to the length, to the members    *)
(* and to distinctness of a list.                                          *)
(***************************************************************************)

\* _insert_into_list of a WaitData that is not in the list.
LEMMA AppendLemma ==
    ASSUME NEW S, NEW L \in Seq(S), NEW p \in S, Distinct(L), ~InList(L, p)
    PROVE  /\ Append(L, p) \in Seq(S)
           /\ Len(Append(L, p)) = Len(L) + 1
           /\ Distinct(Append(L, p))
           /\ \A q : InList(Append(L, p), q) <=> InList(L, q) \/ q = p
BY DEF Distinct, InList

\* _post_sem takes the oldest WaitData.
LEMMA TailLemma ==
    ASSUME NEW S, NEW L \in Seq(S), Len(L) > 0, Distinct(L)
    PROVE  /\ Tail(L) \in Seq(S)
           /\ Len(Tail(L)) = Len(L) - 1
           /\ Distinct(Tail(L))
           /\ Head(L) \in S /\ InList(L, Head(L))
           /\ \A q : InList(Tail(L), q) <=> InList(L, q) /\ q # Head(L)
<1>1. Tail(L) \in Seq(S) /\ Len(Tail(L)) = Len(L) - 1 /\ Head(L) = L[1]
  OBVIOUS
<1>2. \A i \in 1..Len(Tail(L)) : Tail(L)[i] = L[i + 1]
  OBVIOUS
<1>3. Distinct(Tail(L))
  BY <1>1, <1>2 DEF Distinct
<1>4. Head(L) \in S /\ InList(L, Head(L))
  BY <1>1 DEF InList
<1>5. ASSUME NEW q, InList(Tail(L), q) PROVE InList(L, q) /\ q # Head(L)
  BY <1>1, <1>2, <1>5 DEF InList, Distinct
<1>6. ASSUME NEW q, InList(L, q), q # Head(L) PROVE InList(Tail(L), q)
  <2>1. PICK i \in 1..Len(L) : L[i] = q
    BY <1>6 DEF InList
  <2>2. i - 1 \in 1..Len(Tail(L)) /\ Tail(L)[i - 1] = q
    BY <1>1, <1>2, <1>6, <2>1
  <2> QED
    BY <2>2 DEF InList
<1> QED
  BY <1>1, <1>3, <1>4, <1>5, <1>6

\* An interrupted wait detaches its own WaitData, wherever it is.
LEMMA DetachLemma ==
    ASSUME NEW S, NEW L \in Seq(S), NEW p \in S, Distinct(L), InList(L, p)
    PROVE  /\ Detach(L, p) \in Seq(S)
           /\ Len(Detach(L, p)) = Len(L) - 1
           /\ Distinct(Detach(L, p))
           /\ \A q : InList(Detach(L, p), q) <=> InList(L, q) /\ q # p
<1> DEFINE k == Position(L, p)
           D == Detach(L, p)
<1>1. k \in 1..Len(L) /\ L[k] = p
  BY DEF InList, Position
<1>2. D = [i \in 1..Len(L) - 1 |-> IF i < k THEN L[i] ELSE L[i + 1]]
  BY DEF Detach
<1>3. Len(L) - 1 \in Nat /\ \A i \in 1..Len(L) - 1 : i + 1 \in 1..Len(L)
  BY <1>1
<1> HIDE DEF k, D
<1>4. D \in Seq(S) /\ Len(D) = Len(L) - 1
  BY <1>2, <1>3
<1>5. \A i \in 1..Len(D) : D[i] = IF i < k THEN L[i] ELSE L[i + 1]
  BY <1>2, <1>4, ZenonT(30)
<1>6. Distinct(D)
  BY <1>1, <1>4, <1>5 DEF Distinct
<1>7. ASSUME NEW q, InList(D, q) PROVE InList(L, q) /\ q # p
  <2>1. PICK i \in 1..Len(D) : D[i] = q
    BY <1>7 DEF InList
  <2>2. CASE i < k
    BY <1>1, <1>4, <1>5, <2>1, <2>2 DEF InList, Distinct
  <2>3. CASE ~(i < k)
    BY <1>1, <1>4, <1>5, <2>1, <2>3 DEF InList, Distinct
  <2> QED
    BY <2>2, <2>3
<1>8. ASSUME NEW q, InList(L, q), q # p PROVE InList(D, q)
  <2>1. PICK i \in 1..Len(L) : L[i] = q
    BY <1>8 DEF InList
  <2>2. CASE i < k
    <3>1. i \in 1..Len(D) /\ D[i] = q
      BY <1>1, <1>4, <1>5, <2>1, <2>2
    <3> QED
      BY <3>1 DEF InList
  <2>3. CASE i > k
    <3>1. i - 1 \in 1..Len(D) /\ D[i - 1] = q
      BY <1>1, <1>4, <1>5, <2>1, <2>3
    <3> QED
      BY <3>1 DEF InList
  <2> QED
    BY <1>1, <1>8, <2>1, <2>2, <2>3
<1> QED
  BY <1>4, <1>6, <1>7, <1>8 DEF D

(***************************************************************************)
(* The two operations of the scheduler, used by the actions below.         *)
(***************************************************************************)

\* _activate_proc queues a process that was neither queued nor running, and
\* otherwise changes nothing.
LEMMA ActivateLemma ==
    ASSUME QueueInv, NEW p \in Proc, NEW onalert \in BOOLEAN,
           ActivateProc(p, onalert), thisproc' = thisproc
    PROVE  /\ QueueInv'
           /\ \/ Wakes(p, onalert) /\ state' = [state EXCEPT ![p] = "RUNNABLE"]
              \/ ~Wakes(p, onalert) /\ state' = state
<1>1. CASE Wakes(p, onalert)
  <2>1. /\ state' = [state EXCEPT ![p] = "RUNNABLE"]
        /\ rq' = rq \cup {p}
        /\ node_cnt' = node_cnt + 1
    BY <1>1 DEF ActivateProc
  <2>2. state[p] \in {"SLEEPING", "UNUSED", "DEEPSLEEPING"}
    BY <1>1 DEF Wakes
  <2>3. p \notin rq
    BY <2>2 DEF QueueInv, QueueExact
  <2>4. IsFiniteSet(rq') /\ Cardinality(rq') = Cardinality(rq) + 1
    BY <2>1, <2>3, FS_AddElement DEF QueueInv
  <2>5. QueueExact'
    BY <2>1, <2>2, <2>4 DEF QueueInv, QueueExact, Thread
  <2>6. RunningIsCurrent'
    BY <2>1, <2>2 DEF QueueInv, RunningIsCurrent, OnCPU, Runs, Thread
  <2>7. \A c \in CPU : state'[c] = state[c]
    BY <2>1, SchedAssumption DEF QueueInv, Thread
  <2> QED
    BY <1>1, <2>1, <2>4, <2>5, <2>6, <2>7 DEF QueueInv, Thread, ProcState
<1>2. CASE ~Wakes(p, onalert)
  <2>1. state' = state /\ rq' = rq /\ node_cnt' = node_cnt
    BY <1>2 DEF ActivateProc, queueVars
  <2> QED
    BY <1>2, <2>1
    DEF QueueInv, RunningIsCurrent, QueueExact, OnCPU, Runs
<1> QED
  BY <1>1, <1>2

\* simple_sched on CPU c: only the process of c and the one picked change
\* state, and no other CPU is touched.
LEMMA SwitchLemma ==
    ASSUME QueueInv, NEW c \in CPU,
           NEW new_state \in {"RUNNABLE", "SLEEPING", "DEEPSLEEPING", "ZOMBIE"},
           thisproc[c] \in Proc \/ new_state = "RUNNABLE",
           SimpleSched(c, new_state)
    PROVE  /\ QueueInv'
           /\ rqlock' = Free
           /\ killed[thisproc[c]] /\ new_state # "ZOMBIE" =>
                 state' = state /\ thisproc' = thisproc
           /\ ~killed[thisproc[c]] /\ new_state # "RUNNABLE" =>
                 state'[thisproc[c]] = new_state
           /\ \A t \in Thread \ {thisproc[c]} :
                 /\ state'[t] = state[t] \/ (state[t] = "RUNNABLE" /\ state'[t] = "RUNNING")
                 /\ OnCPU(t) => OnCPU(t)'
           /\ state'[thisproc[c]] \in {"RUNNING", new_state}
           /\ \A d \in CPU : thisproc'[d] = thisproc[d] \/ (d = c /\ ~OnCPU(thisproc'[d])) 
<1> DEFINE this == thisproc[c]
           queued == rq \cup Requeued(this, new_state)
           cnt == node_cnt + Cardinality(Requeued(this, new_state))
<1>1. CASE killed[this] /\ new_state # "ZOMBIE"
  <2>1. state' = state /\ rq' = rq /\ node_cnt' = node_cnt
        /\ thisproc' = thisproc /\ rqlock' = Free
    BY <1>1 DEF SimpleSched, queueVars
  <2>2. QueueInv'
    BY <2>1 DEF QueueInv, RunningIsCurrent, QueueExact, OnCPU, Runs
  <2>3. state[this] = "RUNNING"
    BY DEF QueueInv, RunningIsCurrent, OnCPU, Runs
  <2>4. \A t : OnCPU(t) => OnCPU(t)'
    BY <2>1 DEF OnCPU, Runs
  <2> QED
    BY <1>1, <2>1, <2>2, <2>3, <2>4
<1>2. CASE ~(killed[this] /\ new_state # "ZOMBIE")
  <2>1. PICK next \in PickNext(c, queued) :
          /\ state' = [state EXCEPT ![this] = new_state, ![next] = "RUNNING"]
          /\ thisproc' = [thisproc EXCEPT ![c] = next]
          /\ rq' = queued \ {next}
          /\ node_cnt' = IF next \in Proc THEN cnt - 1 ELSE cnt
    BY <1>2 DEF SimpleSched
  <2>2. rqlock' = Free
    BY DEF SimpleSched
  <2>3. this \in Proc \cup {c} /\ this \in Thread /\ state[this] = "RUNNING"
    BY DEF QueueInv, RunningIsCurrent, OnCPU, Runs, Thread
  <2>4. this \notin rq
    BY <2>3 DEF QueueInv, QueueExact
  <2>5. queued \subseteq Proc /\ IsFiniteSet(queued) /\ cnt = Cardinality(queued)
        /\ cnt \in Nat
    <3>1. CASE this \in Proc /\ new_state = "RUNNABLE"
      <4>1. Requeued(this, new_state) = {this}
        BY <3>1 DEF Requeued
      <4>2. Cardinality({this}) = 1
        BY FS_Singleton, ZenonT(30)
      <4>3. IsFiniteSet(queued) /\ Cardinality(queued) = Cardinality(rq) + 1
        BY <2>4, <4>1, FS_AddElement DEF QueueInv
      <4>4. node_cnt = Cardinality(rq) /\ Cardinality(rq) \in Nat
        BY FS_CardinalityType DEF QueueInv, QueueExact
      <4>5. cnt = node_cnt + 1
        BY <4>1, <4>2
      <4>6. queued \subseteq Proc
        BY <3>1, <4>1 DEF QueueInv
      <4> HIDE DEF cnt, queued
      <4> QED
        BY <4>3, <4>4, <4>5, <4>6
    <3>2. CASE ~(this \in Proc /\ new_state = "RUNNABLE")
      <4>1. Requeued(this, new_state) = {} /\ queued = rq
        BY <3>2 DEF Requeued
      <4>2. Cardinality({}) = 0
        BY FS_EmptySet
      <4> QED
        BY <4>1, <4>2, FS_CardinalityType DEF QueueInv, QueueExact
    <3> QED
      BY <3>1, <3>2
  <2>6. \/ next = c /\ next \notin queued /\ next \notin Proc
        \/ next \in queued /\ next \in Proc
    BY <2>5, SchedAssumption DEF PickNext
  <2>7. next \in Thread /\ (next = this \/ ~OnCPU(next))
    <3>1. CASE next \in queued
      BY <2>5, <2>6, <3>1
      DEF Requeued, QueueInv, QueueExact, RunningIsCurrent, Thread
    <3>2. CASE next = c /\ next \notin Proc
      BY <2>3, <3>2, SchedAssumption DEF QueueInv, OnCPU, Runs, Thread
    <3> QED
      BY <2>6, <3>1, <3>2
  <2> HIDE DEF this, queued, cnt
  <2>8. IsFiniteSet(rq') /\ node_cnt' = Cardinality(rq') /\ node_cnt' \in Int
    <3>1. CASE next \in queued
      <4>1. IsFiniteSet(rq') /\ Cardinality(rq') = Cardinality(queued) - 1
        BY <2>1, <2>5, <3>1, FS_RemoveElement
      <4>2. node_cnt' = cnt - 1
        BY <2>1, <2>5, <2>6, <3>1
      <4> QED
        BY <2>5, <4>1, <4>2
    <3>2. CASE next \notin queued
      <4>1. rq' = queued
        BY <2>1, <3>2
      <4> QED
        BY <2>1, <2>5, <2>6, <3>2, <4>1
    <3> QED
      BY <3>1, <3>2
  <2>9. queued = rq \cup (IF this \in Proc /\ new_state = "RUNNABLE" THEN {this} ELSE {})
    BY DEF Requeued, queued
  <2>10. state' \in [Thread -> ProcState] /\ thisproc' \in [CPU -> Thread]
    BY <2>1, <2>3, <2>7 DEF QueueInv, ProcState
  <2>11. /\ state'[next] = "RUNNING"
         /\ next # this => state'[this] = new_state
         /\ \A t \in Thread : t # next /\ t # this => state'[t] = state[t]
    BY <2>1, <2>3, <2>7 DEF QueueInv
  <2>12. rq' = {p \in Proc : state'[p] = "RUNNABLE"}
    <3>1. rq = {p \in Proc : state[p] = "RUNNABLE"}
      BY DEF QueueInv, QueueExact
    <3>2. ASSUME NEW p \in Proc
          PROVE  p \in rq' <=> state'[p] = "RUNNABLE"
      <4>1. p \in Thread
        BY DEF Thread
      <4> QED
        BY <2>1, <2>3, <2>9, <2>11, <3>1, <4>1, <2>6, ZenonT(30)
    <3>3. rq' \subseteq Proc
      BY <2>1, <2>5
    <3> QED
      BY <3>2, <3>3
  <2>13. thisproc'[c] = next /\ \A d \in CPU \ {c} : thisproc'[d] = thisproc[d]
    BY <2>1 DEF QueueInv
  <2>14. \A d \in CPU \ {c} : thisproc[d] # this /\ thisproc[d] # next
    BY <2>7 DEF QueueInv, RunningIsCurrent, OnCPU, Runs, this
  <2>15. RunningIsCurrent'
    <3>1. ASSUME NEW t \in Thread
          PROVE  state'[t] = "RUNNING" <=> \E d \in CPU : thisproc'[d] = t
      <4>1. state[t] = "RUNNING" <=> \E d \in CPU : thisproc[d] = t
        BY DEF QueueInv, RunningIsCurrent, OnCPU, Runs
      <4>2. CASE t = next
        BY <4>2, <2>11, <2>13
      <4>3. CASE t = this /\ t # next
        BY <4>3, <2>11, <2>13, <2>14
      <4>4. CASE t # this /\ t # next
        BY <4>1, <4>4, <2>11, <2>13 DEF this
      <4> QED
        BY <4>2, <4>3, <4>4
    <3>2. \A d, e \in CPU : thisproc'[d] = thisproc'[e] => d = e
      BY <2>13, <2>14 DEF QueueInv, RunningIsCurrent
    <3> QED
      BY <3>1, <3>2 DEF RunningIsCurrent, OnCPU, Runs
  <2>16. \A d \in CPU : /\ thisproc'[d] \in Proc \cup {d}
                       /\ state'[d] \in {"RUNNABLE", "RUNNING"}
    <3> TAKE d \in CPU
    <3>1. thisproc'[d] \in Proc \cup {d}
      BY <2>6, <2>13 DEF QueueInv
    <3>2. d \in Thread /\ d \notin Proc /\ state[d] \in {"RUNNABLE", "RUNNING"}
      BY SchedAssumption DEF QueueInv, Thread
    <3>3. d = this => new_state = "RUNNABLE"
      BY <3>2 DEF this
    <3> QED
      BY <2>11, <3>1, <3>2, <3>3
  <2>17. QueueInv'
    BY <2>5, <2>1, <2>8, <2>10, <2>12, <2>15, <2>16, ZenonT(30)
       DEF QueueInv, QueueExact
  <2>18. \A t \in Thread \ {this} : OnCPU(t) => OnCPU(t)'
    BY <2>13 DEF OnCPU, Runs, this
  <2>18a. \A t \in Thread \ {this} :
            state'[t] = state[t] \/ (state[t] = "RUNNABLE" /\ state'[t] = "RUNNING")
    <3> TAKE t \in Thread \ {this}
    <3>1. CASE t = next /\ next \in Proc
      <4>1. next \in rq
        BY <2>6, <2>9, <3>1
      <4> QED
        BY <2>11, <3>1, <4>1 DEF QueueInv, QueueExact
    <3>2. CASE t = next /\ next \notin Proc
      <4>1. next = c /\ state[c] \in {"RUNNABLE", "RUNNING"}
        BY <2>6, <3>2 DEF QueueInv
      <4> QED
        BY <2>11, <3>2, <4>1
    <3>3. CASE t # next
      BY <2>11, <3>3
    <3> QED
      BY <3>1, <3>2, <3>3
  <2>19. new_state # "RUNNABLE" => next # this
    BY <2>3, <2>4, <2>6, <2>9, SchedAssumption DEF this
  <2>20. state'[this] \in {"RUNNING", new_state}
    BY <2>11
  <2>21. \A d \in CPU : thisproc'[d] = thisproc[d] \/ (d = c /\ ~OnCPU(thisproc'[d]))
    BY <2>7, <2>13 DEF this
  <2> QED
    BY <1>2, <2>2, <2>11, <2>17, <2>18, <2>18a, <2>19, <2>20, <2>21 DEF this
<1> QED
  BY <1>1, <1>2

-----------------------------------------------------------------------------
(***************************************************************************)
(* The actions that enter a semaphore operation, and waiting.              *)
(***************************************************************************)

\* What the scheduler lemmas ask for is part of the invariant of the semaphores.
LEMMA SemInvQueueInv == SemInv => QueueInv
BY DEF SemInv, QueueInv, TypeOK, IdleInv

\* The conjuncts of SemInv over the scheduler's variables hold again when these
\* variables are left alone.
LEMMA QueueUnchanged ==
    ASSUME SemInv, UNCHANGED <<queueVars, thisproc>>
    PROVE  QueueInv'
BY SemInvQueueInv
   DEF QueueInv, RunningIsCurrent, QueueExact, OnCPU, Runs, queueVars

\* A thread outside the semaphore operations, about to enter one, holds no
\* semaphore's lock, is in no list and was chosen by no post.
LEMMA EntersFacts ==
    ASSUME SemInv, NEW t \in Thread, NEW s \in Sem, Enters(t, s)
    PROVE  /\ pc[t] = "run" /\ OnCPU(t) /\ semlock[s] = Free
           /\ state[t] = "RUNNING"
           /\ t \in Proc => ~up[t] /\ \A r \in Sem : ~InList(sleeplist[r], t)
           /\ \A u \in Thread : pc[u] \in LockPC => wsem[u] # s
<1>1. pc[t] = "run" /\ OnCPU(t) /\ semlock[s] = Free
  BY DEF Enters
<1>2. state[t] = "RUNNING"
  BY <1>1 DEF SemInv, RunningIsCurrent
<1>3. t \in Proc => ~up[t] /\ \A r \in Sem : ~InList(sleeplist[r], t)
  BY <1>1 DEF SemInv, ListedIffWaiting, ChosenWaits, WaitPC
<1>4. \A u \in Thread : pc[u] \in LockPC => wsem[u] # s
  BY <1>1, SchedAssumption DEF SemInv, SemLockHolder, Thread
<1> QED
  BY <1>1, <1>2, <1>3, <1>4

-----------------------------------------------------------------------------
(***************************************************************************)
(* Steps that only count units: a wait that finds one, a post that finds   *)
(* no waiter, get_all_sem.                                                 *)
(***************************************************************************)
LEMMA UnitsInv ==
    ASSUME SemInv, NEW s \in Sem, NEW n \in Nat, val[s] >= 0,
           val' = [val EXCEPT ![s] = n],
           UNCHANGED <<schedVars, semlock, sleeplist, up, wsem, alertable>>
    PROVE  SemInv'
<1> USE DEF SemInv, schedVars
<1>1. TypeOK'
  BY DEF TypeOK
<1>2. QueueInv'
  BY QueueUnchanged DEF queueVars
<1>3. ValCountsSleepers'
  <2> SUFFICES ASSUME NEW r \in Sem
               PROVE  /\ Len(sleeplist[r])
                           = (IF val'[r] < 0 THEN -val'[r] ELSE 0)
                      /\ Distinct(sleeplist[r])
    BY DEF ValCountsSleepers
  <2>1. val'[r] = (IF r = s THEN n ELSE val[r]) /\ val[r] \in Int
    BY DEF TypeOK
  <2>2. /\ Len(sleeplist[r]) = (IF val[r] < 0 THEN -val[r] ELSE 0)
        /\ Distinct(sleeplist[r])
    BY DEF ValCountsSleepers
  <2>3. CASE r = s
    BY <2>1, <2>2, <2>3
  <2>4. CASE r # s
    BY <2>1, <2>2, <2>4
  <2> QED
    BY <2>3, <2>4
<1>4. SemLockHolder' /\ RqLockHolder' /\ HoldersRun'
  BY DEF SemLockHolder, RqLockHolder, HoldersRun, OnCPU, Runs
<1>5. IdleInv' /\ ListedIffWaiting' /\ ChosenWaits' /\ TargetOK'
  BY DEF IdleInv, ListedIffWaiting, ChosenWaits, TargetOK
<1>6. ChosenHasPoster' /\ SleepKind' /\ NoLostKill' /\ OnlyKilledPanics'
  BY DEF ChosenHasPoster, SleepKind, NoLostKill, OnlyKilledPanics, Asleep
<1> QED
  BY <1>1, <1>2, <1>3, <1>4, <1>5, <1>6 DEF QueueInv

\* _wait_sem takes a unit that is there.
LEMMA WaitFastInv ==
    ASSUME SemInv, NEW p \in Proc, NEW s \in Sem, WaitFast(p, s)
    PROVE  SemInv'
<1>1. val[s] \in Int
  BY DEF SemInv, TypeOK
<1>2. val[s] - 1 \in Nat /\ val[s] >= 0 /\ val' = [val EXCEPT ![s] = val[s] - 1]
  BY <1>1 DEF WaitFast
<1> QED
  BY <1>2, UnitsInv, ZenonT(30) DEF WaitFast

\* post_sem without a waiter leaves a unit.
LEMMA PostFreeInv ==
    ASSUME SemInv, NEW t \in Thread, NEW s \in Sem, PostFree(t, s)
    PROVE  SemInv'
<1>1. val[s] \in Int
  BY DEF SemInv, TypeOK
<1>2. val[s] + 1 \in Nat /\ val[s] >= 0 /\ val' = [val EXCEPT ![s] = val[s] + 1]
  BY <1>1 DEF PostFree
<1> QED
  BY <1>2, UnitsInv, ZenonT(30) DEF PostFree

\* get_all_sem takes all units.
LEMMA GetAllInv ==
    ASSUME SemInv, NEW t \in Thread, NEW s \in Sem, GetAll(t, s)
    PROVE  SemInv'
<1>1. val[s] >= 0 /\ val' = [val EXCEPT ![s] = 0]
  BY DEF GetAll, SemInv, TypeOK
<1> QED
  BY <1>1, UnitsInv, ZenonT(30) DEF GetAll

-----------------------------------------------------------------------------
(***************************************************************************)
(* _wait_sem.                                                              *)
(***************************************************************************)
LEMMA WaitEnqueueInv ==
    ASSUME SemInv, NEW p \in Proc, NEW s \in Sem, NEW a \in BOOLEAN,
           WaitEnqueue(p, s, a)
    PROVE  SemInv'
<1> USE DEF SemInv
<1>1. p \in Thread /\ p \notin CPU /\ p # Free
  BY SchedAssumption DEF Thread
<1>2. Enters(p, s) /\ val[s] <= 0
  BY DEF WaitEnqueue, TypeOK
<1>3. /\ pc[p] = "run" /\ OnCPU(p) /\ semlock[s] = Free /\ state[p] = "RUNNING"
      /\ ~up[p] /\ \A r \in Sem : ~InList(sleeplist[r], p)
      /\ \A u \in Thread : pc[u] \in LockPC => wsem[u] # s
  BY <1>1, <1>2, EntersFacts
<1>4. /\ val' = [val EXCEPT ![s] = val[s] - 1]
      /\ sleeplist' = [sleeplist EXCEPT ![s] = Append(sleeplist[s], p)]
      /\ up' = [up EXCEPT ![p] = FALSE]
      /\ semlock' = [semlock EXCEPT ![s] = p]
      /\ wsem' = [wsem EXCEPT ![p] = s]
      /\ alertable' = [alertable EXCEPT ![p] = a]
      /\ pc' = [pc EXCEPT ![p] = "wait_lock"]
      /\ state' = state /\ killed' = killed /\ thisproc' = thisproc
      /\ rqlock' = rqlock /\ panic_flag' = panic_flag /\ target' = target
  BY DEF WaitEnqueue, queueVars
<1>u. /\ state' = state /\ killed' = killed /\ thisproc' = thisproc
      /\ rqlock' = rqlock /\ target' = target /\ panic_flag' = panic_flag
  BY <1>4
<1>5. /\ pc'[p] = "wait_lock" /\ wsem'[p] = s /\ ~up'[p] /\ alertable'[p] = a
      /\ \A u \in Thread \ {p} : pc'[u] = pc[u] /\ wsem'[u] = wsem[u]
      /\ \A q \in Proc \ {p} : up'[q] = up[q] /\ alertable'[q] = alertable[q]
      /\ \A r \in Sem \ {s} : semlock'[r] = semlock[r]
      /\ semlock'[s] = p
  BY <1>1, <1>4 DEF TypeOK, Thread
<1>6. /\ sleeplist'[s] \in Seq(Proc)
      /\ Len(sleeplist'[s]) = Len(sleeplist[s]) + 1
      /\ Distinct(sleeplist'[s])
      /\ \A q : InList(sleeplist'[s], q) <=> InList(sleeplist[s], q) \/ q = p
      /\ \A r \in Sem \ {s} : sleeplist'[r] = sleeplist[r]
  <2>1. sleeplist[s] \in Seq(Proc) /\ Distinct(sleeplist[s])
    BY DEF TypeOK, ValCountsSleepers
  <2>2. sleeplist'[s] = Append(sleeplist[s], p)
    BY <1>4 DEF TypeOK
  <2>3. \A r \in Sem \ {s} : sleeplist'[r] = sleeplist[r]
    BY <1>4 DEF TypeOK
  <2>4. ~InList(sleeplist[s], p)
    BY <1>3
  <2> HIDE DEF SemInv
  <2> QED
    BY <2>1, <2>2, <2>3, <2>4, AppendLemma
<1>7. QueueInv'
  BY QueueUnchanged DEF WaitEnqueue
<1>8. TypeOK'
  <2>1. sleeplist' \in [Sem -> Seq(Proc)]
    BY <1>4, <1>6 DEF TypeOK
  <2>2. val' \in [Sem -> Int] /\ semlock' \in [Sem -> Thread \cup {Free}]
    BY <1>1, <1>4 DEF TypeOK
  <2>3. up' \in [Proc -> BOOLEAN] /\ alertable' \in [Proc -> BOOLEAN]
    BY <1>4 DEF TypeOK
  <2>4. wsem' \in [Thread -> Sem] /\ pc' \in [Thread -> PC]
    BY <1>1, <1>4 DEF TypeOK, PC, WaitPC
  <2>5. /\ killed' \in [Thread -> BOOLEAN] /\ rqlock' \in CPU \cup {Free}
        /\ panic_flag' \in BOOLEAN /\ target' \in [Thread -> Thread]
    BY <1>u DEF TypeOK
  <2>6. /\ state' \in [Thread -> ProcState] /\ rq' \in SUBSET Proc
        /\ node_cnt' \in Int /\ thisproc' \in [CPU -> Thread]
    BY <1>7 DEF QueueInv
  <2> QED
    BY <2>1, <2>2, <2>3, <2>4, <2>5, <2>6, Zenon DEF TypeOK
<1>9. ValCountsSleepers'
  <2> SUFFICES ASSUME NEW r \in Sem
               PROVE  /\ Len(sleeplist'[r])
                           = (IF val'[r] < 0 THEN -val'[r] ELSE 0)
                      /\ Distinct(sleeplist'[r])
    BY DEF ValCountsSleepers
  <2>1. CASE r = s
    <3>1. val'[s] = val[s] - 1 /\ val[s] \in Int
      BY <1>4 DEF TypeOK
    <3>2. Len(sleeplist[s]) = -val[s]
      BY <1>2, <3>1 DEF ValCountsSleepers
    <3> QED
      BY <1>2, <1>6, <2>1, <3>1, <3>2
  <2>2. CASE r # s
    <3>1. val'[r] = val[r]
      BY <1>4, <2>2, ZenonT(30) DEF TypeOK
    <3> QED
      BY <1>6, <2>2, <3>1, ZenonT(30) DEF ValCountsSleepers
  <2> QED
    BY <2>1, <2>2
<1>10. SemLockHolder'
  <2> SUFFICES ASSUME NEW u \in Thread, NEW r \in Sem
               PROVE  semlock'[r] = u <=> pc'[u] \in LockPC /\ wsem'[u] = r
    BY DEF SemLockHolder
  <2>1. semlock[r] = u <=> pc[u] \in LockPC /\ wsem[u] = r
    BY DEF SemLockHolder
  <2>2. CASE u = p
    BY <1>3, <1>5, <2>1, <2>2, ZenonT(30) DEF LockPC, PostPC
  <2>3. CASE u # p
    BY <1>3, <1>5, <2>1, <2>3
  <2> QED
    BY <2>2, <2>3
<1>11. RqLockHolder' /\ HoldersRun'
  <2>1. \A u \in Thread : pc'[u] = "wait_sched" <=> pc[u] = "wait_sched"
    BY <1>3, <1>5
  <2>2. thisproc \in [CPU -> Thread]
    BY DEF TypeOK
  <2>3. RqLockHolder'
    BY <1>u, <2>1, <2>2 DEF RqLockHolder
  <2>4. HoldersRun'
    <3> SUFFICES ASSUME NEW u \in Thread,
                        pc'[u] \in LockPC \cup {"wait_sched", "kill_alert", "panic"}
                 PROVE  OnCPU(u)
      BY <1>u DEF HoldersRun, OnCPU, Runs
    <3>1. CASE u = p
      BY <1>3, <3>1
    <3>2. CASE u # p
      BY <1>5, <3>2, ZenonT(30) DEF HoldersRun
    <3> QED
      BY <3>1, <3>2
  <2> QED
    BY <2>3, <2>4
<1>12. IdleInv'
  BY <1>1, <1>4, <1>5, ZenonT(30) DEF IdleInv, Thread
<1>13. ListedIffWaiting'
  <2> SUFFICES ASSUME NEW q \in Proc, NEW r \in Sem
               PROVE  InList(sleeplist'[r], q)
                        <=> pc'[q] \in WaitPC /\ wsem'[q] = r /\ ~up'[q]
    BY DEF ListedIffWaiting
  <2>1. InList(sleeplist[r], q) <=> pc[q] \in WaitPC /\ wsem[q] = r /\ ~up[q]
    BY DEF ListedIffWaiting
  <2>2. q \in Thread
    BY DEF Thread
  <2>3. CASE q = p
    BY <1>3, <1>5, <1>6, <2>3, ZenonT(30) DEF WaitPC
  <2>4. CASE q # p
    BY <1>5, <1>6, <2>1, <2>2, <2>4, ZenonT(30)
  <2> QED
    BY <2>3, <2>4
<1>14. ChosenWaits'
  BY <1>5 DEF ChosenWaits, Thread
<1>15. TargetOK'
  <2> SUFFICES ASSUME NEW u \in Thread
               PROVE  /\ pc'[u] \in PostPC =>
                           /\ target[u] \in Proc /\ up'[target[u]]
                           /\ wsem'[target[u]] = wsem'[u]
                      /\ pc'[u] = "kill_alert" => target[u] \in Proc
    BY <1>4 DEF TargetOK
  <2>1. u = p => pc'[u] \notin PostPC \cup {"kill_alert"}
    BY <1>5 DEF PostPC
  <2>2. u # p /\ pc[u] \in PostPC => target[u] \in Proc \ {p}
    BY <1>3, ZenonT(30) DEF TargetOK
  <2> QED
    BY <1>1, <1>5, <2>1, <2>2, ZenonT(30) DEF TargetOK, Thread
<1>16. ChosenHasPoster'
  <2> SUFFICES ASSUME NEW q \in Proc, up'[q], pc'[q] = "wait_sched" \/ Asleep(q)
               PROVE  \E u \in Thread : pc'[u] \in PostPC /\ target[u] = q
    BY <1>u, ZenonT(30) DEF ChosenHasPoster, Asleep
  <2>1. q # p
    BY <1>3, <1>5
  <2>2. up[q] /\ (pc[q] = "wait_sched" \/ Asleep(q))
    BY <1>5, <2>1 DEF Thread
  <2>3. PICK u \in Thread : pc[u] \in PostPC /\ target[u] = q
    BY <2>2, ZenonT(30) DEF ChosenHasPoster
  <2>4. u # p
    BY <1>3, <2>3, ZenonT(30) DEF PostPC
  <2> QED
    BY <1>5, <2>3, <2>4, ZenonT(30)
<1>17. SleepKind'
  <2> SUFFICES ASSUME NEW q \in Proc
               PROVE  /\ state[q] = "SLEEPING" => alertable'[q]
                      /\ state[q] = "DEEPSLEEPING" => ~alertable'[q]
                      /\ Asleep(q) => pc'[q] = "wait_woken"
                      /\ /\ pc'[q] = "wait_woken"
                         /\ ~alertable'[q] /\ ~killed[q]
                         /\ state[q] # "DEEPSLEEPING"
                         => up'[q]
    BY <1>u, ZenonT(30) DEF SleepKind, Asleep
  <2>1. CASE q = p
    BY <1>3, <1>5, <2>1, ZenonT(30) DEF Asleep
  <2>2. CASE q # p
    <3>1. pc'[q] = pc[q] /\ alertable'[q] = alertable[q] /\ up'[q] = up[q]
      BY <1>5, <2>2, ZenonT(30) DEF Thread
    <3> QED
      BY <3>1 DEF SleepKind
  <2> QED
    BY <2>1, <2>2, ZenonT(30)
<1>K. NoLostKill'
  <2> SUFFICES ASSUME NEW q \in Proc, killed[q], state[q] = "SLEEPING"
               PROVE  \E u \in Proc : pc'[u] = "kill_alert" /\ target[u] = q
    BY <1>u DEF NoLostKill
  <2>1. PICK u \in Proc : pc[u] = "kill_alert" /\ target[u] = q
    BY ZenonT(30) DEF NoLostKill
  <2> QED
    BY <1>3, <1>5, <2>1, ZenonT(30) DEF Thread
<1>P. OnlyKilledPanics'
  <2> SUFFICES ASSUME panic_flag
               PROVE  \E q \in Proc : pc'[q] = "panic" /\ killed[q]
    BY <1>u DEF OnlyKilledPanics
  <2>1. PICK q \in Proc : pc[q] = "panic" /\ killed[q]
    BY DEF OnlyKilledPanics
  <2> QED
    BY <1>3, <1>5, <2>1, ZenonT(30) DEF Thread
<1> QED
  BY <1>7, <1>8, <1>9, <1>10, <1>11, <1>12, <1>13, <1>14, <1>15, <1>16,
     <1>17, <1>K, <1>P DEF QueueInv

\* lock_for_sched, and the release of the semaphore's lock under rqlock.
LEMMA WaitLockSchedInv ==
    ASSUME SemInv, NEW c \in CPU, WaitLockSched(c)
    PROVE  SemInv'
<1> USE DEF SemInv
<1> DEFINE p == thisproc[c]
           s == wsem[p]
<1>1. p \in Thread /\ pc[p] = "wait_lock" /\ rqlock = Free
  BY ZenonT(30) DEF WaitLockSched, TypeOK
<1>2. p \in Proc /\ p \notin CPU /\ s \in Sem /\ semlock[s] = p /\ p # Free
  <2>1. p \in Proc
    BY <1>1 DEF IdleInv, WaitPC
  <2> QED
    <3>1. wsem \in [Thread -> Sem] /\ SemLockHolder
      BY DEF TypeOK
    <3> HIDE DEF SemInv
    <3> QED
      BY <1>1, <2>1, <3>1, SchedAssumption DEF SemLockHolder, LockPC
<1>3. /\ rqlock' = c
      /\ semlock' = [semlock EXCEPT ![s] = Free]
      /\ pc' = [pc EXCEPT ![p] = "wait_sched"]
      /\ state' = state /\ killed' = killed /\ thisproc' = thisproc
      /\ panic_flag' = panic_flag /\ target' = target /\ val' = val
      /\ sleeplist' = sleeplist /\ up' = up /\ wsem' = wsem
      /\ alertable' = alertable
  BY DEF WaitLockSched, queueVars
<1>4. QueueInv'
  BY QueueUnchanged DEF WaitLockSched
<1>u. /\ state' = state /\ killed' = killed /\ thisproc' = thisproc
      /\ target' = target /\ panic_flag' = panic_flag
      /\ alertable' = alertable /\ up' = up
  BY <1>3
<1> HIDE DEF p, s
<1>5. /\ pc'[p] = "wait_sched"
      /\ \A u \in Thread \ {p} : pc'[u] = pc[u]
      /\ semlock'[s] = Free
      /\ \A r \in Sem \ {s} : semlock'[r] = semlock[r]
  BY <1>1, <1>2, <1>3, ZenonT(30) DEF TypeOK
<1>6. TypeOK'
  BY <1>1, <1>2, <1>3, <1>4, ZenonT(30) DEF TypeOK, QueueInv, PC, WaitPC
<1>7. ValCountsSleepers'
  BY <1>3, ZenonT(30) DEF ValCountsSleepers
<1>8. SemLockHolder'
  <2> SUFFICES ASSUME NEW u \in Thread, NEW r \in Sem
               PROVE  semlock'[r] = u <=> pc'[u] \in LockPC /\ wsem[u] = r
    BY <1>3 DEF SemLockHolder
  <2>1. semlock[r] = u <=> pc[u] \in LockPC /\ wsem[u] = r
    BY DEF SemLockHolder
  <2>2. u # Free
    BY SchedAssumption DEF Thread
  <2>3. CASE u = p
    BY <1>2, <1>5, <2>1, <2>2, <2>3, ZenonT(30) DEF LockPC, PostPC, s
  <2>4. CASE u # p
    BY <1>2, <1>5, <2>1, <2>2, <2>4, ZenonT(30)
  <2> QED
    BY <2>3, <2>4
<1>9. RqLockHolder'
  <2> SUFFICES ASSUME NEW d \in CPU
               PROVE  c = d <=> pc'[thisproc[d]] = "wait_sched"
    BY <1>3 DEF RqLockHolder
  <2>1. thisproc[d] \in Thread /\ pc[thisproc[d]] # "wait_sched"
    BY <1>1, SchedAssumption DEF RqLockHolder, TypeOK
  <2>2. d = c <=> thisproc[d] = p
    BY DEF RunningIsCurrent, p
  <2> QED
    BY <1>5, <2>1, <2>2
<1>10. HoldersRun'
  <2>1. OnCPU(p)
    BY DEF OnCPU, Runs, p
  <2> QED
    BY <1>3, <1>5, <2>1 DEF HoldersRun, OnCPU, Runs
<1>11. IdleInv'
  BY <1>2, <1>3, <1>5, ZenonT(30) DEF IdleInv, Thread
<1>12. ListedIffWaiting' /\ ChosenWaits'
  BY <1>1, <1>3, <1>5 DEF ListedIffWaiting, ChosenWaits, WaitPC, Thread
<1>13. TargetOK'
  BY <1>3, <1>5, ZenonT(30) DEF TargetOK, PostPC
<1>14. ChosenHasPoster'
  <2>1. ~up[p]
    BY <1>1, <1>2 DEF ChosenWaits
  <2> SUFFICES ASSUME NEW q \in Proc, up[q], pc'[q] = "wait_sched" \/ Asleep(q)
               PROVE  \E t \in Thread : pc'[t] \in PostPC /\ target[t] = q
    <3>1. up' = up /\ target' = target /\ (\A q : Asleep(q)' <=> Asleep(q))
      BY <1>u DEF Asleep
    <3> HIDE DEF SemInv
    <3> QED
      BY <3>1, ZenonT(30) DEF ChosenHasPoster
  <2>2. q # p /\ q \in Thread
    BY <2>1, ZenonT(30) DEF Thread
  <2>3. pc[q] = "wait_sched" \/ Asleep(q)
    BY <1>5, <2>2, ZenonT(30)
  <2>4. PICK t \in Thread : pc[t] \in PostPC /\ target[t] = q
    BY <2>3 DEF ChosenHasPoster
  <2>5. t # p
    BY <1>1, <2>4, ZenonT(30) DEF PostPC
  <2> QED
    BY <1>5, <2>4, <2>5, ZenonT(30)
<1>15. SleepKind'
  <2> SUFFICES ASSUME NEW q \in Proc
               PROVE  /\ state[q] = "SLEEPING" => alertable[q]
                      /\ state[q] = "DEEPSLEEPING" => ~alertable[q]
                      /\ Asleep(q) => pc'[q] = "wait_woken"
                      /\ /\ pc'[q] = "wait_woken"
                         /\ ~alertable[q] /\ ~killed[q]
                         /\ state[q] # "DEEPSLEEPING"
                         => up[q]
    BY <1>u, ZenonT(30) DEF SleepKind, Asleep
  <2>0. Asleep(p) => pc[p] = "wait_woken"
    BY <1>2, ZenonT(30) DEF SleepKind
  <2>1. CASE q = p
    BY <1>1, <1>2, <1>5, <2>0, <2>1, ZenonT(30) DEF Asleep
  <2>2. CASE q # p
    <3>1. pc'[q] = pc[q] /\ alertable[q] = alertable[q] /\ up[q] = up[q]
      BY <1>5, <2>2, ZenonT(30) DEF Thread
    <3> QED
      BY <3>1, ZenonT(30) DEF SleepKind
  <2> QED
    BY <2>1, <2>2, ZenonT(30)
<1>K. NoLostKill'
  <2> SUFFICES ASSUME NEW q \in Proc, killed[q], state[q] = "SLEEPING"
               PROVE  \E u \in Proc : pc'[u] = "kill_alert" /\ target[u] = q
    BY <1>u DEF NoLostKill
  <2>1. PICK u \in Proc : pc[u] = "kill_alert" /\ target[u] = q
    BY ZenonT(30) DEF NoLostKill
  <2> QED
    BY <1>1, <1>5, <2>1, ZenonT(30) DEF Thread
<1>P. OnlyKilledPanics'
  <2> SUFFICES ASSUME panic_flag
               PROVE  \E q \in Proc : pc'[q] = "panic" /\ killed[q]
    BY <1>u DEF OnlyKilledPanics
  <2>1. PICK q \in Proc : pc[q] = "panic" /\ killed[q]
    BY ZenonT(30) DEF OnlyKilledPanics
  <2> QED
    BY <1>1, <1>5, <2>1, ZenonT(30) DEF Thread
<1> QED
  BY <1>4, <1>6, <1>7, <1>8, <1>9, <1>10, <1>11, <1>12, <1>13, <1>14, <1>15,
     <1>K, <1>P DEF QueueInv

\* A wait that was chosen by a post returns; its poster is through with it.
LEMMA WaitGrantedInv ==
    ASSUME SemInv, NEW p \in Proc, WaitGranted(p)
    PROVE  SemInv'
<1> USE DEF SemInv
<1>1. /\ p \in Thread /\ p \notin CPU /\ p # Free
      /\ pc[p] = "wait_woken" /\ up[p] /\ OnCPU(p) /\ state[p] = "RUNNING"
      /\ wsem[p] \in Sem /\ semlock[wsem[p]] = Free
  BY SchedAssumption, ZenonT(30)
     DEF WaitGranted, Thread, TypeOK, RunningIsCurrent
<1>2. /\ up' = [up EXCEPT ![p] = FALSE]
      /\ pc' = [pc EXCEPT ![p] = "run"]
      /\ wsem' = [wsem EXCEPT ![p] = AnySem]
      /\ alertable' = [alertable EXCEPT ![p] = TRUE]
      /\ state' = state /\ killed' = killed /\ thisproc' = thisproc
      /\ rqlock' = rqlock /\ panic_flag' = panic_flag /\ target' = target
      /\ semlock' = semlock /\ val' = val /\ sleeplist' = sleeplist
  BY DEF WaitGranted, queueVars
<1>u. /\ state' = state /\ killed' = killed /\ thisproc' = thisproc
      /\ rqlock' = rqlock /\ target' = target /\ panic_flag' = panic_flag
      /\ semlock' = semlock /\ sleeplist' = sleeplist
  BY <1>2
<1>3. AnySem \in Sem
  BY SemAssumption, ZenonT(30) DEF AnySem
<1>4. /\ pc'[p] = "run" /\ ~up'[p]
      /\ \A u \in Thread \ {p} : pc'[u] = pc[u] /\ wsem'[u] = wsem[u]
      /\ \A q \in Proc \ {p} : up'[q] = up[q] /\ alertable'[q] = alertable[q]
  BY <1>1, <1>2, ZenonT(30) DEF TypeOK, Thread
<1>5. QueueInv'
  BY QueueUnchanged, ZenonT(30) DEF WaitGranted
<1>6. TypeOK'
  BY <1>1, <1>2, <1>3, <1>5, ZenonT(30) DEF TypeOK, QueueInv, PC
<1>7. ValCountsSleepers'
  BY <1>2, ZenonT(30) DEF ValCountsSleepers
<1>8. \A u \in Thread : pc[u] \in PostPC => target[u] # p
  \* the poster that chose p would still hold the lock of wsem[p]
  <2> SUFFICES ASSUME NEW u \in Thread, pc[u] \in PostPC, target[u] = p
               PROVE  FALSE
    OBVIOUS
  <2>1. wsem[u] = wsem[p]
    BY ZenonT(30) DEF TargetOK
  <2>2. semlock[wsem[p]] = u
    BY <1>1, <2>1, ZenonT(30) DEF SemLockHolder, LockPC
  <2> QED
    BY <1>1, <2>2, SchedAssumption, ZenonT(30) DEF Thread
<1>9. SemLockHolder'
  <2> SUFFICES ASSUME NEW u \in Thread, NEW r \in Sem
               PROVE  semlock[r] = u <=> pc'[u] \in LockPC /\ wsem'[u] = r
    BY <1>u, ZenonT(30) DEF SemLockHolder
  <2>1. semlock[r] = u <=> pc[u] \in LockPC /\ wsem[u] = r
    BY DEF SemLockHolder
  <2>2. CASE u = p
    BY <1>1, <1>4, <2>1, <2>2, ZenonT(30) DEF LockPC, PostPC
  <2>3. CASE u # p
    BY <1>4, <2>1, <2>3
  <2> QED
    BY <2>2, <2>3, ZenonT(30)
<1>10. RqLockHolder' /\ HoldersRun'
  <2>1. \A u \in Thread : pc'[u] = "wait_sched" <=> pc[u] = "wait_sched"
    BY <1>1, <1>4
  <2>2. thisproc \in [CPU -> Thread]
    BY ZenonT(30) DEF TypeOK
  <2>3. RqLockHolder'
    BY <1>u, <2>1, <2>2 DEF RqLockHolder
  <2>4. HoldersRun'
    <3> SUFFICES ASSUME NEW u \in Thread,
                        pc'[u] \in LockPC \cup {"wait_sched", "kill_alert", "panic"}
                 PROVE  OnCPU(u)
      BY <1>u, ZenonT(30) DEF HoldersRun, OnCPU, Runs
    <3>1. CASE u = p
      BY <1>1, <3>1, ZenonT(30)
    <3>2. CASE u # p
      BY <1>4, <3>2, ZenonT(30) DEF HoldersRun
    <3> QED
      BY <3>1, <3>2, ZenonT(30)
  <2> QED
    BY <2>3, <2>4, ZenonT(30)
<1>11. IdleInv'
  BY <1>1, <1>2, <1>4 DEF IdleInv, Thread
<1>12. ListedIffWaiting' /\ ChosenWaits'
  <2>1. ListedIffWaiting'
    <3> SUFFICES ASSUME NEW q \in Proc, NEW r \in Sem
                 PROVE  InList(sleeplist[r], q)
                          <=> pc'[q] \in WaitPC /\ wsem'[q] = r /\ ~up'[q]
      BY <1>u, ZenonT(30) DEF ListedIffWaiting
    <3>1. InList(sleeplist[r], q) <=> pc[q] \in WaitPC /\ wsem[q] = r /\ ~up[q]
      BY ZenonT(30) DEF ListedIffWaiting
    <3>2. CASE q = p
      BY <1>1, <1>4, <3>1, <3>2, ZenonT(30) DEF WaitPC
    <3>3. CASE q # p
      <4>1. pc'[q] = pc[q] /\ wsem'[q] = wsem[q] /\ up'[q] = up[q]
        BY <1>4, <3>3, ZenonT(30) DEF Thread
      <4> QED
        BY <3>1, <4>1, ZenonT(30)
    <3> QED
      BY <3>2, <3>3, ZenonT(30)
  <2>2. ChosenWaits'
    BY <1>4, ZenonT(30) DEF ChosenWaits, Thread
  <2> QED
    BY <2>1, <2>2, ZenonT(30)
<1>13. TargetOK'
  <2> SUFFICES ASSUME NEW u \in Thread
               PROVE  /\ pc'[u] \in PostPC =>
                           /\ target[u] \in Proc /\ up'[target[u]]
                           /\ wsem'[target[u]] = wsem'[u]
                      /\ pc'[u] = "kill_alert" => target[u] \in Proc
    BY <1>2, ZenonT(30) DEF TargetOK
  <2>1. u = p => pc'[u] \notin PostPC \cup {"kill_alert"}
    BY <1>4, ZenonT(30) DEF PostPC
  <2> QED
    BY <1>1, <1>4, <1>8, <2>1, ZenonT(30) DEF TargetOK, Thread
<1>14. ChosenHasPoster'
  <2> SUFFICES ASSUME NEW q \in Proc, up'[q], pc'[q] = "wait_sched" \/ Asleep(q)
               PROVE  \E u \in Thread : pc'[u] \in PostPC /\ target[u] = q
    BY <1>u, ZenonT(30) DEF ChosenHasPoster, Asleep
  <2>1. q # p
    BY <1>1, <1>4, ZenonT(30)
  <2>2. up[q] /\ (pc[q] = "wait_sched" \/ Asleep(q))
    BY <1>4, <2>1, ZenonT(30) DEF Thread
  <2>3. PICK u \in Thread : pc[u] \in PostPC /\ target[u] = q
    BY <2>2, ZenonT(30) DEF ChosenHasPoster
  <2>4. u # p
    BY <1>1, <2>3, ZenonT(30) DEF PostPC
  <2> QED
    BY <1>4, <2>3, <2>4, ZenonT(30)
<1>15. SleepKind'
  <2> SUFFICES ASSUME NEW q \in Proc
               PROVE  /\ state[q] = "SLEEPING" => alertable'[q]
                      /\ state[q] = "DEEPSLEEPING" => ~alertable'[q]
                      /\ Asleep(q) => pc'[q] = "wait_woken"
                      /\ /\ pc'[q] = "wait_woken"
                         /\ ~alertable'[q] /\ ~killed[q]
                         /\ state[q] # "DEEPSLEEPING"
                         => up'[q]
    BY <1>u, ZenonT(30) DEF SleepKind, Asleep
  <2>1. CASE q = p
    BY <1>1, <1>4, <2>1, ZenonT(30) DEF Asleep
  <2>2. CASE q # p
    <3>1. pc'[q] = pc[q] /\ alertable'[q] = alertable[q] /\ up'[q] = up[q]
      BY <1>4, <2>2, ZenonT(30) DEF Thread
    <3> QED
      BY <3>1, ZenonT(30) DEF SleepKind
  <2> QED
    BY <2>1, <2>2, ZenonT(30)
<1>K. NoLostKill'
  <2> SUFFICES ASSUME NEW q \in Proc, killed[q], state[q] = "SLEEPING"
               PROVE  \E u \in Proc : pc'[u] = "kill_alert" /\ target[u] = q
    BY <1>u DEF NoLostKill
  <2>1. PICK u \in Proc : pc[u] = "kill_alert" /\ target[u] = q
    BY ZenonT(30) DEF NoLostKill
  <2> QED
    BY <1>1, <1>4, <2>1, ZenonT(30) DEF Thread
<1>P. OnlyKilledPanics'
  <2> SUFFICES ASSUME panic_flag
               PROVE  \E q \in Proc : pc'[q] = "panic" /\ killed[q]
    BY <1>u DEF OnlyKilledPanics
  <2>1. PICK q \in Proc : pc[q] = "panic" /\ killed[q]
    BY ZenonT(30) DEF OnlyKilledPanics
  <2> QED
    BY <1>1, <1>4, <2>1, ZenonT(30) DEF Thread
<1> QED
  BY <1>5, <1>6, <1>7, <1>9, <1>10, <1>11, <1>12, <1>13, <1>14, <1>15, <1>K,
     <1>P DEF QueueInv
=============================================================================
