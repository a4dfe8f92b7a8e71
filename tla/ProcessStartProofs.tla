------------------------- MODULE ProcessStartProofs -------------------------
(***************************************************************************)
(* TLAPS proofs about Process, second part: making a process or a          *)
(* container, putting a process into it and starting it keep the invariant.*)
(***************************************************************************)
EXTENDS ProcessLemmas

\* A leaf that names no prover is tried by Z3 twice, by Zenon, and by Z3 again.
USE SMTT(10), Z3T(10), ZenonT(30), SMTT(30)

\* create_proc, and create_container up to set_parent_to_this.
Makes(t, s, c, l) ==
    /\ At(t, "run") /\ InitProc(s, c)
    /\ pc' = [pc EXCEPT ![t] = l, ![s] = "unstarted"]
    /\ target' = [target EXCEPT ![t] = s]
    /\ panic' = panic
    /\ \/ /\ l = "created" /\ pids' = pids /\ rootproc' = rootproc
          /\ c = RootContainer
       \/ /\ l = "cont_parent" /\ rootproc[c] = None
          /\ pids' = [pids EXCEPT ![c] = FullPool]
          /\ rootproc' = [rootproc EXCEPT ![c] = s]

\* A process that was just made is in no list and shares no pid with another.
LEMMA MakeInv ==
    ASSUME CountingLaws, ProcInv, NEW t \in Slot, NEW s \in Slot,
           NEW c \in Container, NEW l,
           Makes(t, s, c, l)
    PROVE  ProcInv'
<1>0. /\ TypeOK /\ RootInv /\ ControlInv /\ ContainerInv /\ MakingInv /\ ParentInv
      /\ LoopInv /\ TreeConsistent /\ PidPool /\ LocalPidsDistinct
      /\ ChildexitExact /\ WaitFindsZombie
      /\ RootContainer \in Container /\ RootProc \in Slot
      /\ None \notin Slot /\ allocated \subseteq Slot
  BY ProcessAssumption DEF ProcInv, TypeOK
<1>1. s \notin allocated /\ global_pids # <<>> /\ allocated' = allocated \cup {s}
  BY DEF Makes, InitProc
<1>2. /\ s \notin Live /\ s \notin Making /\ s # RootProc
      /\ \A u \in allocated : s \notin Elems(children[u]) /\ parent[u] # s
      /\ \A d \in Container : rootproc[d] # s
      /\ \A u \in Making : target[u] # s
  BY <1>1, UnusedNowhere
<1>3. t \in Live /\ t \in allocated /\ t # s /\ pc[t] = "run" /\ t \notin Making
  BY <1>0, <1>1, AtHolds DEF Makes, Live, Making
<1>4. /\ state'[s] = "UNUSED" /\ parent'[s] = None /\ children'[s] = <<>>
      /\ childexit'[s] = 0 /\ container'[s] = c /\ pid'[s] = Head(global_pids)
      /\ global_pids' = Tail(global_pids)
      /\ \A u \in Slot \ {s} :
            /\ state'[u] = state[u] /\ parent'[u] = parent[u]
            /\ children'[u] = children[u] /\ childexit'[u] = childexit[u]
            /\ container'[u] = container[u] /\ pid'[u] = pid[u]
            /\ localpid'[u] = localpid[u]
  BY <1>0 DEF Makes, InitProc, TypeOK, FirstPid, TakePid
<1>5. /\ pc'[t] = l /\ pc'[s] = "unstarted" /\ target'[t] = s
      /\ \A u \in Slot \ {s, t} : pc'[u] = pc[u]
      /\ \A u \in Slot \ {t} : target'[u] = target[u]
  BY <1>0, <1>3 DEF Makes, TypeOK
<1>6. l \in {"created", "cont_parent"}
  BY DEF Makes
<1>7. \A d \in Container :
         \/ rootproc'[d] = rootproc[d]
         \/ d = c /\ rootproc[d] = None /\ rootproc'[d] = s /\ l = "cont_parent"
  BY <1>0 DEF Makes, TypeOK
<1>c. l = "created" => c = RootContainer
  BY DEF Makes
<1>r. l = "cont_parent" => rootproc[c] = None /\ rootproc'[c] = s
  BY <1>0 DEF Makes, TypeOK
<1>p. \A d \in Container :
         pids'[d] = pids[d] \/ (d = c /\ pids'[d] = FullPool /\ rootproc[c] = None)
  BY <1>0 DEF Makes, TypeOK
<1>8. Live' = Live \cup {s}
  BY <1>0, <1>1, <1>4, ZenonT(30) DEF Live
<1>9. Making' = Making \cup {t}
  BY <1>2, <1>3, <1>5, <1>6 DEF Making
<1>10. \A u \in Making : u \in allocated /\ u # s /\ u # t
  BY <1>0, <1>2, <1>3 DEF ControlInv, Making, Live
<1>11. TypeOK'
  <2>1. /\ state' \in [Slot -> {"UNUSED", "ACTIVE", "ZOMBIE"}]
        /\ killed' \in [Slot -> BOOLEAN]
    BY <1>0, ZenonT(30) DEF Makes, TypeOK, InitProc
  <2>2. pid' \in [Slot -> Pid] /\ global_pids' \in Seq(Pid)
    BY <1>0, <1>1, <1>4, TakenPid DEF Makes, TypeOK, InitProc, FirstPid
  <2>3. localpid' \in [Slot -> Pid]
    <3>1. 0 \in Pid
      BY ProcessAssumption DEF Pid
    <3> QED
      BY <1>0, <3>1 DEF Makes, TypeOK, InitProc
  <2>4. /\ parent' \in [Slot -> Slot \cup {None}]
        /\ container' \in [Slot -> Container]
    BY <1>0 DEF Makes, TypeOK, InitProc
  <2>5. children' \in [Slot -> Seq(Slot)]
    <3>1. <<>> \in Seq(Slot)
      OBVIOUS
    <3> QED
      BY <1>0, <3>1 DEF Makes, TypeOK, InitProc
  <2>6. childexit' \in [Slot -> Nat]
    BY <1>0 DEF Makes, TypeOK, InitProc
  <2>7. pids' \in [Container -> Seq(Pid)]
    BY <1>0, FullPoolList, ZenonT(30) DEF Makes, TypeOK
  <2>8. rootproc' \in [Container -> Slot \cup {None}]
    BY <1>0, ZenonT(30) DEF Makes, TypeOK
  <2>9. pc' \in [Slot -> PC] /\ target' \in [Slot -> Slot \cup {None}]
    BY <1>0, <1>6, ZenonT(30) DEF Makes, TypeOK, PC
  <2>10. allocated' \subseteq Slot
    BY <1>0, <1>1
  <2>11. panic' \in {"no", "unstarted", "exit", "wait"}
    BY <1>0 DEF Makes, TypeOK
  <2> QED
    BY <2>1, <2>2, <2>3, <2>4, <2>5, <2>6, <2>7, <2>8, <2>9, <2>10, <2>11
       DEF TypeOK
<1>12. RootInv'
  <2>1. pc'[RootProc] # "unstarted"
    BY <1>0, <1>2, <1>5, <1>6 DEF RootInv
  <2>2. rootproc'[RootContainer] = RootProc
    BY <1>0, <1>7 DEF RootInv
  <2> QED
    BY <1>0, <1>2, <1>4, <1>8, <2>1, <2>2 DEF RootInv
<1>13. ControlInv'
  <2>1. \A u \in Slot : pc'[u] \notin {"unstarted", "run"} => u \in Live'
    BY <1>0, <1>3, <1>5, <1>8 DEF ControlInv
  <2>2. \A u \in allocated' : state'[u] = "ZOMBIE" => pc'[u] = "run"
    <3>1. ASSUME NEW u \in allocated, state[u] = "ZOMBIE"
          PROVE  u # t /\ u # s /\ u \in Slot /\ pc[u] = "run"
      BY <1>0, <1>1, <1>3, <3>1, ZenonT(30) DEF Live, ControlInv, IsZombie
    <3> QED
      BY <1>0, <1>1, <1>4, <1>5, <3>1, ZenonT(30)
  <2>3. \A u \in Slot : pc'[u] = "kill_alert" => target'[u] \in Slot
    BY <1>0, <1>5, <1>6, ZenonT(30) DEF ControlInv
  <2> QED
    BY <2>1, <2>2, <2>3 DEF ControlInv, IsZombie
<1>14. ContainerInv'
  <2>1. \A d \in Container : rootproc'[d] # None =>
           rootproc'[d] \in Live' /\ container'[rootproc'[d]] = d
    <3> SUFFICES ASSUME NEW d \in Container, rootproc'[d] # None
                 PROVE  rootproc'[d] \in Live' /\ container'[rootproc'[d]] = d
      OBVIOUS
    <3>1. CASE rootproc'[d] = rootproc[d]
      <4>1. rootproc[d] \in Live /\ container[rootproc[d]] = d
        BY <1>0, <3>1 DEF ContainerInv
      <4>2. rootproc[d] \in Slot \ {s}
        BY <1>0, <1>2, <4>1 DEF Live
      <4> QED
        BY <1>4, <1>8, <3>1, <4>1, <4>2
    <3>2. CASE d = c /\ rootproc'[d] = s
      BY <1>4, <1>8, <3>2, ZenonT(30)
    <3> QED
      BY <1>7, <3>1, <3>2
  <2>2. ASSUME NEW u \in allocated PROVE rootproc'[container'[u]] # None
    <3>1. /\ container'[u] = container[u] /\ container[u] \in Container
          /\ rootproc[container[u]] # None
      <4>1. u \in Slot /\ u # s
        BY <1>0, <1>1
      <4>2. container'[u] = container[u]
        BY <1>4, <4>1
      <4>3. container[u] \in Container
        BY <1>0, <4>1 DEF TypeOK
      <4> QED
        BY <1>0, <4>2, <4>3 DEF ContainerInv
    <3> QED
      BY <1>0, <1>7, <3>1
  <2>3. rootproc'[container'[s]] # None
    <3>0. s # None /\ RootProc # None /\ container'[s] = c
      BY <1>0, <1>4
    <3>1. CASE l = "created"
      <4>1. rootproc'[c] = rootproc[c]
        BY <1>7, <3>1
      <4> QED
        BY <1>0, <1>c, <3>0, <3>1, <4>1 DEF RootInv
    <3>2. CASE l = "cont_parent"
      BY <1>r, <3>0, <3>2
    <3> QED
      BY <1>6, <3>1, <3>2
  <2> QED
    BY <1>1, <2>1, <2>2, <2>3 DEF ContainerInv
<1>15. MakingInv'
  <2>1. \A u \in Making :
           /\ target'[u] = target[u] /\ target[u] \in allocated
           /\ target[u] # s /\ target[u] # t /\ target[u] \in Slot
           /\ u \in Slot /\ pc'[u] = pc[u] /\ container'[u] = container[u]
           /\ pc'[target[u]] = "unstarted" /\ parent'[target[u]] = parent[target[u]]
           /\ container'[target[u]] = container[target[u]]
           /\ container[target[u]] \in Container
    <3>1. ASSUME NEW u \in Making
          PROVE  /\ target'[u] = target[u] /\ target[u] \in allocated
                 /\ target[u] # s /\ target[u] # t /\ target[u] \in Slot
                 /\ pc[target[u]] = "unstarted" /\ u \in Slot
      BY <1>0, <1>2, <1>3, <1>5, <1>10, ZenonT(30) DEF MakingInv
    <3>2. ASSUME NEW u \in Making
          PROVE  /\ pc'[u] = pc[u] /\ container'[u] = container[u]
                 /\ pc'[target[u]] = "unstarted"
      BY <1>4, <1>5, <1>10, <3>1, ZenonT(30)
    <3>3. ASSUME NEW u \in Making
          PROVE  /\ parent'[target[u]] = parent[target[u]]
                 /\ container'[target[u]] = container[target[u]]
                 /\ container[target[u]] \in Container
      <4>1. target[u] \in Slot /\ target[u] # s
        BY <3>1
      <4>2. container[target[u]] \in Container
        BY <1>0, <4>1 DEF TypeOK
      <4> QED
        BY <1>4, <4>1, <4>2, ZenonT(30)
    <3> QED
      BY <3>1, <3>2, <3>3
  <2>2. \A u \in Making' : /\ target'[u] \in allocated'
                           /\ pc'[target'[u]] = "unstarted"
                           /\ parent'[target'[u]] \in {None, u}
    <3>1. /\ target'[t] \in allocated' /\ pc'[target'[t]] = "unstarted"
          /\ parent'[target'[t]] \in {None, t}
      BY <1>1, <1>4, <1>5
    <3>2. ASSUME NEW u \in Making
          PROVE  /\ target'[u] \in allocated' /\ pc'[target'[u]] = "unstarted"
                 /\ parent'[target'[u]] \in {None, u}
      <4>1. parent[target[u]] \in {None, u}
        BY <1>0 DEF MakingInv
      <4>2. /\ target'[u] = target[u] /\ target[u] \in allocated
            /\ pc'[target[u]] = "unstarted"
            /\ parent'[target[u]] = parent[target[u]]
        BY <2>1
      <4> QED
        BY <1>1, <4>1, <4>2
    <3> QED
      BY <1>9, <3>1, <3>2
  <2>3. \A u, v \in Making' : target'[u] = target'[v] => u = v
    <3>1. \A u, v \in Making : target'[u] = target'[v] => u = v
      BY <1>0, <2>1 DEF MakingInv
    <3>2. \A u \in Making : target'[u] # target'[t]
      BY <1>5, <2>1
    <3> QED
      BY <1>9, <3>1, <3>2
  <2>4. ASSUME NEW u \in Making', pc'[u] = "created", NEW d \in Container
        PROVE  rootproc'[d] # target'[u]
    <3>1. CASE u = t
      <4>1. l = "created" /\ target'[u] = s
        BY <1>5, <2>4, <3>1
      <4> QED
        BY <1>2, <1>7, <4>1, ZenonT(30)
    <3>2. CASE u # t
      <4>1. u \in Making
        BY <1>9, <3>2
      <4>2. pc[u] = "created" /\ target'[u] = target[u] /\ target[u] # s
        BY <2>1, <2>4, <4>1
      <4>3. rootproc[d] # target[u]
        BY <1>0, <4>1, <4>2 DEF MakingInv
      <4> QED
        BY <1>7, <4>2, <4>3
    <3> QED
      BY <3>1, <3>2
  <2>5. ASSUME NEW u \in Making', pc'[u] # "created"
        PROVE  /\ rootproc'[container'[target'[u]]] = target'[u]
               /\ container'[u] # container'[target'[u]]
    <3>1. CASE u = t
      <4>1. l = "cont_parent" /\ target'[u] = s /\ container'[s] = c
        BY <1>4, <1>5, <1>6, <2>5, <3>1
      <4>2. rootproc'[c] = s /\ rootproc[c] = None
        BY <1>r, <4>1
      <4>3. container'[t] # c
        <5>1. container'[t] = container[t]
          BY <1>3, <1>4
        <5>2. rootproc[container[t]] # None
          BY <1>0, <1>3 DEF ContainerInv
        <5> QED
          BY <4>2, <5>1, <5>2
      <4> QED
        BY <3>1, <4>1, <4>2, <4>3
    <3>2. CASE u # t
      <4>1. u \in Making /\ pc[u] # "created"
        BY <1>9, <2>1, <2>5, <3>2
      <4>2. /\ rootproc[container[target[u]]] = target[u]
            /\ container[u] # container[target[u]]
        BY <1>0, <4>1 DEF MakingInv
      <4>3. rootproc'[container[target[u]]] = target[u]
        <5>1. container[target[u]] \in Container /\ target[u] \in Slot
          BY <2>1, <4>1
        <5> QED
          BY <1>0, <1>7, <4>2, <5>1
      <4> QED
        BY <2>1, <4>1, <4>2, <4>3
    <3> QED
      BY <3>1, <3>2
  <2>6. \A u \in Making' : pc'[u] = "cont_start" => parent'[target'[u]] = u
    <3>1. \A u \in Making : pc'[u] = "cont_start" => parent'[target'[u]] = u
      BY <1>0, <2>1 DEF MakingInv
    <3>2. pc'[t] # "cont_start"
      BY <1>5, <1>6
    <3> QED
      BY <1>9, <3>1, <3>2
  <2>7. \A u \in Making' : pc'[u] = "cont_parent" => parent'[target'[u]] = None
    <3>1. \A u \in Making : pc'[u] = "cont_parent" => parent'[target'[u]] = None
      BY <1>0, <2>1 DEF MakingInv
    <3>2. parent'[target'[t]] = None
      BY <1>4, <1>5
    <3> QED
      BY <1>9, <3>1, <3>2, ZenonT(30)
  <2> QED
    BY <2>2, <2>3, <2>4, <2>5, <2>6, <2>7 DEF MakingInv
<1>16. ParentInv'
  <2>1. ASSUME NEW u \in allocated
        PROVE  /\ pc'[u] # "unstarted" => parent'[u] # None
               /\ parent'[u] # None => parent'[u] \in Live'
    <3>1. u \in Slot /\ u # s /\ parent'[u] = parent[u]
      BY <1>0, <1>1, <1>4, ZenonT(30)
    <3>2. pc'[u] # "unstarted" => pc[u] # "unstarted"
      BY <1>3, <1>5, <3>1
    <3> QED
      BY <1>0, <1>8, <3>1, <3>2 DEF ParentInv
  <2> QED
    BY <1>1, <1>4, <1>5, <2>1 DEF ParentInv
<1>17. LoopInv'
  <2>1. \A u \in allocated' \ {RootProc} : parent'[u] # u
    BY <1>0, <1>1, <1>4 DEF LoopInv
  <2>2. ASSUME NEW d \in Container \ {RootContainer},
               rootproc'[d] # None, parent'[rootproc'[d]] # None
        PROVE  container'[parent'[rootproc'[d]]] # d
    <3>1. rootproc'[d] = rootproc[d] /\ rootproc[d] # s
      BY <1>2, <1>4, <1>7, <2>2
    <3>2. rootproc[d] \in Live /\ rootproc[d] \in allocated /\ rootproc[d] \in Slot
      BY <1>0, <2>2, <3>1 DEF ContainerInv, Live
    <3>3. parent'[rootproc'[d]] = parent[rootproc[d]]
      BY <1>4, <3>1, <3>2
    <3>4. parent[rootproc[d]] \in Live
      BY <1>0, <2>2, <3>2, <3>3 DEF ParentInv
    <3>5. container'[parent[rootproc[d]]] = container[parent[rootproc[d]]]
      BY <1>0, <1>2, <1>4, <3>4, ZenonT(30) DEF Live
    <3> QED
      BY <1>0, <2>2, <3>1, <3>3, <3>5 DEF LoopInv
  <2>3. ASSUME NEW u \in allocated', pc'[u] = "unstarted",
               \A d \in Container : rootproc'[d] # u
        PROVE  children'[u] = <<>>
    <3>1. CASE u = s
      BY <1>4, <3>1
    <3>2. CASE u # s
      <4>1. u \in allocated /\ u \in Slot /\ pc[u] = "unstarted"
        <5>1. u \in allocated /\ u \in Slot
          BY <1>0, <1>1, <2>3, <3>2
        <5>2. CASE u = t
          BY <1>5, <1>6, <2>3, <5>2
        <5>3. CASE u # t
          BY <1>5, <2>3, <3>2, <5>1, <5>3
        <5> QED
          BY <5>1, <5>2, <5>3
      <4>2. \A d \in Container : rootproc[d] # u
        BY <1>0, <1>7, <2>3, <4>1
      <4> QED
        BY <1>0, <1>4, <3>2, <4>1, <4>2, ZenonT(30) DEF LoopInv
    <3> QED
      BY <3>1, <3>2
  <2> QED
    BY <2>1, <2>2, <2>3, ZenonT(30) DEF LoopInv
<1>18. TreeConsistent'
  <2>0. Elems(children'[s]) = {} /\ Distinct(children'[s])
    BY <1>4 DEF Elems, Distinct
  <2>1. ASSUME NEW u \in allocated', NEW v \in Slot
        PROVE  v \in Elems(children'[u]) <=> /\ v \in allocated' /\ v # RootProc
                                             /\ parent'[v] = u
    <3>1. CASE u = s
      BY <1>0, <1>1, <1>2, <1>4, <2>0, <3>1, ZenonT(30)
    <3>2. CASE u # s
      BY <1>0, <1>1, <1>2, <1>4, <3>2 DEF TreeConsistent
    <3> QED
      BY <3>1, <3>2
  <2>2. \A u \in allocated' : Distinct(children'[u])
    BY <1>0, <1>1, <1>4, <2>0 DEF TreeConsistent
  <2>3. \A u \in allocated' : state'[u] = "ZOMBIE" => children'[u] = <<>>
    BY <1>0, <1>1, <1>4, ZenonT(30) DEF TreeConsistent, IsZombie
  <2> QED
    BY <2>1, <2>2, <2>3 DEF TreeConsistent, IsZombie
<1>19. PidPool'
  <2>1. /\ Distinct(Tail(global_pids))
        /\ Head(global_pids) \notin Elems(Tail(global_pids))
        /\ Elems(global_pids) = Elems(Tail(global_pids)) \cup {Head(global_pids)}
        /\ \A u \in Live : /\ pid[u] # Head(global_pids)
                           /\ pid[u] \notin Elems(Tail(global_pids))
    BY <1>1, TakenPid
  <2>2. \A u \in Live : pid'[u] = pid[u] /\ u # s
    BY <1>0, <1>2, <1>4 DEF Live
  <2>3. s \in Live' /\ pid'[s] = Head(global_pids)
    BY <1>0, <1>4, <1>8
  <2>4. ASSUME NEW i \in Pid \ {0}
        PROVE  i \in Elems(Tail(global_pids)) \/ \E u \in Live' : pid'[u] = i
    <3>1. i \in Elems(global_pids) \/ \E u \in Live : pid[u] = i
      BY <1>0 DEF PidPool
    <3> QED
      BY <1>8, <2>1, <2>2, <2>3, <3>1
  <2>5. /\ \A u, v \in Live' : pid'[u] = pid'[v] => u = v
        /\ \A u \in Live' : pid'[u] \notin Elems(Tail(global_pids))
    BY <1>0, <1>8, <2>1, <2>2, <2>3 DEF PidPool
  <2>6. global_pids' = Tail(global_pids)
    BY <1>4
  <2> QED
    BY <2>1, <2>4, <2>5, <2>6 DEF PidPool
<1>20. LocalPidsDistinct'
  <2>1. ASSUME NEW d \in Container PROVE LocalHolders(d)' = LocalHolders(d)
    <3>1. ASSUME NEW u \in Slot, u # s
          PROVE  /\ u \in allocated' <=> u \in allocated
                 /\ container'[u] = container[u]
                 /\ pc'[u] = "unstarted" <=> pc[u] = "unstarted"
      <4>1. (u \in allocated' <=> u \in allocated) /\ container'[u] = container[u]
        BY <1>1, <1>4, <3>1, ZenonT(30)
      <4>2. CASE u = t
        BY <1>3, <1>5, <1>6, <4>1, <4>2
      <4>3. CASE u # t
        BY <1>5, <3>1, <4>1, <4>3
      <4> QED
        BY <4>2, <4>3
    <3>2. pc'[s] = "unstarted" /\ s \notin allocated
      BY <1>1, <1>5
    <3>3. allocated \subseteq Slot /\ allocated' \subseteq Slot
      BY <1>0, <1>1
    <3> QED
      BY <3>1, <3>2, <3>3, ZenonT(30) DEF LocalHolders
  <2>2. \A d \in Container : \A u \in LocalHolders(d) : localpid'[u] = localpid[u]
    BY <1>0, <1>1, <1>4 DEF LocalHolders
  <2>3. ASSUME NEW d \in Container
        PROVE  /\ \A u \in LocalHolders(d) : localpid[u] \notin Elems(pids'[d])
               /\ Distinct(pids'[d])
    <3>1. CASE pids'[d] = pids[d]
      BY <1>0, <3>1 DEF LocalPidsDistinct
    <3>2. CASE pids'[d] # pids[d]
      <4>1. d = c /\ pids'[d] = FullPool /\ rootproc[c] = None
        BY <1>p, <3>2
      <4>2. LocalHolders(d) = {}
        BY <1>0, <4>1 DEF ContainerInv, LocalHolders
      <4> QED
        BY <4>1, <4>2, FullPoolList
    <3> QED
      BY <3>1, <3>2
  <2> QED
    BY <1>0, <2>1, <2>2, <2>3 DEF LocalPidsDistinct
<1>21. ChildexitExact'
  <2>1. ASSUME NEW u \in Live
        PROVE  childexit'[u] + (IF pc'[u] = "wait_reap" THEN 1 ELSE 0)
                 = Zombies(children[u])'
    <3>1. u \in allocated /\ u \in Slot /\ u # s
      BY <1>0, <1>2 DEF Live
    <3>2. children[u] \in Seq(Slot) /\ children'[u] = children[u]
      BY <1>0, <1>4, <3>1, ZenonT(30) DEF TypeOK
    <3>3. \A v \in Elems(children[u]) : state'[v] = state[v]
      BY <1>2, <1>4, <3>1, <3>2, ElemsIn, ZenonT(30)
    <3>4. Zombies(children[u])' = Zombies(children[u])
      BY <3>2, <3>3, ZombiesSame, ZenonT(30)
    <3>5. /\ childexit'[u] = childexit[u]
          /\ (pc'[u] = "wait_reap") <=> (pc[u] = "wait_reap")
      <4>1. childexit'[u] = childexit[u]
        BY <1>4, <3>1
      <4>2. CASE u = t
        BY <1>3, <1>5, <1>6, <4>1, <4>2
      <4>3. CASE u # t
        BY <1>5, <3>1, <4>1, <4>3, ZenonT(30)
      <4> QED
        BY <4>2, <4>3
    <3>6. childexit[u] + (IF pc[u] = "wait_reap" THEN 1 ELSE 0)
            = Zombies(children[u])
      BY <1>0 DEF ChildexitExact
    <3> QED
      BY <3>4, <3>5, <3>6
  <2>2. childexit'[s] + (IF pc'[s] = "wait_reap" THEN 1 ELSE 0)
          = Zombies(children[s])'
    <3>1. Zombies(children[s])' = 0
      BY <1>4, NoZombies
    <3>2. childexit'[s] = 0
      BY <1>4
    <3>3. pc'[s] # "wait_reap"
      BY <1>5
    <3> QED
      BY <3>1, <3>2, <3>3
  <2> QED
    BY <1>8, <2>1, <2>2 DEF ChildexitExact
<1>22. WaitFindsZombie'
  BY <1>0 DEF Makes, WaitFindsZombie
<1> QED
  BY <1>11, <1>12, <1>13, <1>14, <1>15, <1>16, <1>17, <1>18, <1>19, <1>20,
     <1>21, <1>22 DEF ProcInv

\* create_proc and create_container make a process.
LEMMA CreateInv ==
    ASSUME CountingLaws, ProcInv, NEW t \in Slot, NEW s \in Slot,
           CreateProc(t, s) \/ \E c \in Container : CreateContainer(t, s, c)
    PROVE  ProcInv'
<1>1. CASE CreateProc(t, s)
  <2>1. /\ At(t, "run") /\ InitProc(s, RootContainer) /\ RootContainer \in Container
        /\ pc' = [pc EXCEPT ![t] = "created", ![s] = "unstarted"]
        /\ target' = [target EXCEPT ![t] = s]
        /\ pids' = pids /\ rootproc' = rootproc /\ panic' = panic
    BY <1>1, ProcessAssumption DEF CreateProc
  <2>2. Makes(t, s, RootContainer, "created")
    BY <2>1 DEF Makes
  <2> QED
    BY <2>1, <2>2, MakeInv
<1>2. ASSUME NEW c \in Container, CreateContainer(t, s, c) PROVE ProcInv'
  <2>1. /\ At(t, "run") /\ InitProc(s, c) /\ rootproc[c] = None
        /\ pc' = [pc EXCEPT ![t] = "cont_parent", ![s] = "unstarted"]
        /\ target' = [target EXCEPT ![t] = s]
        /\ pids' = [pids EXCEPT ![c] = FullPool]
        /\ rootproc' = [rootproc EXCEPT ![c] = s] /\ panic' = panic
    BY <1>2 DEF CreateContainer
  <2>2. Makes(t, s, c, "cont_parent")
    BY <2>1 DEF Makes
  <2> QED
    BY <1>2, <2>2, MakeInv
<1> QED
  BY <1>1, <1>2

\* set_container_to_this.
LEMMA SetContainerInv ==
    ASSUME ProcInv, NEW t \in Slot, SetContainerToThis(t)
    PROVE  ProcInv'
<1> DEFINE s == target[t]
<1>0. /\ TypeOK /\ RootInv /\ ControlInv /\ ContainerInv /\ MakingInv /\ ParentInv
      /\ LoopInv /\ TreeConsistent /\ PidPool /\ LocalPidsDistinct
      /\ ChildexitExact /\ WaitFindsZombie
      /\ None \notin Slot /\ allocated \subseteq Slot /\ RootContainer \in Container
  BY ProcessAssumption DEF ProcInv, TypeOK
<1>1. /\ allocated' = allocated /\ state' = state /\ killed' = killed
      /\ childexit' = childexit /\ pid' = pid /\ localpid' = localpid
      /\ global_pids' = global_pids /\ pids' = pids
      /\ rootproc' = rootproc /\ target' = target /\ panic' = panic
      /\ parent' = parent /\ children' = children /\ pc' = pc
      /\ container' = [container EXCEPT ![s] = container[t]]
  BY DEF SetContainerToThis, pidVars, treeVars
<1>2. /\ t \in Live /\ t \in allocated /\ t \in Making /\ pc[t] = "created"
      /\ s \in allocated /\ s \in Slot /\ s # t
      /\ s # RootProc /\ s \in Live
      /\ pc[s] = "unstarted" /\ state[s] # "ZOMBIE" /\ s \notin Making
      /\ \A u \in Making \ {t} : target[u] # s
  BY MadeProcess, ZenonT(30) DEF SetContainerToThis
<1>3. \A c \in Container : rootproc[c] # s
  BY <1>0, <1>2 DEF MakingInv
<1> HIDE DEF s
<1>4. /\ container' \in [Slot -> Container] /\ container'[s] = container[t]
      /\ \A u \in Slot \ {s} : container'[u] = container[u]
      /\ container[t] \in Container
  BY <1>0, <1>1, <1>2 DEF TypeOK
<1>5. Live' = Live /\ Making' = Making
  BY <1>1 DEF Live, Making
<1>6. TypeOK'
  BY <1>0, <1>1, <1>4 DEF TypeOK
<1>7. RootInv' /\ ControlInv' /\ ParentInv'
  BY <1>0, <1>1, <1>5 DEF RootInv, ControlInv, ParentInv, IsZombie
<1>8. ContainerInv'
  <2>1. \A c \in Container : rootproc[c] # None =>
           rootproc[c] \in Live /\ container'[rootproc[c]] = c
    BY <1>0, <1>3, <1>4 DEF ContainerInv, Live
  <2>2. \A u \in allocated : rootproc[container'[u]] # None
    BY <1>0, <1>2, <1>4 DEF ContainerInv
  <2> QED
    BY <1>1, <1>5, <2>1, <2>2 DEF ContainerInv
<1>9. MakingInv'
  <2>1. ASSUME NEW u \in Making, pc[u] # "created"
        PROVE  /\ container'[u] = container[u]
               /\ container'[target[u]] = container[target[u]]
    <3>1. u # s /\ u # t /\ u \in Slot /\ target[u] \in Slot /\ target[u] # s
      BY <1>0, <1>2, <2>1 DEF MakingInv, Making
    <3> QED
      BY <1>4, <3>1
  <2> QED
    BY <1>0, <1>1, <1>5, <2>1 DEF MakingInv
<1>10. LoopInv'
  <2>1. Elems(children[s]) = {}
    BY <1>0, <1>2, <1>3 DEF LoopInv, Elems
  <2>2. ASSUME NEW c \in Container \ {RootContainer},
               rootproc[c] # None, parent[rootproc[c]] # None
        PROVE  container'[parent[rootproc[c]]] # c
    <3>1. /\ rootproc[c] \in allocated /\ rootproc[c] \in Slot
          /\ container[rootproc[c]] = c
      BY <1>0, <2>2 DEF ContainerInv, Live
    <3>2. container[RootProc] = RootContainer
      BY <1>0 DEF RootInv, ContainerInv, Live
    <3>3. rootproc[c] # RootProc
      BY <2>2, <3>1, <3>2
    <3>4. parent[rootproc[c]] # s
      BY <1>0, <1>2, <2>1, <3>1, <3>3 DEF TreeConsistent
    <3>5. parent[rootproc[c]] \in Slot
      BY <1>0, <2>2, <3>1 DEF ParentInv, Live
    <3> QED
      BY <1>0, <1>4, <2>2, <3>4, <3>5 DEF LoopInv
  <2> QED
    BY <1>0, <1>1, <2>2, ZenonT(30) DEF LoopInv
<1>11. TreeConsistent' /\ PidPool'
  <2>1. TreeConsistent'
    BY <1>0, <1>1, <1>5 DEF TreeConsistent, IsZombie
  <2>2. PidPool'
    BY <1>0, <1>1, <1>5 DEF PidPool
  <2> QED
    BY <2>1, <2>2
<1>12. LocalPidsDistinct'
  <2>1. \A c \in Container : LocalHolders(c)' = LocalHolders(c)
    BY <1>0, <1>1, <1>2, <1>4 DEF LocalHolders
  <2> QED
    BY <1>0, <1>1, <2>1 DEF LocalPidsDistinct
<1>13. ChildexitExact' /\ WaitFindsZombie'
  BY <1>0, <1>1, <1>5 DEF ChildexitExact, WaitFindsZombie, Zombies, IsZombie
<1> QED
  BY <1>6, <1>7, <1>8, <1>9, <1>10, <1>11, <1>12, <1>13 DEF ProcInv

\* start_proc takes a local pid.
TakesLocalPid(s) ==
    /\ pids[container[s]] # <<>>
    /\ allocated' = allocated /\ container' = container
    /\ localpid' = [localpid EXCEPT ![s] = Head(pids[container[s]])]
    /\ pids' = [pids EXCEPT ![container[s]] = Tail(@)]
    /\ pc'[s] = "run"
    /\ \A u \in Slot \ {s} : (pc'[u] = "unstarted") <=> (pc[u] = "unstarted")

\* The local pid that start_proc takes was in nobody's use.
LEMMA StartLocalPids ==
    ASSUME ProcInv, NEW s \in allocated, pc[s] = "unstarted", TakesLocalPid(s)
    PROVE  /\ LocalPidsDistinct' /\ pids' \in [Container -> Seq(Pid)]
           /\ localpid' \in [Slot -> Pid]
<1>0. /\ TypeOK /\ LocalPidsDistinct /\ allocated \subseteq Slot
      /\ s \in Slot /\ container[s] \in Container
  BY ZenonT(30) DEF ProcInv, TypeOK
<1>c. PICK c \in Container : c = container[s]
  BY <1>0
<1>1. pids[c] \in Seq(Pid) /\ Distinct(pids[c])
  BY <1>0, ZenonT(30) DEF TypeOK, LocalPidsDistinct
<1>2. /\ Head(pids[c]) \in Pid /\ Tail(pids[c]) \in Seq(Pid)
      /\ Head(pids[c]) \notin Elems(Tail(pids[c])) /\ Distinct(Tail(pids[c]))
      /\ Elems(pids[c]) = Elems(Tail(pids[c])) \cup {Head(pids[c])}
  BY <1>1, <1>c, TailList DEF TakesLocalPid
<1>3. /\ pids' \in [Container -> Seq(Pid)] /\ pids'[c] = Tail(pids[c])
      /\ \A d \in Container \ {c} : pids'[d] = pids[d]
  BY <1>0, <1>c, <1>2 DEF TypeOK, TakesLocalPid
<1>4. /\ localpid' \in [Slot -> Pid] /\ localpid'[s] = Head(pids[c])
      /\ \A u \in Slot \ {s} : localpid'[u] = localpid[u]
  BY <1>0, <1>c, <1>2 DEF TypeOK, TakesLocalPid
<1>5. /\ LocalHolders(c)' = LocalHolders(c) \cup {s} /\ s \notin LocalHolders(c)
      /\ \A d \in Container \ {c} : /\ LocalHolders(d)' = LocalHolders(d)
                                    /\ s \notin LocalHolders(d)
      /\ \A d \in Container : LocalHolders(d) \subseteq Slot
  BY <1>0, <1>c DEF LocalHolders, TakesLocalPid
<1>6. \A d \in Container \ {c} :
         /\ \A u, v \in LocalHolders(d)' : localpid'[u] = localpid'[v] => u = v
         /\ \A u \in LocalHolders(d)' : localpid'[u] \notin Elems(pids'[d])
         /\ Distinct(pids'[d])
  <2> SUFFICES ASSUME NEW d \in Container \ {c}
               PROVE  /\ \A u, v \in LocalHolders(d)' : localpid'[u] = localpid'[v] => u = v
                      /\ \A u \in LocalHolders(d)' : localpid'[u] \notin Elems(pids'[d])
                      /\ Distinct(pids'[d])
    OBVIOUS
  <2>1. LocalHolders(d)' = LocalHolders(d) /\ pids'[d] = pids[d]
    BY <1>3, <1>5
  <2>2. \A u \in LocalHolders(d) : localpid'[u] = localpid[u]
    BY <1>4, <1>5
  <2>3. /\ \A u, v \in LocalHolders(d) : localpid[u] = localpid[v] => u = v
        /\ \A u \in LocalHolders(d) : localpid[u] \notin Elems(pids[d])
        /\ Distinct(pids[d])
    BY <1>0 DEF LocalPidsDistinct
  <2> QED
    BY <2>1, <2>2, <2>3
<1>7. \A u \in LocalHolders(c) : /\ localpid'[u] = localpid[u]
                                 /\ localpid[u] # Head(pids[c])
                                 /\ localpid[u] \notin Elems(Tail(pids[c]))
  BY <1>0, <1>2, <1>4, <1>5, ZenonT(30) DEF LocalPidsDistinct
<1>8. /\ \A u, v \in LocalHolders(c)' : localpid'[u] = localpid'[v] => u = v
      /\ \A u \in LocalHolders(c)' : localpid'[u] \notin Elems(pids'[c])
      /\ Distinct(pids'[c])
  <2>1. \A u, v \in LocalHolders(c) : localpid[u] = localpid[v] => u = v
    BY <1>0 DEF LocalPidsDistinct
  <2> QED
    BY <1>2, <1>3, <1>4, <1>5, <1>7, <2>1, ZenonT(30)
<1>9. \A d \in Container :
         /\ \A u, v \in LocalHolders(d)' : localpid'[u] = localpid'[v] => u = v
         /\ \A u \in LocalHolders(d)' : localpid'[u] \notin Elems(pids'[d])
         /\ Distinct(pids'[d])
  <2> SUFFICES ASSUME NEW d \in Container
               PROVE  /\ \A u, v \in LocalHolders(d)' : localpid'[u] = localpid'[v] => u = v
                      /\ \A u \in LocalHolders(d)' : localpid'[u] \notin Elems(pids'[d])
                      /\ Distinct(pids'[d])
    OBVIOUS
  <2>1. CASE d = c
    BY <1>8, <2>1
  <2>2. CASE d # c
    BY <1>6, <2>2
  <2> QED
    BY <2>1, <2>2
<1>10. LocalPidsDistinct'
  BY <1>9, ZenonT(30) DEF LocalPidsDistinct
<1> QED
  BY <1>3, <1>4, <1>10

\* start_proc, also as the last step of create_container.
LEMMA StartInv ==
    ASSUME CountingLaws, ProcInv, NEW t \in Slot, StartProc(t)
    PROVE  ProcInv'
<1> DEFINE s == target[t]
<1>0. /\ TypeOK /\ RootInv /\ ControlInv /\ ContainerInv /\ MakingInv /\ ParentInv
      /\ LoopInv /\ TreeConsistent /\ PidPool /\ LocalPidsDistinct
      /\ ChildexitExact /\ WaitFindsZombie
      /\ None \notin Slot /\ allocated \subseteq Slot /\ RootProc \in allocated
      /\ RootProc \in Slot
  BY ProcessAssumption, ZenonT(30) DEF ProcInv, TypeOK, RootInv, Live
<1>1. /\ allocated' = allocated /\ killed' = killed /\ childexit' = childexit
      /\ pid' = pid /\ global_pids' = global_pids /\ container' = container
      /\ rootproc' = rootproc /\ panic' = panic /\ pids[container[s]] # <<>>
      /\ localpid' = [localpid EXCEPT ![s] = Head(pids[container[s]])]
      /\ pids' = [pids EXCEPT ![container[s]] = Tail(@)]
      /\ state' = [state EXCEPT ![s] = "ACTIVE"]
      /\ pc' = [pc EXCEPT ![t] = "run", ![s] = "run"]
      /\ target' = [target EXCEPT ![t] = None]
  BY ZenonT(30) DEF StartProc, contVars, FirstPid, TakePid
<1>2. /\ t \in Live /\ t \in allocated /\ t \in Making
      /\ pc[t] \in {"created", "cont_start"}
      /\ s \in allocated /\ s \in Slot /\ s # t
      /\ s # RootProc /\ s \in Live
      /\ pc[s] = "unstarted" /\ state[s] # "ZOMBIE" /\ s \notin Making
      /\ \A u \in Making \ {t} : target[u] # s
  <2>1. CASE At(t, "created")
    BY <2>1, MadeProcess
  <2>2. CASE At(t, "cont_start")
    BY <2>2, MadeProcess
  <2> QED
    BY <2>1, <2>2, ZenonT(30) DEF StartProc
<1>3. \/ /\ parent[s] = None
         /\ parent' = [parent EXCEPT ![s] = RootProc]
         /\ children' = [children EXCEPT ![RootProc] = <<s>> \o @]
      \/ parent[s] # None /\ parent' = parent /\ children' = children
  BY DEF StartProc
<1> HIDE DEF s
<1>4. /\ pc' \in [Slot -> PC] /\ pc'[t] = "run" /\ pc'[s] = "run"
      /\ \A u \in Slot \ {s, t} : pc'[u] = pc[u]
      /\ state' \in [Slot -> {"UNUSED", "ACTIVE", "ZOMBIE"}] /\ state'[s] = "ACTIVE"
      /\ \A u \in Slot \ {s} : state'[u] = state[u]
      /\ target' \in [Slot -> Slot \cup {None}]
      /\ \A u \in Slot \ {t} : target'[u] = target[u]
  BY <1>0, <1>1, <1>2, ZenonT(30) DEF TypeOK, PC
<1>5. /\ Live' = Live /\ Making' = Making \ {t}
      /\ \A u \in Slot : (state'[u] = "ZOMBIE") <=> (state[u] = "ZOMBIE")
  BY <1>0, <1>1, <1>2, <1>4 DEF Live, Making
<1>6. LocalPidsDistinct' /\ pids' \in [Container -> Seq(Pid)] /\ localpid' \in [Slot -> Pid]
  <2>1. \A u \in Slot \ {s} : (pc'[u] = "unstarted") <=> (pc[u] = "unstarted")
    BY <1>2, <1>4
  <2> QED
    BY <1>1, <1>2, <1>4, <2>1, StartLocalPids, ZenonT(30) DEF TakesLocalPid
<1>7. /\ TreeConsistent' /\ children' \in [Slot -> Seq(Slot)]
      /\ \A u \in allocated : Zombies(children[u])' = Zombies(children[u])
      /\ parent' \in [Slot -> Slot \cup {None}]
      /\ parent'[s] \in Live /\ (parent[s] # None => parent'[s] = parent[s])
      /\ parent'[s] \in {parent[s], RootProc}
      /\ \A u \in Slot \ {s} : parent'[u] = parent[u]
      /\ \A u \in Slot \ {RootProc} : children'[u] = children[u]
  <2>1. CASE parent[s] = None
    <3>1. /\ parent' = [parent EXCEPT ![s] = RootProc]
          /\ children' = [children EXCEPT ![RootProc] = <<s>> \o @]
      BY <1>3, <2>1
    <3>2. RootProc \in Live
      BY <1>0, ZenonT(30) DEF RootInv
    <3>3. /\ TreeConsistent' /\ children' \in [Slot -> Seq(Slot)]
          /\ \A u \in allocated : Zombies(children[u])' = Zombies(children[u])
      <4>1. Adopts(s, RootProc)
        BY <1>1, <1>5, <3>1 DEF Adopts
      <4> QED
        BY <1>2, <2>1, <3>2, <4>1, AdoptTree
    <3>4. /\ parent' \in [Slot -> Slot \cup {None}] /\ parent'[s] = RootProc
          /\ \A u \in Slot \ {s} : parent'[u] = parent[u]
          /\ \A u \in Slot \ {RootProc} : children'[u] = children[u]
      BY <1>0, <1>2, <3>1 DEF TypeOK
    <3> QED
      BY <2>1, <3>2, <3>3, <3>4
  <2>2. CASE parent[s] # None
    <3>1. parent' = parent /\ children' = children
      BY <1>3, <2>2
    <3>2. TreeConsistent' /\ \A u \in Slot : Elems(children[u]) \subseteq Slot
      BY <1>0, <1>1, <1>5, <3>1, ElemsIn DEF TreeConsistent, TypeOK, IsZombie
    <3>3. \A u \in allocated : Zombies(children[u])' = Zombies(children[u])
      <4> SUFFICES ASSUME NEW u \in allocated
                   PROVE  Zombies(children[u])' = Zombies(children[u])
        OBVIOUS
      <4>1. \A i \in DOMAIN children[u] : children[u][i] \in Slot
        BY <1>0 DEF TypeOK
      <4>2. {i \in DOMAIN children[u] : state'[children[u][i]] = "ZOMBIE"}
              = {i \in DOMAIN children[u] : state[children[u][i]] = "ZOMBIE"}
        BY <1>5, <4>1
      <4> QED
        BY <3>1, <4>2 DEF Zombies, IsZombie
    <3> QED
      BY <1>0, <1>2, <2>2, <3>1, <3>2, <3>3, ZenonT(30) DEF ParentInv, TypeOK
  <2> QED
    BY <2>1, <2>2, ZenonT(30)
<1>8. TypeOK'
  BY <1>0, <1>1, <1>4, <1>6, <1>7, ZenonT(30) DEF TypeOK
<1>9. RootInv' /\ ContainerInv' /\ PidPool' /\ WaitFindsZombie'
  <2>1. RootInv' /\ ContainerInv' /\ WaitFindsZombie'
    BY <1>0, <1>1, <1>2, <1>4, <1>5, <1>7 DEF RootInv, ContainerInv, WaitFindsZombie
  <2>2. PidPool'
    BY <1>0, <1>1, <1>5 DEF PidPool
  <2> QED
    BY <2>1, <2>2
<1>10. ControlInv'
  <2>1. \A u \in Slot : pc'[u] \notin {"unstarted", "run"} => u \in Live
    BY <1>0, <1>2, <1>4, ZenonT(30) DEF ControlInv
  <2>2. \A u \in allocated : state'[u] = "ZOMBIE" => pc'[u] = "run"
    BY <1>0, <1>4, <1>5, ZenonT(30) DEF ControlInv, IsZombie
  <2>3. \A u \in Slot : pc'[u] = "kill_alert" => target'[u] \in Slot
    BY <1>0, <1>4 DEF ControlInv
  <2> QED
    BY <1>1, <1>5, <2>1, <2>2, <2>3, ZenonT(30) DEF ControlInv, IsZombie
<1>11. MakingInv'
  <2>1. \A u \in Making \ {t} :
           /\ u \in Slot /\ u # s /\ pc'[u] = pc[u] /\ target'[u] = target[u]
           /\ target[u] \in Slot /\ target[u] # s /\ target[u] # t
           /\ pc'[target[u]] = "unstarted" /\ parent'[target[u]] = parent[target[u]]
    <3> SUFFICES ASSUME NEW u \in Making \ {t}
                 PROVE  /\ u \in Slot /\ u # s /\ pc'[u] = pc[u] /\ target'[u] = target[u]
                        /\ target[u] \in Slot /\ target[u] # s /\ target[u] # t
                        /\ pc'[target[u]] = "unstarted"
                        /\ parent'[target[u]] = parent[target[u]]
      BY ZenonT(30)
    <3>1. /\ u \in Slot /\ u # s /\ u # t /\ target[u] \in Slot
          /\ pc[target[u]] = "unstarted" /\ target[u] # s
      BY <1>0, <1>2 DEF MakingInv, Making
    <3>2. target[u] # t
      BY <1>2, <3>1
    <3> QED
      BY <1>4, <1>7, <3>1, <3>2, ZenonT(30)
  <2>2. \A u \in Making' :
           /\ target'[u] \in allocated' /\ pc'[target'[u]] = "unstarted"
           /\ parent'[target'[u]] \in {None, u}
    <3> SUFFICES ASSUME NEW u \in Making \ {t}
                 PROVE  /\ target'[u] \in allocated' /\ pc'[target'[u]] = "unstarted"
                        /\ parent'[target'[u]] \in {None, u}
      BY <1>5
    <3>1. target[u] \in allocated /\ parent[target[u]] \in {None, u}
      BY <1>0 DEF MakingInv
    <3>2. allocated' = allocated
      BY <1>1
    <3>3. /\ target'[u] = target[u] /\ pc'[target[u]] = "unstarted"
          /\ parent'[target[u]] = parent[target[u]]
      BY <2>1
    <3> QED
      BY <3>1, <3>2, <3>3
  <2>3. \A u, v \in Making' : target'[u] = target'[v] => u = v
    BY <1>0, <1>5, <2>1 DEF MakingInv
  <2>4. \A u \in Making' : pc'[u] = "created" =>
           \A c \in Container : rootproc'[c] # target'[u]
    BY <1>0, <1>1, <1>5, <2>1 DEF MakingInv
  <2>5. \A u \in Making' : pc'[u] # "created" =>
           /\ rootproc'[container'[target'[u]]] = target'[u]
           /\ container'[u] # container'[target'[u]]
    BY <1>0, <1>1, <1>5, <2>1 DEF MakingInv
  <2>6. \A u \in Making' : /\ pc'[u] = "cont_start" => parent'[target'[u]] = u
                           /\ pc'[u] = "cont_parent" => parent'[target'[u]] = None
    <3> SUFFICES ASSUME NEW u \in Making \ {t}
                 PROVE  /\ pc'[u] = "cont_start" => parent'[target'[u]] = u
                        /\ pc'[u] = "cont_parent" => parent'[target'[u]] = None
      BY <1>5, ZenonT(30)
    <3>1. /\ pc[u] = "cont_start" => parent[target[u]] = u
          /\ pc[u] = "cont_parent" => parent[target[u]] = None
      BY <1>0, ZenonT(30) DEF MakingInv
    <3>2. /\ pc'[u] = pc[u] /\ target'[u] = target[u]
          /\ parent'[target[u]] = parent[target[u]]
      BY <2>1
    <3> QED
      BY <3>1, <3>2
  <2> QED
    BY <2>2, <2>3, <2>4, <2>5, <2>6, ZenonT(30) DEF MakingInv
<1>12. ParentInv'
  <2> SUFFICES ASSUME NEW u \in allocated
               PROVE  /\ pc'[u] # "unstarted" => parent'[u] # None
                      /\ parent'[u] # None => parent'[u] \in Live
    BY <1>1, <1>5, ZenonT(30) DEF ParentInv
  <2>1. CASE u = s
    <3>1. parent'[u] \in Live /\ Live \subseteq allocated
      BY <1>7, <2>1 DEF Live
    <3> QED
      BY <1>0, <3>1
  <2>2. CASE u # s
    <3>1. u \in Slot /\ parent'[u] = parent[u]
      BY <1>0, <1>7, <2>2, ZenonT(30)
    <3>2. pc'[u] # "unstarted" => pc[u] # "unstarted"
      BY <1>2, <1>4, <2>2, <3>1
    <3> QED
      BY <1>0, <3>1, <3>2 DEF ParentInv
  <2> QED
    BY <2>1, <2>2
<1>13. LoopInv'
  <2>1. \A u \in allocated \ {RootProc} : parent'[u] # u
    BY <1>0, <1>2, <1>7, ZenonT(30) DEF LoopInv
  <2>2. ASSUME NEW c \in Container \ {RootContainer},
               rootproc[c] # None, parent'[rootproc[c]] # None
        PROVE  container[parent'[rootproc[c]]] # c
    <3>1. parent'[rootproc[c]] = parent[rootproc[c]]
      <4>1. CASE rootproc[c] = s
        <5>1. pc[t] = "cont_start"
          BY <1>0, <1>2, <4>1 DEF MakingInv, s
        <5>2. parent[s] = t /\ t # None
          BY <1>0, <1>2, <5>1 DEF MakingInv, s
        <5> QED
          BY <1>7, <4>1, <5>2, ZenonT(30)
      <4>2. CASE rootproc[c] # s
        BY <1>0, <1>7, <2>2, <4>2, ZenonT(30) DEF TypeOK
      <4> QED
        BY <4>1, <4>2
    <3> QED
      BY <1>0, <2>2, <3>1, ZenonT(30) DEF LoopInv
  <2>3. ASSUME NEW u \in allocated, pc'[u] = "unstarted",
               \A c \in Container : rootproc[c] # u
        PROVE  children'[u] = <<>>
    <3>1. u \in Slot /\ u # s /\ u # t
      BY <1>0, <1>4, <2>3
    <3>2. pc[u] = "unstarted"
      BY <1>4, <2>3, <3>1, ZenonT(30)
    <3>3. children'[u] = children[u]
      BY <1>0, <1>7, <3>1, <3>2 DEF RootInv
    <3> QED
      BY <1>0, <2>3, <3>2, <3>3 DEF LoopInv
  <2> QED
    BY <1>1, <2>1, <2>2, <2>3, ZenonT(30) DEF LoopInv
<1>14. ChildexitExact'
  <2>1. \A u \in Live : /\ u \in allocated
                        /\ (pc'[u] = "wait_reap") <=> (pc[u] = "wait_reap")
    BY <1>0, <1>2, <1>4, ZenonT(30) DEF Live
  <2>2. \A u \in Live : Zombies(children[u])' = Zombies(children[u])
    BY <1>7, <2>1
  <2>3. ASSUME NEW u \in Live
        PROVE  (childexit[u] + (IF pc[u] = "wait_reap" THEN 1 ELSE 0)
                 = Zombies(children[u]))'
    BY <1>0, <1>1, <2>1, <2>2, ZenonT(30) DEF ChildexitExact
  <2> QED
    BY <1>5, <2>3, ZenonT(30) DEF ChildexitExact
<1> QED
  BY <1>6, <1>7, <1>8, <1>9, <1>10, <1>11, <1>12, <1>13, <1>14, ZenonT(30)
     DEF ProcInv
=============================================================================
