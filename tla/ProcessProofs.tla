--------------------------- MODULE ProcessProofs ---------------------------
(***************************************************************************)
(* TLAPS proofs about Process: the pids, the tree of processes and the     *)
(* counts of childexit, for any number of processes and containers.        *)
(***************************************************************************)
EXTENDS ProcessStartProofs

\* A leaf that names no prover is tried by Z3 twice, by Zenon, and by Z3 again.
USE SMTT(10), Z3T(10), ZenonT(30), SMTT(30)

-----------------------------------------------------------------------------
(***************************************************************************)
(* exit(): root, the root process of the container, takes over the         *)
(* children of t.                                                          *)
(***************************************************************************)

\* Who is who in exit(): root is not t, nor a child of t.
LEMMA ExitActors ==
    ASSUME ProcInv, NEW t \in Slot, Exit(t), NEW root,
           root = rootproc[container[t]]
    PROVE  /\ t \in Live /\ t \in allocated /\ pc[t] = "run" /\ t # RootProc
           /\ root \in Live /\ root \in allocated /\ root \in Slot /\ root # t
           /\ container[root] = container[t] /\ \A c \in Container : rootproc[c] # t
           /\ parent[t] \in Live /\ parent[t] # t
           /\ root \notin Elems(children[t]) /\ t \notin Elems(children[t])
           /\ \A u \in Elems(children[t]) :
                 u \in allocated /\ u \in Slot /\ u # RootProc /\ parent[u] = t
<1>0. /\ TypeOK /\ RootInv /\ ContainerInv /\ ParentInv /\ LoopInv /\ TreeConsistent
      /\ allocated \subseteq Slot
  BY DEF ProcInv, TypeOK
<1>1. t \in Live /\ t \in allocated /\ pc[t] = "run" /\ t # root
  BY <1>0, AtHolds DEF Exit, Live
<1>2. /\ root # None /\ container[t] \in Container
  BY <1>0, <1>1 DEF ContainerInv, TypeOK
<1>3. root \in Live /\ root \in allocated /\ root \in Slot /\ container[root] = container[t]
  BY <1>0, <1>2 DEF ContainerInv, Live
<1>4. \A c \in Container : rootproc[c] # t
  <2> SUFFICES ASSUME NEW c \in Container, rootproc[c] = t
               PROVE  FALSE
    OBVIOUS
  <2>1. container[t] = c
    BY <1>0, ProcessAssumption DEF ContainerInv
  <2> QED
    BY <1>1, <2>1
<1>5. t # RootProc
  BY <1>0, <1>4, ProcessAssumption DEF RootInv
<1>6. parent[t] \in Live /\ parent[t] # t
  BY <1>0, <1>1, <1>5 DEF ParentInv, LoopInv
<1>7. \A u \in Elems(children[t]) :
         u \in allocated /\ u \in Slot /\ u # RootProc /\ parent[u] = t
  <2>1. Elems(children[t]) \subseteq Slot
    BY <1>0, ElemsIn DEF TypeOK
  <2> QED
    BY <1>0, <1>1, <2>1 DEF TreeConsistent
<1>8. t \notin Elems(children[t])
  BY <1>6, <1>7
<1>9. root \notin Elems(children[t])
  <2> SUFFICES ASSUME root \in Elems(children[t])
               PROVE  FALSE
    OBVIOUS
  <2>1. parent[root] = t /\ root # RootProc
    BY <1>7
  <2>2. container[t] # RootContainer
    BY <1>0, <2>1 DEF RootInv
  <2>3. t # None
    BY ProcessAssumption
  <2> QED
    BY <1>0, <1>2, <2>1, <2>2, <2>3 DEF LoopInv
<1> QED
  BY <1>1, <1>3, <1>4, <1>5, <1>6, <1>7, <1>8, <1>9

\* What exit() changes, field by field.
LEMMA ExitFields ==
    ASSUME ProcInv, NEW t \in Slot, Exit(t), NEW root,
           root = rootproc[container[t]]
    PROVE  /\ children' \in [Slot -> Seq(Slot)] /\ children'[t] = <<>>
           /\ Distinct(children'[root])
           /\ Elems(children'[root]) = Elems(children[root]) \cup Elems(children[t])
           /\ Elems(children[root]) \cap Elems(children[t]) = {}
           /\ \A u \in Slot \ {t, root} : children'[u] = children[u]
           /\ parent' \in [Slot -> Slot \cup {None}]
           /\ \A u \in Elems(children[t]) : parent'[u] = root
           /\ \A u \in Slot \ Elems(children[t]) : parent'[u] = parent[u]
           /\ state' \in [Slot -> {"UNUSED", "ACTIVE", "ZOMBIE"}]
           /\ state'[t] = "ZOMBIE" /\ \A u \in Slot \ {t} : state'[u] = state[u]
           /\ Live' = Live \ {t}
<1>0. /\ TypeOK /\ TreeConsistent /\ allocated \subseteq Slot
  BY DEF ProcInv, TypeOK
<1>1. /\ t \in allocated /\ root \in allocated /\ root \in Slot /\ root # t
      /\ \A u \in Elems(children[t]) :
            u \in allocated /\ u \in Slot /\ u # RootProc /\ parent[u] = t
  BY ExitActors, ZenonT(30)
<1>2. /\ parent' = [q \in Slot |-> IF q \in Elems(children[t]) THEN root ELSE parent[q]]
      /\ children' = [children EXCEPT ![t] = <<>>,
                                      ![root] = MergeChildren(@, children[t])]
      /\ state' = [state EXCEPT ![t] = "ZOMBIE"]
      /\ allocated' = allocated
  BY ZenonT(30) DEF Exit
<1>3. /\ children[root] \in Seq(Slot) /\ children[t] \in Seq(Slot)
      /\ Distinct(children[root]) /\ Distinct(children[t])
  BY <1>0, <1>1 DEF TypeOK, TreeConsistent
<1>4. Elems(children[root]) \cap Elems(children[t]) = {}
  BY <1>0, <1>1 DEF TreeConsistent
<1> DEFINE merged == MergeChildren(children[root], children[t])
<1>5. /\ merged \in Seq(Slot) /\ Distinct(merged)
      /\ Elems(merged) = Elems(children[root]) \cup Elems(children[t])
  BY <1>3, <1>4, MergeList
<1>6. children' = [children EXCEPT ![t] = <<>>, ![root] = merged]
  BY <1>0, <1>1, <1>2 DEF TypeOK
<1> HIDE DEF merged
<1>7. /\ children' \in [Slot -> Seq(Slot)] /\ children'[t] = <<>>
      /\ children'[root] = merged
      /\ \A u \in Slot \ {t, root} : children'[u] = children[u]
  <2>0. DOMAIN children = Slot /\ <<>> \in Seq(Slot) /\ \A u \in Slot : children[u] \in Seq(Slot)
    BY <1>0 DEF TypeOK
  <2>1. children' = [u \in Slot |-> IF u = root THEN merged
                                   ELSE IF u = t THEN <<>> ELSE children[u]]
    BY <1>1, <1>6, <2>0, ZenonT(30)
  <2> QED
    BY <1>1, <1>5, <2>0, <2>1
<1>8. /\ parent' \in [Slot -> Slot \cup {None}]
      /\ \A u \in Elems(children[t]) : parent'[u] = root
      /\ \A u \in Slot \ Elems(children[t]) : parent'[u] = parent[u]
  BY <1>0, <1>1, <1>2 DEF TypeOK
<1>9. /\ state' \in [Slot -> {"UNUSED", "ACTIVE", "ZOMBIE"}]
      /\ state'[t] = "ZOMBIE" /\ \A u \in Slot \ {t} : state'[u] = state[u]
  BY <1>0, <1>2 DEF TypeOK
<1>10. Live' = Live \ {t}
  BY <1>0, <1>2, <1>9 DEF Live
<1> QED
  BY <1>4, <1>5, <1>7, <1>8, <1>9, <1>10

\* The tree stays consistent: root has the children of t, t has none.
LEMMA ExitTree ==
    ASSUME ProcInv, NEW t \in Slot, Exit(t)
    PROVE  TreeConsistent'
<1>0. PICK root : root = rootproc[container[t]]
  OBVIOUS
<1>1. /\ TreeConsistent /\ allocated \subseteq Slot /\ allocated' = allocated
  BY DEF ProcInv, TypeOK, Exit
<1>2. /\ t \in allocated /\ root \in allocated /\ root \in Slot /\ root # t
      /\ root \in Live
      /\ \A u \in Elems(children[t]) :
            u \in allocated /\ u \in Slot /\ u # RootProc /\ parent[u] = t
  BY <1>0, ExitActors
<1>3. /\ children'[t] = <<>> /\ Distinct(children'[root])
      /\ Elems(children'[root]) = Elems(children[root]) \cup Elems(children[t])
      /\ \A u \in Slot \ {t, root} : children'[u] = children[u]
  BY <1>0, ExitFields, ZenonT(30)
<1>p. /\ \A u \in Elems(children[t]) : parent'[u] = root
      /\ \A u \in Slot \ Elems(children[t]) : parent'[u] = parent[u]
      /\ \A u \in Slot \ {t} : state'[u] = state[u]
  BY <1>0, ExitFields
<1>4. ASSUME NEW s \in allocated, NEW u \in Slot
      PROVE  u \in Elems(children'[s]) <=> /\ u \in allocated /\ u # RootProc
                                           /\ parent'[u] = s
  <2>1. CASE s = t
    <3>1. u \notin Elems(children'[s])
      BY <1>3, <1>p, <2>1 DEF Elems
    <3>2. CASE u \in Elems(children[t])
      BY <1>2, <1>3, <1>p, <2>1, <3>1, <3>2
    <3>3. CASE u \notin Elems(children[t])
      BY <1>1, <1>2, <1>3, <1>p, <2>1, <3>1, <3>3 DEF TreeConsistent
    <3> QED
      BY <3>2, <3>3
  <2>2. CASE s = root
    <3>2. CASE u \in Elems(children[t])
      BY <1>2, <1>3, <1>p, <2>2, <3>2
    <3>3. CASE u \notin Elems(children[t])
      BY <1>1, <1>2, <1>3, <1>p, <2>2, <3>3 DEF TreeConsistent
    <3> QED
      BY <3>2, <3>3
  <2>3. CASE s # t /\ s # root
    <3>1. children'[s] = children[s] /\ s \in Slot
      BY <1>1, <1>3, <1>p, <2>3
    <3>2. CASE u \in Elems(children[t])
      BY <1>1, <1>2, <1>3, <1>p, <2>3, <3>1, <3>2 DEF TreeConsistent
    <3>3. CASE u \notin Elems(children[t])
      BY <1>1, <1>2, <1>3, <1>p, <2>3, <3>1, <3>3 DEF TreeConsistent
    <3> QED
      BY <3>2, <3>3
  <2> QED
    BY <2>1, <2>2, <2>3
<1>5. ASSUME NEW s \in allocated
      PROVE  Distinct(children'[s]) /\ (state'[s] = "ZOMBIE" => children'[s] = <<>>)
  <2>1. CASE s = t
    <3>1. Distinct(children'[s])
      BY <1>3, <1>p, <2>1 DEF Distinct
    <3> QED
      BY <1>3, <1>p, <2>1, <3>1
  <2>2. CASE s = root
    BY <1>2, <1>3, <1>p, <2>2 DEF Live
  <2>3. CASE s # t /\ s # root
    BY <1>1, <1>3, <1>p, <2>3 DEF TreeConsistent, IsZombie
  <2> QED
    BY <2>1, <2>2, <2>3
<1> QED
  BY <1>1, <1>4, <1>5 DEF TreeConsistent, IsZombie

\* The units that exit() posts are what the counts need: root inherits zombies,
\* the parent gets a new one, and root may be the parent.
LEMMA ExitCounts ==
    ASSUME CountingLaws, ProcInv, NEW t \in Slot, Exit(t)
    PROVE  childexit' \in [Slot -> Nat] /\ ChildexitExact'
<1>0. PICK root : root = rootproc[container[t]]
  OBVIOUS
<1>1. /\ TypeOK /\ TreeConsistent /\ ChildexitExact /\ allocated \subseteq Slot
      /\ pc' = pc /\ Live \subseteq allocated
  BY DEF ProcInv, TypeOK, Exit, Live
<1>2. /\ t \in allocated /\ root \in allocated /\ root \in Slot /\ root # t
      /\ t # RootProc /\ state[t] # "ZOMBIE" /\ t \notin Elems(children[t])
  BY <1>0, ExitActors DEF Live
<1>3. /\ children' \in [Slot -> Seq(Slot)] /\ Distinct(children'[root])
      /\ Elems(children'[root]) = Elems(children[root]) \cup Elems(children[t])
      /\ Elems(children[root]) \cap Elems(children[t]) = {}
      /\ \A u \in Slot \ {t, root} : children'[u] = children[u]
  BY <1>0, ExitFields, ZenonT(30)
<1>s. /\ state'[t] = "ZOMBIE" /\ \A u \in Slot \ {t} : state'[u] = state[u]
      /\ Live' = Live \ {t}
  BY <1>0, ExitFields
<1>4. /\ Zombies(children[t]) = Cardinality(ZombieSet(state, children[t]))
      /\ IsFiniteSet(ZombieSet(state, children[t])) /\ Zombies(children[t]) \in Nat
  <2>1. children[t] \in Seq(Slot) /\ Distinct(children[t])
    BY <1>1, <1>2 DEF TypeOK, TreeConsistent
  <2> QED
    BY <2>1, ZombieCount, ZenonT(30) DEF Zombies, IsZombie
<1>5. childexit' = [q \in Slot |-> childexit[q]
                      + ((IF q = root THEN Zombies(children[t]) ELSE 0)
                         + (IF q = parent[t] THEN 1 ELSE 0))]
  BY <1>0 DEF Exit, Posts
<1>6. childexit' \in [Slot -> Nat]
  <2>1. \A q \in Slot : childexit[q] \in Nat
    BY <1>1 DEF TypeOK
  <2>2. \A q \in Slot : childexit[q]
                          + ((IF q = root THEN Zombies(children[t]) ELSE 0)
                             + (IF q = parent[t] THEN 1 ELSE 0)) \in Nat
    BY <1>4, <2>1
  <2> QED
    BY <1>5, <2>2
<1>7. ASSUME NEW u \in Live \ {t}
      PROVE  (childexit[u] + (IF pc[u] = "wait_reap" THEN 1 ELSE 0)
                = Zombies(children[u]))'
  <2>0. u \in allocated /\ u \in Slot /\ u # t
    BY <1>1
  <2>1. /\ children[u] \in Seq(Slot) /\ Distinct(children[u])
        /\ children'[u] \in Seq(Slot) /\ Distinct(children'[u])
    <3>1. children[u] \in Seq(Slot) /\ Distinct(children[u]) /\ children'[u] \in Seq(Slot)
      BY <1>1, <1>3, <1>s, <2>0, ZenonT(30) DEF TypeOK, TreeConsistent
    <3> QED
      BY <1>3, <1>s, <2>0, <3>1, ZenonT(30)
  <2> DEFINE old == ZombieSet(state, children[u])
             lost == ZombieSet(state, children[t])
             new == ZombieSet(state', children'[u])
  <2>2. /\ Zombies(children[u]) = Cardinality(old)
        /\ Zombies(children[u])' = Cardinality(new)
        /\ IsFiniteSet(old) /\ IsFiniteSet(new)
    BY <2>1, ZombieNumbers, ZenonT(30)
  <2>3. /\ \A v \in old : v \in Elems(children[u]) /\ v \in Slot /\ v # t
        /\ t \in Elems(children[u]) <=> parent[t] = u
    <3>1. Elems(children[u]) \subseteq Slot
      BY <2>1, ElemsIn
    <3>2. t \in Elems(children[u]) <=> parent[t] = u
      BY <1>1, <1>2, <2>0 DEF TreeConsistent
    <3> QED
      BY <1>2, <3>1, <3>2 DEF ZombieSet
  <2>4. Elems(children[u]) \subseteq Slot /\ Elems(children[t]) \subseteq Slot
    BY <1>1, <2>0, ElemsIn DEF TypeOK
  <2>5. new = old \cup (IF u = root THEN lost ELSE {})
                  \cup (IF parent[t] = u THEN {t} ELSE {})
    <3>1. CASE u = root
      <4>1. \A v \in Elems(children'[u]) : v \in Elems(children[u]) \/ v \in Elems(children[t])
        BY <1>3, <1>s, <3>1
      <4> QED
        BY <1>2, <1>3, <1>s, <2>3, <2>4, <3>1 DEF ZombieSet
    <3>2. CASE u # root
      <4>1. children'[u] = children[u]
        BY <1>3, <1>s, <2>0, <3>2
      <4> QED
        BY <1>2, <1>3, <1>s, <2>3, <2>4, <3>2, <4>1 DEF ZombieSet
    <3> QED
      BY <3>1, <3>2
  <2>6. (u = root => old \cap lost = {}) /\ t \notin old /\ t \notin lost
    BY <1>2, <1>3, <1>s, <2>3 DEF ZombieSet
  <2>7. /\ Cardinality(old) \in Nat /\ Cardinality(lost) \in Nat
        /\ IsFiniteSet(lost) /\ Cardinality(lost) = Zombies(children[t])
    BY <1>4, <2>2 DEF CountingLaws, SizeLaws
  <2> HIDE DEF old, lost, new
  <2>8. Cardinality(new) = Cardinality(old) + (IF u = root THEN Cardinality(lost) ELSE 0)
                             + (IF parent[t] = u THEN 1 ELSE 0)
    <3> DEFINE base == old \cup (IF u = root THEN lost ELSE {})
    <3>1. /\ IsFiniteSet(base) /\ t \notin base
          /\ Cardinality(base) = Cardinality(old)
                                  + (IF u = root THEN Cardinality(lost) ELSE 0)
      <4>1. CASE u = root
        <5>1. base = old \cup lost
          BY <4>1
        <5>2. /\ IsFiniteSet(old \cup lost)
              /\ Cardinality(old \cup lost)
                   = Cardinality(old) + Cardinality(lost)
          BY <2>2, <2>6, <2>7, <4>1, ZenonT(30) DEF CountingLaws, ChangeLaws
        <5>3. t \notin old \cup lost
          BY <2>6
        <5> QED
          BY <2>7, <4>1, <5>1, <5>2, <5>3
      <4>2. CASE u # root
        <5>1. base = old
          BY <4>2
        <5> QED
          BY <2>2, <2>6, <2>7, <4>2, <5>1
      <4> QED
        BY <4>1, <4>2
    <3>2. new = IF parent[t] = u THEN base \cup {t} ELSE base
      BY <2>5
    <3> HIDE DEF base
    <3>3. Cardinality(base \cup {t}) = Cardinality(base) + 1
      BY <3>1, ZenonT(30) DEF CountingLaws, ChangeLaws
    <3>4. Cardinality(base) \in Nat
      BY <3>1 DEF CountingLaws, SizeLaws
    <3>5. CASE parent[t] = u
      BY <2>7, <3>1, <3>2, <3>3, <3>4, <3>5
    <3>6. CASE parent[t] # u
      BY <2>7, <3>1, <3>2, <3>4, <3>6
    <3> QED
      BY <3>5, <3>6
  <2>9. /\ childexit[u] + (IF pc[u] = "wait_reap" THEN 1 ELSE 0) = Cardinality(old)
        /\ childexit[u] \in Nat
    BY <1>1, <2>0, <2>2 DEF ChildexitExact, TypeOK
  <2>10. childexit'[u] = childexit[u] + ((IF u = root THEN Cardinality(lost) ELSE 0)
                                         + (IF u = parent[t] THEN 1 ELSE 0))
    BY <1>5, <2>0, <2>7
  <2> QED
    BY <1>1, <2>2, <2>7, <2>8, <2>9, <2>10
<1> QED
  BY <1>3, <1>s, <1>6, <1>7 DEF ChildexitExact

\* exit() of a process that is not the root of its container.
LEMMA ExitInv ==
    ASSUME CountingLaws, ProcInv, NEW t \in Slot, Exit(t)
    PROVE  ProcInv'
<1>0. PICK root : root = rootproc[container[t]]
  OBVIOUS
<1>1. /\ TypeOK /\ RootInv /\ ControlInv /\ ContainerInv /\ MakingInv /\ ParentInv
      /\ LoopInv /\ TreeConsistent /\ PidPool /\ LocalPidsDistinct
      /\ WaitFindsZombie
      /\ None \notin Slot /\ allocated \subseteq Slot /\ Live \subseteq allocated
  BY ProcessAssumption DEF ProcInv, TypeOK, Live
<1>2. /\ allocated' = allocated /\ killed' = killed /\ pid' = pid
      /\ localpid' = localpid /\ pids' = pids /\ container' = container
      /\ rootproc' = rootproc /\ pc' = pc /\ target' = target /\ panic' = panic
      /\ global_pids' = <<pid[t]>> \o global_pids
  BY DEF Exit, contVars, ReturnPid, ExitedPid
<1>3. /\ t \in Live /\ t \in allocated /\ pc[t] = "run" /\ t # RootProc
      /\ root \in Live /\ root \in allocated /\ root \in Slot /\ root # t
      /\ container[root] = container[t] /\ \A c \in Container : rootproc[c] # t
  BY <1>0, ExitActors, ZenonT(30)
<1>4. /\ root \notin Elems(children[t])
      /\ \A u \in Elems(children[t]) :
            u \in allocated /\ u \in Slot /\ u # RootProc /\ parent[u] = t
  BY <1>0, ExitActors
<1>5. /\ children' \in [Slot -> Seq(Slot)]
      /\ \A u \in Slot \ {t, root} : children'[u] = children[u]
      /\ parent' \in [Slot -> Slot \cup {None}]
  BY <1>0, ExitFields
<1>6. /\ \A u \in Elems(children[t]) : parent'[u] = root
      /\ \A u \in Slot \ Elems(children[t]) : parent'[u] = parent[u]
  BY <1>0, ExitFields
<1>7. /\ state' \in [Slot -> {"UNUSED", "ACTIVE", "ZOMBIE"}]
      /\ \A u \in Slot \ {t} : state'[u] = state[u]
      /\ Live' = Live \ {t}
  BY <1>0, ExitFields
<1>8. childexit' \in [Slot -> Nat] /\ ChildexitExact' /\ TreeConsistent'
  BY ExitCounts, ExitTree
<1>9. /\ global_pids' \in Seq(Pid) /\ Distinct(global_pids')
      /\ Elems(global_pids') = Elems(global_pids) \cup {pid[t]}
  <2>1. /\ global_pids \in Seq(Pid) /\ pid[t] \in Pid /\ Distinct(global_pids)
        /\ pid[t] \notin Elems(global_pids)
    BY <1>1, <1>3 DEF TypeOK, PidPool
  <2> QED
    BY <1>2, <2>1, ConsList
<1>10. Making' = Making /\ t \notin Making
  BY <1>2, <1>3 DEF Making
<1>11. \A u \in allocated : parent[u] # t => parent'[u] = parent[u]
  BY <1>1, <1>4, <1>6
<1>12. \A u \in allocated \ {RootProc} : parent[u] = t => parent'[u] = root
  BY <1>1, <1>3, <1>6, ZenonT(30) DEF TreeConsistent
<1>13. TypeOK'
  BY <1>1, <1>2, <1>5, <1>7, <1>8, <1>9 DEF TypeOK
<1>14. RootInv'
  <2>1. RootProc \in allocated /\ parent[RootProc] # t
    BY <1>1, <1>3 DEF RootInv
  <2> QED
    BY <1>1, <1>2, <1>3, <1>7, <1>11, <2>1, ZenonT(30) DEF RootInv
<1>15. ControlInv'
  BY <1>1, <1>2, <1>3, <1>7, ZenonT(30) DEF ControlInv, IsZombie
<1>16. ContainerInv'
  BY <1>1, <1>2, <1>3, <1>7 DEF ContainerInv
<1>17. MakingInv'
  <2>1. \A u \in Making : parent'[target[u]] = parent[target[u]]
    <3> SUFFICES ASSUME NEW u \in Making
                 PROVE  parent'[target[u]] = parent[target[u]]
      OBVIOUS
    <3>1. target[u] \in allocated /\ parent[target[u]] \in {None, u} /\ u # t
      BY <1>1, <1>10 DEF MakingInv
    <3>2. t # None
      BY <1>1
    <3> QED
      BY <1>11, <3>1, <3>2
  <2>2. \A u \in Making : parent'[target[u]] \in {None, u}
    BY <1>1, <2>1, ZenonT(30) DEF MakingInv
  <2>3. \A u \in Making : /\ pc[u] = "cont_start" => parent'[target[u]] = u
                          /\ pc[u] = "cont_parent" => parent'[target[u]] = None
    BY <1>1, <2>1 DEF MakingInv
  <2> QED
    BY <1>1, <1>2, <1>10, <2>2, <2>3 DEF MakingInv
<1>18. ParentInv'
  <2> SUFFICES ASSUME NEW s \in allocated
               PROVE  /\ pc[s] # "unstarted" => parent'[s] # None
                      /\ parent'[s] # None => parent'[s] \in Live \ {t}
    BY <1>2, <1>7 DEF ParentInv
  <2>1. CASE s = RootProc
    <3>1. parent'[s] = RootProc /\ RootProc \in Live /\ RootProc # t /\ RootProc \in Slot
      BY <1>1, <1>3, <1>11, <2>1 DEF RootInv
    <3> QED
      BY <1>1, <3>1
  <2>2. CASE s # RootProc /\ parent[s] = t
    <3>1. parent'[s] = root
      BY <1>12, <2>2
    <3> QED
      BY <1>1, <1>3, <3>1
  <2>3. CASE parent[s] # t
    BY <1>1, <1>11, <2>3 DEF ParentInv
  <2> QED
    BY <2>1, <2>2, <2>3
<1>19. LoopInv'
  <2>1. ASSUME NEW s \in allocated \ {RootProc}
        PROVE  parent'[s] # s
    <3>1. CASE parent[s] = t
      BY <1>1, <1>3, <1>4, <1>12, <3>1 DEF TreeConsistent
    <3>2. CASE parent[s] # t
      BY <1>1, <1>11, <3>2 DEF LoopInv
    <3> QED
      BY <3>1, <3>2
  <2>2. ASSUME NEW c \in Container \ {RootContainer},
               rootproc[c] # None, parent'[rootproc[c]] # None
        PROVE  container[parent'[rootproc[c]]] # c
    <3>1. rootproc[c] \in allocated /\ container[rootproc[c]] = c
      BY <1>1, <2>2 DEF ContainerInv
    <3>2. CASE parent[rootproc[c]] = t
      <4>1. container[t] # c
        BY <1>1, <2>2, <3>2 DEF LoopInv
      <4>2. rootproc[c] # RootProc
        BY <1>1, <1>3, <3>2 DEF RootInv
      <4> QED
        BY <1>3, <1>12, <3>1, <3>2, <4>1, <4>2
    <3>3. CASE parent[rootproc[c]] # t
      BY <1>1, <1>11, <2>2, <3>1, <3>3 DEF LoopInv
    <3> QED
      BY <3>2, <3>3
  <2>3. ASSUME NEW u \in allocated, pc[u] = "unstarted",
               \A c \in Container : rootproc[c] # u
        PROVE  children'[u] = <<>>
    <3>1. container[t] \in Container
      BY <1>1 DEF TypeOK
    <3>2. u # t /\ u # root /\ u \in Slot
      BY <1>0, <1>1, <1>3, <2>3, <3>1, ZenonT(30)
    <3> QED
      BY <1>1, <1>5, <2>3, <3>2, ZenonT(30) DEF LoopInv
  <2> QED
    BY <1>2, <2>1, <2>2, <2>3 DEF LoopInv
<1>20. PidPool'
  <2>1. \A u \in Live \ {t} : pid[u] # pid[t] /\ pid[u] \notin Elems(global_pids)
    BY <1>1, <1>3 DEF PidPool
  <2> QED
    BY <1>1, <1>2, <1>7, <1>9, <2>1, ZenonT(30) DEF PidPool
<1>21. LocalPidsDistinct' /\ WaitFindsZombie'
  <2>1. \A c \in Container : LocalHolders(c)' = LocalHolders(c)
    BY <1>2 DEF LocalHolders
  <2> QED
    BY <1>1, <1>2, <2>1, ZenonT(30) DEF LocalPidsDistinct, WaitFindsZombie
<1> QED
  BY <1>8, <1>13, <1>14, <1>15, <1>16, <1>17, <1>18, <1>19, <1>20, <1>21
     DEF ProcInv

-----------------------------------------------------------------------------
(***************************************************************************)
(* wait(), the second part: the child s at position i is reaped.           *)
(***************************************************************************)

\* A unit of childexit was taken, so that there is a zombie to be found.
LEMMA ReapedChild ==
    ASSUME CountingLaws, ProcInv, NEW t \in Slot, WaitReap(t), NEW i,
           i = FirstZombie(children[t]),
           NEW s, s = children[t][i]
    PROVE  /\ t \in Live /\ t \in allocated /\ pc[t] = "wait_reap"
           /\ Zombies(children[t]) > 0 /\ i \in DOMAIN children[t]
           /\ s \in Elems(children[t]) /\ s \in allocated /\ s \in Slot /\ s # t
           /\ s # RootProc /\ parent[s] = t /\ state[s] = "ZOMBIE" /\ pc[s] = "run"
           /\ children[s] = <<>>
<1>0. /\ TypeOK /\ ControlInv /\ TreeConsistent /\ ChildexitExact
      /\ allocated \subseteq Slot
  BY ZenonT(30) DEF ProcInv, TypeOK
<1>1. t \in Live /\ t \in allocated /\ pc[t] = "wait_reap" /\ state[t] # "ZOMBIE"
  BY <1>0, AtHolds, ZenonT(30) DEF WaitReap, Live
<1>2. Zombies(children[t]) > 0
  <2>1. childexit[t] \in Nat /\ childexit[t] + 1 = Zombies(children[t])
    BY <1>0, <1>1 DEF TypeOK, ChildexitExact
  <2> QED
    BY <2>1
<1>3. PICK k \in DOMAIN children[t] : IsZombie(children[t][k])
  <2>1. {k \in DOMAIN children[t] : IsZombie(children[t][k])} # {}
    BY <1>2 DEF Zombies, CountingLaws, SizeLaws
  <2> QED
    BY <2>1
<1>4. i \in DOMAIN children[t] /\ IsZombie(s)
  <2>1. children[t] \in Seq(Slot)
    BY <1>0 DEF TypeOK
  <2> QED
    BY <1>3, <2>1, FirstZombieFound
<1>5. s \in Elems(children[t]) /\ s \in Slot
  <2>1. children[t] \in Seq(Slot)
    BY <1>0 DEF TypeOK
  <2>2. s \in Elems(children[t])
    BY <1>4 DEF Elems
  <2> QED
    BY <2>1, <2>2, ElemsIn
<1>6. s \in allocated /\ s # RootProc /\ parent[s] = t
  BY <1>0, <1>1, <1>5 DEF TreeConsistent
<1>7. state[s] = "ZOMBIE" /\ pc[s] = "run" /\ s # t /\ children[s] = <<>>
  BY <1>0, <1>1, <1>4, <1>6 DEF ControlInv, TreeConsistent, IsZombie
<1> QED
  BY <1>1, <1>2, <1>4, <1>5, <1>6, <1>7

\* Nobody else refers to the reaped process but a kill() on its way.
LEMMA ReapedAlone ==
    ASSUME ProcInv, NEW s \in allocated, state[s] = "ZOMBIE", pc[s] = "run"
    PROVE  /\ s \notin Live /\ s \notin Making
           /\ \A u \in Making : target[u] # s
           /\ \A c \in Container : rootproc[c] # s
           /\ \A u \in allocated : parent[u] # s
<1>0. /\ ContainerInv /\ MakingInv /\ ParentInv /\ s # None
  BY ProcessAssumption DEF ProcInv, TypeOK
<1>1. s \notin Live /\ s \notin Making
  BY DEF Live, Making
<1>2. \A u \in Making : target[u] # s
  BY <1>0 DEF MakingInv
<1>3. \A c \in Container : rootproc[c] # s
  BY <1>0, <1>1 DEF ContainerInv
<1>4. \A u \in allocated : parent[u] # s
  BY <1>0, <1>1 DEF ParentInv
<1> QED
  BY <1>1, <1>2, <1>3, <1>4

\* The local pid goes back to the pool of the container of s.
GivesLocalPid(s) ==
    /\ allocated' = allocated \ {s}
    /\ container' = [container EXCEPT ![s] = RootContainer]
    /\ localpid' = [localpid EXCEPT ![s] = 0]
    /\ pids' = [pids EXCEPT ![container[s]] = <<localpid[s]>> \o @]
    /\ \A u \in Slot : (pc'[u] = "unstarted") <=> (pc[u] = "unstarted")

\* A local pid that wait returns to its pool is nobody's any more.
LEMMA ReapLocalPids ==
    ASSUME ProcInv, NEW s \in allocated, pc[s] # "unstarted", GivesLocalPid(s)
    PROVE  LocalPidsDistinct' /\ pids' \in [Container -> Seq(Pid)]
<1>0. /\ TypeOK /\ LocalPidsDistinct /\ allocated \subseteq Slot
      /\ s \in Slot /\ container[s] \in Container
  BY DEF ProcInv, TypeOK
<1>c. PICK c \in Container : c = container[s]
  BY <1>0, ZenonT(30)
<1>1. \A d \in Container : LocalHolders(d)' = LocalHolders(d) \ {s}
  BY <1>0 DEF LocalHolders, TypeOK, GivesLocalPid
<1>2. s \in LocalHolders(c) /\ \A d \in Container : LocalHolders(d) \subseteq Slot
  BY <1>0, <1>c DEF LocalHolders
<1>3. /\ pids[c] \in Seq(Pid) /\ Distinct(pids[c]) /\ localpid[s] \in Pid
      /\ localpid[s] \notin Elems(pids[c])
  BY <1>0, <1>2 DEF TypeOK, LocalPidsDistinct
<1> DEFINE pool == <<localpid[s]>> \o pids[c]
<1>4. /\ pool \in Seq(Pid) /\ Distinct(pool) /\ Elems(pool) = Elems(pids[c]) \cup {localpid[s]}
  BY <1>3, ConsList, ZenonT(30)
<1>5. pids' = [pids EXCEPT ![c] = pool]
  BY <1>0, <1>c DEF TypeOK, GivesLocalPid
<1> HIDE DEF pool
<1>6. /\ pids' \in [Container -> Seq(Pid)] /\ pids'[c] = pool
      /\ \A d \in Container \ {c} : pids'[d] = pids[d]
  BY <1>0, <1>4, <1>5 DEF TypeOK
<1>7. \A u \in Slot \ {s} : localpid'[u] = localpid[u]
  BY <1>0 DEF TypeOK, GivesLocalPid
<1>8. ASSUME NEW d \in Container
      PROVE  /\ \A u, v \in LocalHolders(d)' : localpid'[u] = localpid'[v] => u = v
             /\ \A u \in LocalHolders(d)' : localpid'[u] \notin Elems(pids'[d])
             /\ Distinct(pids'[d])
  <2>1. \A u, v \in LocalHolders(d)' : localpid'[u] = localpid'[v] => u = v
    BY <1>0, <1>1, <1>2, <1>7 DEF LocalPidsDistinct
  <2>2. CASE d = c
    <3>1. \A u \in LocalHolders(c) \ {s} : /\ localpid'[u] = localpid[u]
                                           /\ localpid[u] # localpid[s]
                                           /\ localpid[u] \notin Elems(pids[c])
      BY <1>0, <1>2, <1>7 DEF LocalPidsDistinct
    <3>2. LocalHolders(d)' = LocalHolders(c) \ {s}
      BY <1>1, <2>2
    <3>3. /\ Elems(pids'[d]) = Elems(pids[c]) \cup {localpid[s]}
          /\ Distinct(pids'[d])
      BY <1>4, <1>6, <2>2
    <3> QED
      BY <2>1, <3>1, <3>2, <3>3
  <2>3. CASE d # c
    <3>1. \A u \in LocalHolders(d) \ {s} : /\ localpid'[u] = localpid[u]
                                           /\ localpid[u] \notin Elems(pids[d])
      BY <1>0, <1>2, <1>7 DEF LocalPidsDistinct
    <3> QED
      BY <1>0, <1>1, <1>6, <2>1, <2>3, <3>1 DEF LocalPidsDistinct
  <2> QED
    BY <2>2, <2>3
<1>9. LocalPidsDistinct'
  BY <1>8 DEF LocalPidsDistinct
<1> QED
  BY <1>6, <1>9

\* The tree and the counts without the reaped child.
Unlinks(t, i, s) ==
    /\ children' = [children EXCEPT ![t] = Without(@, i)]
    /\ parent' = [parent EXCEPT ![s] = None]
    /\ allocated' = allocated \ {s} /\ state' = state /\ childexit' = childexit
    /\ pc' = [pc EXCEPT ![t] = "run"]

\* Reaping the first zombie keeps the tree, and the unit that wait took of
\* childexit was the one of this child.
LEMMA ReapTree ==
    ASSUME CountingLaws, ProcInv, NEW t \in Slot, WaitReap(t), NEW i,
           i = FirstZombie(children[t]),
           NEW s, s = children[t][i], Unlinks(t, i, s)
    PROVE  TreeConsistent' /\ ChildexitExact' /\ children' \in [Slot -> Seq(Slot)]
<1>0. /\ TypeOK /\ TreeConsistent /\ ChildexitExact /\ allocated \subseteq Slot
      /\ None \notin Slot
  BY ProcessAssumption, ZenonT(30) DEF ProcInv, TypeOK
<1>1. /\ t \in Live /\ t \in allocated /\ pc[t] = "wait_reap"
      /\ i \in DOMAIN children[t] /\ s \in Elems(children[t]) /\ s \in allocated
      /\ s \in Slot /\ s # t /\ parent[s] = t /\ state[s] = "ZOMBIE"
  BY ReapedChild
<1> DEFINE rest == Without(children[t], i)
<1>2. children[t] \in Seq(Slot) /\ Distinct(children[t])
  BY <1>0, <1>1 DEF TypeOK, TreeConsistent
<1>3. rest \in Seq(Slot) /\ Distinct(rest) /\ Elems(rest) = Elems(children[t]) \ {s}
  BY <1>1, <1>2, WithoutList, ZenonT(30)
<1>4. children' = [children EXCEPT ![t] = rest]
  BY <1>0 DEF TypeOK, Unlinks
<1> HIDE DEF rest
<1>5. /\ children' \in [Slot -> Seq(Slot)] /\ children'[t] = rest
      /\ \A u \in Slot \ {t} : children'[u] = children[u]
  BY <1>0, <1>3, <1>4 DEF TypeOK
<1>6. /\ \A u \in Slot \ {s} : parent'[u] = parent[u]
      /\ pc'[t] = "run" /\ \A u \in Slot \ {t} : pc'[u] = pc[u]
  BY <1>0 DEF TypeOK, Unlinks
<1>z. allocated' = allocated \ {s} /\ state' = state /\ childexit' = childexit
  BY DEF Unlinks
<1>7. \A u \in allocated \ {t} : s \notin Elems(children[u])
  BY <1>0, <1>1 DEF TreeConsistent
<1>8. TreeConsistent'
  <2>1. ASSUME NEW p \in allocated \ {s}, NEW u \in Slot
        PROVE  u \in Elems(children'[p]) <=> /\ u \in allocated \ {s} /\ u # RootProc
                                             /\ parent'[u] = p
    <3>1. u \in Elems(children'[p]) <=> u # s /\ u \in Elems(children[p])
      <4>1. CASE p = t
        BY <1>3, <1>5, <4>1
      <4>2. CASE p # t
        BY <1>0, <1>5, <1>7, <4>2
      <4> QED
        BY <4>1, <4>2
    <3>2. CASE u = s
      BY <3>1, <3>2
    <3>3. CASE u # s
      BY <1>0, <1>6, <3>1, <3>3, ZenonT(30) DEF TreeConsistent
    <3> QED
      BY <3>2, <3>3
  <2>2. ASSUME NEW p \in allocated \ {s}
        PROVE  Distinct(children'[p]) /\ (state[p] = "ZOMBIE" => children'[p] = <<>>)
    <3>1. CASE p = t
      BY <1>1, <1>3, <1>5, <3>1 DEF Live
    <3>2. CASE p # t
      BY <1>0, <1>5, <3>2, ZenonT(30) DEF TreeConsistent, IsZombie
    <3> QED
      BY <3>1, <3>2, ZenonT(30)
  <2> QED
    BY <1>z, <2>1, <2>2 DEF TreeConsistent, IsZombie
<1>9. ChildexitExact'
  <2>1. Live' = Live
    BY <1>1, <1>z, ZenonT(30) DEF Live
  <2>2. ASSUME NEW u \in Live
        PROVE  (childexit[u] + (IF pc[u] = "wait_reap" THEN 1 ELSE 0)
                 = Zombies(children[u]))'
    <3>0. u \in Slot /\ childexit[u] \in Nat
      BY <1>0, ZenonT(30) DEF Live, TypeOK
    <3>1. CASE u = t
      <4> DEFINE old == ZombieSet(state, children[t])
                 new == ZombieSet(state', children'[t])
      <4>1. /\ Zombies(children[t]) = Cardinality(old)
            /\ Zombies(children[t])' = Cardinality(new) /\ IsFiniteSet(old)
        BY <1>2, <1>3, <1>5, ZombieNumbers, ZenonT(30)
      <4>2. new = old \ {s} /\ s \in old
        BY <1>1, <1>3, <1>5, <1>z DEF ZombieSet
      <4>3. Cardinality(old) \in Nat
        BY <4>1 DEF CountingLaws, SizeLaws
      <4> HIDE DEF old, new
      <4>4. Cardinality(new) = Cardinality(old) - 1
        BY <4>1, <4>2, ZenonT(30) DEF CountingLaws, ChangeLaws
      <4>5. childexit[t] + 1 = Cardinality(old)
        BY <1>0, <1>1, <4>1, ZenonT(30) DEF ChildexitExact
      <4>6. childexit'[t] = childexit[t] /\ pc'[t] # "wait_reap"
        BY <1>6, <1>z
      <4>7. childexit[t] = Cardinality(new)
        BY <3>0, <3>1, <4>3, <4>4, <4>5
      <4> QED
        BY <3>0, <3>1, <4>1, <4>6, <4>7
    <3>2. CASE u # t
      <4>1. children'[u] = children[u] /\ children[u] \in Seq(Slot) /\ pc'[u] = pc[u]
        BY <1>0, <1>5, <1>6, <3>0, <3>2, ZenonT(30) DEF TypeOK
      <4>2. Zombies(children[u])' = Zombies(children[u])
        BY <1>z, <4>1, ZombiesSame
      <4> QED
        BY <1>0, <1>z, <4>1, <4>2 DEF ChildexitExact
    <3> QED
      BY <3>1, <3>2
  <2> QED
    BY <2>1, <2>2, ZenonT(30) DEF ChildexitExact
<1> QED
  BY <1>5, <1>8, <1>9

\* wait() past the semaphore.
LEMMA ReapInv ==
    ASSUME CountingLaws, ProcInv, NEW t \in Slot, WaitReap(t)
    PROVE  ProcInv'
<1>i. PICK i : i = FirstZombie(children[t])
  OBVIOUS
<1>s. PICK s : s = children[t][i]
  OBVIOUS
<1>0. /\ TypeOK /\ RootInv /\ ControlInv /\ ContainerInv /\ MakingInv /\ ParentInv
      /\ LoopInv /\ PidPool /\ WaitFindsZombie
      /\ None \notin Slot /\ allocated \subseteq Slot /\ Live \subseteq allocated
      /\ RootContainer \in Container
  BY ProcessAssumption, ZenonT(30) DEF ProcInv, TypeOK, Live
<1>1. /\ t \in Live /\ t \in allocated /\ pc[t] = "wait_reap"
      /\ Zombies(children[t]) > 0
      /\ s \in allocated /\ s \in Slot /\ s # t /\ s # RootProc /\ parent[s] = t
      /\ state[s] = "ZOMBIE" /\ pc[s] = "run"
  <2>1. t \in Live /\ t \in allocated /\ pc[t] = "wait_reap"
    BY <1>i, <1>s, ReapedChild
  <2>z. Zombies(children[t]) > 0
    BY <1>i, <1>s, ReapedChild
  <2>2. /\ s \in allocated /\ s \in Slot /\ s # t /\ s # RootProc /\ parent[s] = t
        /\ state[s] = "ZOMBIE" /\ pc[s] = "run"
    BY <1>i, <1>s, ReapedChild
  <2> QED
    BY <2>1, <2>2, <2>z, ZenonT(30)
<1>2. /\ s \notin Live /\ s \notin Making
      /\ \A u \in Making : target[u] # s
      /\ \A c \in Container : rootproc[c] # s
      /\ \A u \in allocated : parent[u] # s
  BY <1>1, ReapedAlone
<1>3. /\ pids' = [pids EXCEPT ![container[s]] = <<localpid[s]>> \o @]
      /\ children' = [children EXCEPT ![t] = Without(@, i)]
      /\ allocated' = allocated \ {s} /\ parent' = [parent EXCEPT ![s] = None]
      /\ container' = [container EXCEPT ![s] = RootContainer]
      /\ localpid' = [localpid EXCEPT ![s] = 0]
  BY <1>i, <1>s, <1>1, ZenonT(30) DEF WaitReap, Freed, ReturnPid, ReapedPid
<1>4. /\ killed' = [killed EXCEPT ![s] = FALSE] /\ pid' = [pid EXCEPT ![s] = 0]
      /\ pc' = [pc EXCEPT ![t] = "run"]
      /\ state' = state /\ childexit' = childexit /\ global_pids' = global_pids
      /\ rootproc' = rootproc /\ target' = target /\ panic' = panic
  BY <1>i, <1>s, <1>1 DEF WaitReap, Freed, Goto
<1>5. /\ pc' \in [Slot -> PC] /\ pc'[t] = "run" /\ \A u \in Slot \ {t} : pc'[u] = pc[u]
  BY <1>0, <1>4 DEF TypeOK, PC
<1>6. TreeConsistent' /\ ChildexitExact' /\ children' \in [Slot -> Seq(Slot)]
  <2>1. Unlinks(t, i, s)
    BY <1>3, <1>4 DEF Unlinks
  <2> QED
    BY <1>i, <1>s, <2>1, ReapTree
<1>7. LocalPidsDistinct' /\ pids' \in [Container -> Seq(Pid)]
  <2>1. \A u \in Slot : (pc'[u] = "unstarted") <=> (pc[u] = "unstarted")
    BY <1>1, <1>5, ZenonT(30)
  <2> QED
    <3>1. GivesLocalPid(s)
      BY <1>3, <2>1 DEF GivesLocalPid
    <3> QED
      BY <1>1, <3>1, ReapLocalPids, ZenonT(30)
<1>8. /\ parent' \in [Slot -> Slot \cup {None}] /\ parent'[s] = None
      /\ \A u \in Slot \ {s} : parent'[u] = parent[u]
      /\ container' \in [Slot -> Container]
      /\ \A u \in Slot \ {s} : container'[u] = container[u]
  BY <1>0, <1>1, <1>3 DEF TypeOK
<1>9. /\ killed' \in [Slot -> BOOLEAN] /\ 0 \in Pid
      /\ localpid' \in [Slot -> Pid] /\ pid' \in [Slot -> Pid]
      /\ \A u \in Slot \ {s} : pid'[u] = pid[u]
  <2>1. 0 \in Pid
    BY ProcessAssumption DEF Pid
  <2>2. killed' \in [Slot -> BOOLEAN]
    BY <1>0, <1>4, ZenonT(30) DEF TypeOK
  <2>3. localpid' \in [Slot -> Pid]
    BY <1>0, <1>3, <2>1, ZenonT(30) DEF TypeOK
  <2>4. pid' \in [Slot -> Pid] /\ \A u \in Slot \ {s} : pid'[u] = pid[u]
    BY <1>0, <1>4, <2>1, ZenonT(30) DEF TypeOK
  <2> QED
    BY <2>1, <2>2, <2>3, <2>4
<1>10. Live' = Live /\ Making' = Making
  BY <1>0, <1>1, <1>2, <1>3, <1>4, <1>5, ZenonT(30) DEF Live, Making
<1>11. TypeOK'
  BY <1>0, <1>3, <1>4, <1>5, <1>6, <1>7, <1>8, <1>9, ZenonT(30) DEF TypeOK
<1>12. RootInv' /\ WaitFindsZombie'
  BY <1>0, <1>1, <1>4, <1>5, <1>8, <1>10 DEF RootInv, WaitFindsZombie
<1>13. ControlInv'
  BY <1>0, <1>1, <1>3, <1>4, <1>5, <1>10, ZenonT(30) DEF ControlInv, IsZombie
<1>14. ContainerInv'
  BY <1>0, <1>2, <1>3, <1>4, <1>8, <1>10, ZenonT(30) DEF ContainerInv
<1>15. MakingInv'
  <2>1. ASSUME NEW u \in Making
        PROVE  /\ u \in Slot /\ u # s /\ u # t /\ target[u] \in allocated \ {s}
               /\ target[u] \in Slot /\ target[u] # t
    BY <1>0, <1>1, <1>2 DEF MakingInv, Making
  <2>2. \A u \in Making :
           /\ pc'[u] = pc[u] /\ pc'[target[u]] = pc[target[u]]
           /\ parent'[target[u]] = parent[target[u]]
           /\ container'[u] = container[u]
           /\ container'[target[u]] = container[target[u]]
           /\ target[u] \in allocated'
    BY <1>3, <1>5, <1>8, <2>1, ZenonT(30)
  <2>3. rootproc' = rootproc /\ target' = target
    BY <1>4, ZenonT(30)
  <2>4. \A u \in Making :
           /\ target[u] \in allocated' /\ pc'[target[u]] = "unstarted"
           /\ parent'[target[u]] \in {None, u}
    BY <1>0, <2>2 DEF MakingInv
  <2>5. \A u, v \in Making : target[u] = target[v] => u = v
    BY <1>0, ZenonT(30) DEF MakingInv
  <2>6. \A u \in Making : pc'[u] = "created" =>
           \A c \in Container : rootproc[c] # target[u]
    BY <1>0, <2>2, ZenonT(30) DEF MakingInv
  <2>7. \A u \in Making : pc'[u] # "created" =>
           /\ rootproc[container'[target[u]]] = target[u]
           /\ container'[u] # container'[target[u]]
    BY <1>0, <2>2 DEF MakingInv
  <2>8. \A u \in Making : /\ pc'[u] = "cont_start" => parent'[target[u]] = u
                          /\ pc'[u] = "cont_parent" => parent'[target[u]] = None
    BY <1>0, <2>2 DEF MakingInv
  <2> QED
    BY <1>10, <2>3, <2>4, <2>5, <2>6, <2>7, <2>8, ZenonT(30) DEF MakingInv
<1>16. ParentInv'
  <2> SUFFICES ASSUME NEW u \in allocated \ {s}
               PROVE  /\ pc'[u] # "unstarted" => parent'[u] # None
                      /\ parent'[u] # None => parent'[u] \in Live
    BY <1>3, <1>10, ZenonT(30) DEF ParentInv
  <2>1. u \in Slot /\ parent'[u] = parent[u]
    BY <1>0, <1>8, ZenonT(30)
  <2>2. pc'[u] # "unstarted" => pc[u] # "unstarted"
    BY <1>1, <1>5, <2>1
  <2> QED
    BY <1>0, <2>1, <2>2 DEF ParentInv
<1>17. LoopInv'
  <2>1. \A u \in allocated \ {s, RootProc} : parent'[u] # u
    BY <1>0, <1>8, ZenonT(30) DEF LoopInv
  <2>2. ASSUME NEW c \in Container \ {RootContainer},
               rootproc[c] # None, parent'[rootproc[c]] # None
        PROVE  container'[parent'[rootproc[c]]] # c
    <3>1. rootproc[c] \in allocated /\ rootproc[c] # s
      BY <1>0, <1>2, <2>2 DEF ContainerInv
    <3>2. /\ parent'[rootproc[c]] = parent[rootproc[c]] /\ parent[rootproc[c]] # s
      BY <1>0, <1>2, <1>8, <3>1, ZenonT(30)
    <3>3. parent[rootproc[c]] \in Slot
      BY <1>0, <2>2, <3>1, <3>2 DEF ParentInv
    <3> QED
      BY <1>0, <1>8, <2>2, <3>2, <3>3, ZenonT(30) DEF LoopInv
  <2>3. ASSUME NEW u \in allocated \ {s}, pc'[u] = "unstarted",
               \A c \in Container : rootproc[c] # u
        PROVE  children'[u] = <<>>
    <3>1. u # t /\ u \in Slot /\ pc[u] = "unstarted"
      BY <1>0, <1>5, <2>3, ZenonT(30)
    <3>2. children'[u] = children[u]
      BY <1>0, <1>3, <3>1, ZenonT(30) DEF TypeOK
    <3> QED
      BY <1>0, <2>3, <3>1, <3>2 DEF LoopInv
  <2> QED
    BY <1>3, <1>4, <2>1, <2>2, <2>3, ZenonT(30) DEF LoopInv
<1>18. PidPool'
  BY <1>0, <1>2, <1>4, <1>9, <1>10 DEF PidPool
<1> QED
  BY <1>6, <1>7, <1>11, <1>12, <1>13, <1>14, <1>15, <1>16, <1>17, <1>18
     DEF ProcInv

-----------------------------------------------------------------------------
(***************************************************************************)
(* The theorems.                                                           *)
(***************************************************************************)

\* Every step preserves the invariant.
LEMMA NextProcInv ==
    ASSUME CountingLaws, ProcInv, [Next]_vars
    PROVE  ProcInv'
<1>1. CASE Next
  <2>1. PICK t \in Slot :
           \/ \E s \in Slot : CreateProc(t, s)
           \/ \E s \in Slot, c \in Container : CreateContainer(t, s, c)
           \/ SetParentToThis(t) \/ SetContainerToThis(t) \/ StartProc(t)
           \/ RunUnstarted(t)
           \/ ExitRoot(t) \/ Exit(t)
           \/ WaitStart(t) \/ WaitGranted(t) \/ WaitInterrupted(t)
           \/ WaitReap(t)
           \/ \E id \in KillIds : Kill(t, id)
           \/ KillAlert(t)
    BY <1>1 DEF Next
  <2>2. CASE \/ \E s \in Slot : CreateProc(t, s)
             \/ \E s \in Slot, c \in Container : CreateContainer(t, s, c)
    BY <2>2, CreateInv
  <2>3. CASE SetParentToThis(t)
    BY <2>3, SetParentInv
  <2>4. CASE SetContainerToThis(t)
    BY <2>4, SetContainerInv
  <2>5. CASE StartProc(t)
    BY <2>5, StartInv
  <2>6. CASE Exit(t)
    BY <2>6, ExitInv
  <2>7. CASE WaitReap(t)
    BY <2>7, ReapInv
  <2>8. CASE \/ RunUnstarted(t) \/ ExitRoot(t) \/ WaitStart(t) \/ WaitGranted(t)
             \/ WaitInterrupted(t) \/ KillAlert(t) \/ \E id \in KillIds : Kill(t, id)
    BY <2>8, QuietSteps
  <2> QED
    BY <2>1, <2>2, <2>3, <2>4, <2>5, <2>6, <2>7, <2>8
<1>2. CASE UNCHANGED vars
  <2>1. /\ allocated' = allocated /\ state' = state /\ killed' = killed
        /\ parent' = parent /\ children' = children /\ childexit' = childexit
        /\ pid' = pid /\ localpid' = localpid /\ global_pids' = global_pids
        /\ pids' = pids /\ container' = container /\ rootproc' = rootproc
        /\ pc' = pc /\ target' = target /\ panic' = panic
    BY <1>2 DEF vars, treeVars, pidVars, contVars
  <2>2. Live' = Live /\ Making' = Making
    BY <2>1 DEF Live, Making
  <2>3. \A c \in Container : LocalHolders(c)' = LocalHolders(c)
    BY <2>1 DEF LocalHolders
  <2>4. TypeOK' /\ RootInv' /\ ControlInv' /\ ContainerInv' /\ ParentInv'
    BY <2>1, <2>2, ZenonT(30)
       DEF ProcInv, TypeOK, RootInv, ControlInv, ContainerInv, ParentInv,
                      IsZombie
  <2>5. MakingInv' /\ LoopInv' /\ TreeConsistent'
    <3>1. MakingInv'
      BY <2>1, <2>2, ZenonT(30) DEF ProcInv, MakingInv
    <3>2. LoopInv'
      BY <2>1, ZenonT(30) DEF ProcInv, LoopInv
    <3>3. TreeConsistent'
      BY <2>1, ZenonT(30) DEF ProcInv, TreeConsistent, IsZombie
    <3> QED
      BY <3>1, <3>2, <3>3
  <2>6. PidPool' /\ LocalPidsDistinct'
    BY <2>1, <2>2, <2>3 DEF ProcInv, PidPool, LocalPidsDistinct
  <2>7. ChildexitExact' /\ WaitFindsZombie'
    BY <2>1, <2>2, ZenonT(30)
       DEF ProcInv, ChildexitExact, WaitFindsZombie, Zombies, IsZombie
  <2> QED
    BY <2>4, <2>5, <2>6, <2>7 DEF ProcInv
<1> QED
  BY <1>1, <1>2

-----------------------------------------------------------------------------
(***************************************************************************)
(* The main theorems.  The counting laws come from the library.            *)
(***************************************************************************)
Lib == INSTANCE FiniteSetTheorems

\* The library's sets and sizes are those of the lemmas.
LEMMA SameCount ==
    /\ \A S : IsFiniteSet(S) <=> Lib!IsFiniteSet(S)
    /\ \A S : Cardinality(S) = Lib!Cardinality(S)
<1>1. \A S : IsFiniteSet(S) <=> Lib!IsFiniteSet(S)
  BY DEF IsFiniteSet, Lib!IsFiniteSet
<1>2. \A S : Cardinality(S) = Lib!Cardinality(S)
  BY DEF Cardinality, Lib!Cardinality
<1> QED
  BY <1>1, <1>2

\* What the lemmas count with holds.
LEMMA CountingHolds == CountingLaws
<1>1. SizeLaws
  <2>1. IsFiniteSet({}) /\ Cardinality({}) = 0
    BY SameCount, Lib!FS_EmptySet
  <2>2. \A S : IsFiniteSet(S) =>
           Cardinality(S) \in Nat /\ (Cardinality(S) = 0 <=> S = {})
    <3> TAKE S
    <3> HAVE IsFiniteSet(S)
    <3>1. Cardinality(S) \in Nat
      BY SameCount, Lib!FS_CardinalityType
    <3>2. Cardinality(S) = 0 <=> S = {}
      BY SameCount, Lib!FS_EmptySet, ZenonT(30)
    <3> QED
      BY <3>1, <3>2
  <2> QED
    BY <2>1, <2>2 DEF SizeLaws
<1>2. ChangeLaws
  <2>1. \A S, x : IsFiniteSet(S) =>
           /\ IsFiniteSet(S \cup {x})
           /\ x \notin S => Cardinality(S \cup {x}) = Cardinality(S) + 1
           /\ IsFiniteSet(S \ {x})
           /\ x \in S => Cardinality(S \ {x}) = Cardinality(S) - 1
    <3> TAKE S, x
    <3> HAVE IsFiniteSet(S)
    <3>1. /\ IsFiniteSet(S \cup {x})
          /\ x \notin S => Cardinality(S \cup {x}) = Cardinality(S) + 1
      BY SameCount, Lib!FS_AddElement
    <3>2. /\ IsFiniteSet(S \ {x})
          /\ x \in S => Cardinality(S \ {x}) = Cardinality(S) - 1
      BY SameCount, Lib!FS_RemoveElement
    <3> QED
      BY <3>1, <3>2
  <2>2. \A S, T : IsFiniteSet(S) /\ T \subseteq S => IsFiniteSet(T)
    BY SameCount, Lib!FS_Subset
  <2>3. \A S, T : IsFiniteSet(S) /\ IsFiniteSet(T) /\ S \cap T = {} =>
           /\ IsFiniteSet(S \cup T)
           /\ Cardinality(S \cup T) = Cardinality(S) + Cardinality(T)
    <3> TAKE S, T
    <3> HAVE IsFiniteSet(S) /\ IsFiniteSet(T) /\ S \cap T = {}
    <3>1. /\ IsFiniteSet(S \cup T)
          /\ Cardinality(S \cup T)
               = Cardinality(S) + Cardinality(T) - Cardinality(S \cap T)
      BY SameCount, Lib!FS_Union
    <3>2. Cardinality(S \cap T) = 0
      BY SameCount, Lib!FS_EmptySet
    <3>3. Cardinality(S) \in Nat /\ Cardinality(T) \in Nat
      BY SameCount, Lib!FS_CardinalityType, ZenonT(30)
    <3> QED
      BY <3>1, <3>2, <3>3
  <2> QED
    BY <2>1, <2>2, <2>3 DEF ChangeLaws
<1>3. NumberLaws
  <2>1. \A n \in Nat : IsFiniteSet(1 .. n) /\ Cardinality(1 .. n) = n
    BY SameCount, Lib!FS_Interval
  <2>2. \A S, T : \A f \in [S -> T] :
           /\ IsFiniteSet(S)
           /\ \A a, b \in S : f[a] = f[b] => a = b
           /\ \A y \in T : \E a \in S : f[a] = y
           => IsFiniteSet(T) /\ Cardinality(T) = Cardinality(S)
    <3> TAKE S, T
    <3> TAKE f \in [S -> T]
    <3> HAVE /\ IsFiniteSet(S)
             /\ \A a, b \in S : f[a] = f[b] => a = b
             /\ \A y \in T : \E a \in S : f[a] = y
    <3>1. f \in Lib!Bijection(S, T)
      BY DEF Lib!Bijection, Lib!Injection, Lib!Surjection, Lib!IsInjective
    <3>2. Lib!ExistsBijection(S, T)
      BY <3>1 DEF Lib!ExistsBijection
    <3> QED
      BY SameCount, <3>2, Lib!FS_Bijection
  <2>3. \A I \in SUBSET Nat : I # {} => \E m \in I : \A y \in I : m <= y
    <3> TAKE I \in SUBSET Nat
    <3> HAVE I # {}
    <3>1. PICK m \in I : \A y \in I : ~(<<y, m>> \in Lib!OpToRel(<, Nat))
      BY Lib!NatLessThanWellFounded, Lib!WFMin
    <3>2. \A y \in I : ~(y < m)
      BY <3>1, ZenonT(30) DEF Lib!OpToRel
    <3> QED
      BY <3>2
  <2> QED
    BY <2>1, <2>2, <2>3 DEF NumberLaws
<1> QED
  BY <1>1, <1>2, <1>3 DEF CountingLaws

\* The process table keeps ProcInv: every pointer, list, count and number of it
\* agrees with the others between any two critical sections of proc.c.
THEOREM ProcInvariant == Spec => []ProcInv
<1>1. Init => ProcInv
  BY CountingHolds, InitProcInv
<1>2. ProcInv /\ [Next]_vars => ProcInv'
  BY CountingHolds, NextProcInv
<1> QED
  BY <1>1, <1>2, PTL DEF Spec

\* The fields of every struct proc keep their types, freed ones included.
THEOREM ProcTypeOK == Spec => []TypeOK
<1>1. ProcInv => TypeOK
  BY DEF ProcInv
<1> QED
  BY <1>1, ProcInvariant, PTL

\* The lists of children are the parent pointers read backwards, for any number
\* of processes and containers: create, start, exit (which merges the list of
\* children into that of the container's root process) and wait keep it so.
THEOREM ProcTreeConsistent == Spec => []TreeConsistent
<1>1. ProcInv => TreeConsistent
  BY DEF ProcInv
<1> QED
  BY <1>1, ProcInvariant, PTL

\* Of two processes in the tree with one global pid one has exited, a pid of a
\* process that has not is not free, and no pid is lost.
THEOREM ProcPidsDistinct == Spec => []PidsDistinct
<1>1. ProcInv => PidsDistinct
  BY DEF ProcInv, PidPool, PidsDistinct, Live, IsZombie
<1> QED
  BY <1>1, ProcInvariant, PTL

\* A local pid identifies one process of its container until that is reaped.
THEOREM ProcLocalPidsDistinct == Spec => []LocalPidsDistinct
<1>1. ProcInv => LocalPidsDistinct
  BY DEF ProcInv
<1> QED
  BY <1>1, ProcInvariant, PTL

\* childexit counts the zombies among the children, less the one about to be
\* reaped, although exit() hands zombies over from one parent to another.
THEOREM ProcChildexitExact == Spec => []ChildexitExact
<1>1. ProcInv => ChildexitExact
  BY DEF ProcInv
<1> QED
  BY <1>1, ProcInvariant, PTL

\* The PANIC at the end of wait() is out of reach.
THEOREM ProcWaitFindsZombie == Spec => []WaitFindsZombie
<1>1. ProcInv => WaitFindsZombie
  BY DEF ProcInv
<1> QED
  BY <1>1, ProcInvariant, PTL
=============================================================================
