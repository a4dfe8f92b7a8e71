---------------------------- MODULE ProcessLemmas ---------------------------
(***************************************************************************)
(* TLAPS proofs about Process, first part: the inductive invariant, the    *)
(* lists of pids and children, and that the initial state, the steps that  *)
(* leave the tree alone and a new parent keep the invariant.               *)
(***************************************************************************)
EXTENDS Process, Counting, TLAPS

\* A leaf that names no prover is tried by Z3 twice, by Zenon, and by Z3 again.
USE SMTT(10), Z3T(10), ZenonT(30), SMTT(30)

-----------------------------------------------------------------------------
(***************************************************************************)
(* The inductive invariant.                                                *)
(***************************************************************************)

\* root_proc runs for ever, and is the root of root_container.
RootInv ==
    /\ RootProc \in Live /\ pc[RootProc] # "unstarted"
    /\ parent[RootProc] = RootProc
    /\ rootproc[RootContainer] = RootProc

\* A process in the middle of an operation exists; exit() starts outside one.
ControlInv ==
    /\ \A t \in Slot : pc[t] \notin {"unstarted", "run"} => t \in Live
    /\ \A t \in allocated : IsZombie(t) => pc[t] = "run"
    /\ \A t \in Slot : pc[t] = "kill_alert" => target[t] \in Slot

\* A container in use has a root process that lives in it.
ContainerInv ==
    /\ \A c \in Container : rootproc[c] # None =>
          rootproc[c] \in Live /\ container[rootproc[c]] = c
    /\ \A s \in allocated : rootproc[container[s]] # None

\* A process that is being made belongs to its maker until it is started.
Making == {t \in Slot : pc[t] \in {"created", "cont_parent", "cont_start"}}
MakingInv ==
    /\ \A t \in Making :
          /\ target[t] \in allocated /\ pc[target[t]] = "unstarted"
          /\ parent[target[t]] \in {None, t}
    /\ \A t, u \in Making : target[t] = target[u] => t = u
    /\ \A t \in Making : pc[t] = "created" =>
          \A c \in Container : rootproc[c] # target[t]
    /\ \A t \in Making : pc[t] # "created" =>
          /\ rootproc[container[target[t]]] = target[t]
          /\ container[t] # container[target[t]]
    /\ \A t \in Making : pc[t] = "cont_start" => parent[target[t]] = t
    /\ \A t \in Making : pc[t] = "cont_parent" => parent[target[t]] = None

\* A started process has a parent, and a parent is not freed under its child.
ParentInv ==
    \A s \in allocated : /\ pc[s] # "unstarted" => parent[s] # None
                         /\ parent[s] # None => parent[s] \in Live

\* No process but root_proc is its own parent, because the root process of a
\* container has its parent in another one.
LoopInv ==
    /\ \A s \in allocated \ {RootProc} : parent[s] # s
    /\ \A c \in Container \ {RootContainer} :
          rootproc[c] # None /\ parent[rootproc[c]] # None =>
             container[parent[rootproc[c]]] # c
    /\ \A s \in allocated :
          pc[s] = "unstarted" /\ (\A c \in Container : rootproc[c] # s) =>
             children[s] = <<>>

\* PidsDistinct, in terms of the processes that have not exited.
PidPool ==
    /\ \A s, u \in Live : pid[s] = pid[u] => s = u
    /\ \A s \in Live : pid[s] \notin Elems(global_pids)
    /\ \A i \in Pid \ {0} :
          i \in Elems(global_pids) \/ \E s \in Live : pid[s] = i
    /\ Distinct(global_pids)

ProcInv ==
    /\ TypeOK /\ RootInv /\ ControlInv /\ ContainerInv /\ MakingInv /\ ParentInv
    /\ LoopInv /\ TreeConsistent /\ PidPool /\ LocalPidsDistinct
    /\ ChildexitExact /\ WaitFindsZombie

-----------------------------------------------------------------------------
(***************************************************************************)
(* Lists without repetitions: the pid pools and the children.              *)
(***************************************************************************)

\* The members of a list are of the type of the list.
LEMMA ElemsIn ==
    ASSUME NEW S, NEW seq \in Seq(S)
    PROVE  Elems(seq) \subseteq S
  BY DEF Elems

\* A number returned to a pool, or a child put in front of a list.
LEMMA ConsList ==
    ASSUME NEW S, NEW seq \in Seq(S), NEW x \in S
    PROVE  /\ <<x>> \o seq \in Seq(S) /\ <<x>> \o seq # <<>>
           /\ Elems(<<x>> \o seq) = Elems(seq) \cup {x}
           /\ Distinct(seq) /\ x \notin Elems(seq) => Distinct(<<x>> \o seq)
<1> DEFINE new == <<x>> \o seq
<1>1. /\ new \in Seq(S) /\ Len(new) = Len(seq) + 1 /\ Len(seq) \in Nat
      /\ DOMAIN new = 1 .. Len(seq) + 1 /\ DOMAIN seq = 1 .. Len(seq)
      /\ new[1] = x
      /\ \A i \in 2 .. Len(seq) + 1 : new[i] = seq[i - 1]
  OBVIOUS
<1>2. \A i \in DOMAIN seq : i + 1 \in 2 .. Len(seq) + 1 /\ new[i + 1] = seq[i]
  BY <1>1
<1> HIDE DEF new
<1>3. Elems(new) \subseteq Elems(seq) \cup {x}
  BY <1>1 DEF Elems
<1>4. Elems(seq) \cup {x} \subseteq Elems(new)
  BY <1>1, <1>2 DEF Elems
<1>5. ASSUME Distinct(seq), x \notin Elems(seq) PROVE Distinct(new)
  <2>1. \A i \in 2 .. Len(seq) + 1 : i - 1 \in DOMAIN seq /\ new[i] \in Elems(seq)
    BY <1>1 DEF Elems
  <2> SUFFICES ASSUME NEW i \in DOMAIN new, NEW j \in DOMAIN new,
                      new[i] = new[j]
               PROVE  i = j
    BY DEF Distinct
  <2>2. i \in 2 .. Len(seq) + 1 /\ j \in 2 .. Len(seq) + 1 => i - 1 = j - 1
    BY <1>1, <1>5, <2>1 DEF Distinct
  <2>3. i = 1 \/ j = 1 => i = 1 /\ j = 1
    BY <1>1, <1>5, <2>1
  <2> QED
    BY <1>1, <2>2, <2>3
<1>6. new # <<>>
  BY <1>1
<1> QED
  BY <1>1, <1>3, <1>4, <1>5, <1>6 DEF new

\* A number taken from a pool.
LEMMA TailList ==
    ASSUME NEW S, NEW seq \in Seq(S), seq # <<>>, Distinct(seq)
    PROVE  /\ Head(seq) \in S /\ Tail(seq) \in Seq(S)
           /\ Head(seq) \notin Elems(Tail(seq)) /\ Distinct(Tail(seq))
           /\ Elems(seq) = Elems(Tail(seq)) \cup {Head(seq)}
<1> DEFINE rest == Tail(seq)
           x == Head(seq)
<1>1. /\ rest \in Seq(S) /\ Len(rest) = Len(seq) - 1 /\ Len(seq) \in Nat
      /\ Len(seq) > 0
      /\ DOMAIN rest = 1 .. Len(seq) - 1 /\ DOMAIN seq = 1 .. Len(seq)
      /\ x = seq[1] /\ x \in S
      /\ \A i \in 1 .. Len(seq) - 1 : rest[i] = seq[i + 1]
  OBVIOUS
<1>2. \A i \in 2 .. Len(seq) : i - 1 \in DOMAIN rest /\ rest[i - 1] = seq[i]
  BY <1>1
<1> HIDE DEF rest, x
<1>3. x \notin Elems(rest)
  <2>1. ASSUME NEW i \in DOMAIN rest, rest[i] = x PROVE FALSE
    <3>1. i + 1 \in DOMAIN seq /\ 1 \in DOMAIN seq /\ i + 1 # 1
      BY <1>1
    <3>2. seq[i + 1] = seq[1]
      BY <1>1, <2>1
    <3> QED
      BY <3>1, <3>2 DEF Distinct
  <2> QED
    BY <2>1 DEF Elems
<1>4. Distinct(rest)
  <2> SUFFICES ASSUME NEW i \in DOMAIN rest, NEW j \in DOMAIN rest,
                      rest[i] = rest[j]
               PROVE  i = j
    BY DEF Distinct
  <2>1. i + 1 \in DOMAIN seq /\ j + 1 \in DOMAIN seq /\ seq[i + 1] = seq[j + 1]
    BY <1>1
  <2>2. i + 1 = j + 1
    BY <2>1 DEF Distinct
  <2> QED
    BY <1>1, <2>2
<1>5. Elems(seq) \subseteq Elems(rest) \cup {x}
  <2>1. \A i \in DOMAIN seq : i = 1 \/ i \in 2 .. Len(seq)
    BY <1>1
  <2>2. \A i \in 2 .. Len(seq) : seq[i] \in Elems(rest)
    BY <1>2 DEF Elems
  <2> QED
    BY <1>1, <2>1, <2>2 DEF Elems
<1>6. Elems(rest) \cup {x} \subseteq Elems(seq)
  BY <1>1 DEF Elems
<1> QED
  BY <1>1, <1>3, <1>4, <1>5, <1>6 DEF rest, x

\* Two lists one after the other.
LEMMA ConcatList ==
    ASSUME NEW S, NEW a \in Seq(S), NEW b \in Seq(S), Distinct(a), Distinct(b),
           Elems(a) \cap Elems(b) = {}
    PROVE  /\ a \o b \in Seq(S) /\ Distinct(a \o b)
           /\ Elems(a \o b) = Elems(a) \cup Elems(b)
<1> DEFINE new == a \o b
<1>1. /\ new \in Seq(S) /\ Len(a) \in Nat /\ Len(b) \in Nat
      /\ DOMAIN new = 1 .. Len(a) + Len(b)
      /\ DOMAIN a = 1 .. Len(a) /\ DOMAIN b = 1 .. Len(b)
      /\ \A i \in 1 .. Len(a) : new[i] = a[i]
      /\ \A i \in Len(a) + 1 .. Len(a) + Len(b) : new[i] = b[i - Len(a)]
  OBVIOUS
<1>2. \A i \in DOMAIN b : /\ Len(a) + i \in DOMAIN new
                          /\ new[Len(a) + i] = b[i]
  BY <1>1
<1> HIDE DEF new
<1>3. \A i \in DOMAIN new : \/ i \in DOMAIN a /\ new[i] = a[i]
                            \/ i - Len(a) \in DOMAIN b /\ new[i] = b[i - Len(a)]
  BY <1>1
<1>4. Elems(new) = Elems(a) \cup Elems(b)
  <2>1. Elems(new) \subseteq Elems(a) \cup Elems(b)
    BY <1>3 DEF Elems
  <2>2. Elems(a) \subseteq Elems(new)
    BY <1>1 DEF Elems
  <2>3. Elems(b) \subseteq Elems(new)
    BY <1>2 DEF Elems
  <2> QED
    BY <2>1, <2>2, <2>3
<1>5. Distinct(new)
  <2> SUFFICES ASSUME NEW i \in DOMAIN new, NEW j \in DOMAIN new,
                      new[i] = new[j]
               PROVE  i = j
    BY DEF Distinct
  <2>1. \A k \in DOMAIN a : a[k] \in Elems(a)
    BY DEF Elems
  <2>2. \A k \in DOMAIN b : b[k] \in Elems(b)
    BY DEF Elems
  <2>3. CASE i \in DOMAIN a /\ j \in DOMAIN a
    BY <1>1, <2>3 DEF Distinct
  <2>4. CASE i \notin DOMAIN a /\ j \notin DOMAIN a
    <3>1. i - Len(a) = j - Len(a)
      BY <1>1, <1>3, <2>4 DEF Distinct
    <3> QED
      BY <1>1, <3>1
  <2>5. ASSUME NEW k \in DOMAIN new, NEW m \in DOMAIN new,
               k \in DOMAIN a, m \notin DOMAIN a
        PROVE  new[k] # new[m]
    BY <1>1, <1>3, <2>1, <2>2, <2>5
  <2> QED
    BY <2>3, <2>4, <2>5
<1> QED
  BY <1>1, <1>4, <1>5 DEF new

\* The list of the root process after exit() has merged children into it.
LEMMA MergeList ==
    ASSUME NEW rs \in Seq(Slot), NEW cs \in Seq(Slot), Distinct(rs),
           Distinct(cs),
           Elems(rs) \cap Elems(cs) = {}
    PROVE  /\ MergeChildren(rs, cs) \in Seq(Slot)
           /\ Distinct(MergeChildren(rs, cs))
           /\ Elems(MergeChildren(rs, cs)) = Elems(rs) \cup Elems(cs)
<1>1. CASE cs = <<>>
  <2>1. Elems(cs) = {}
    BY <1>1 DEF Elems
  <2> QED
    BY <1>1, <2>1 DEF MergeChildren
<1>2. CASE cs # <<>>
  <2> DEFINE x == Head(cs)
             rest == Tail(cs)
  <2>1. /\ x \in Slot /\ rest \in Seq(Slot) /\ x \notin Elems(rest)
        /\ Distinct(rest) /\ Elems(cs) = Elems(rest) \cup {x}
    BY <1>2, TailList
  <2> DEFINE last == <<x>>
             front == rs \o rest
  <2>2. last \in Seq(Slot) /\ Distinct(last) /\ Elems(last) = {x}
    <3>1. x \in Slot
      BY <2>1
    <3> HIDE DEF x
    <3> QED
      BY <3>1 DEF Distinct, Elems
  <2>3. MergeChildren(rs, cs) = front \o last
    BY <1>2 DEF MergeChildren
  <2>4. Elems(rs) \cap Elems(rest) = {}
    BY <2>1
  <2> HIDE DEF x, rest, last
  <2>5. /\ front \in Seq(Slot) /\ Distinct(front)
        /\ Elems(front) = Elems(rs) \cup Elems(rest)
    BY <2>1, <2>4, ConcatList
  <2> HIDE DEF front
  <2>6. Elems(front) \cap Elems(last) = {}
    BY <2>1, <2>2, <2>5
  <2>7. /\ front \o last \in Seq(Slot) /\ Distinct(front \o last)
        /\ Elems(front \o last) = Elems(front) \cup Elems(last)
    BY <2>2, <2>5, <2>6, ConcatList
  <2> QED
    BY <2>1, <2>2, <2>3, <2>5, <2>7
<1> QED
  BY <1>1, <1>2

\* A part of a list without repetitions.
LEMMA SubList ==
    ASSUME NEW S, NEW seq \in Seq(S), Distinct(seq),
           NEW m \in 1 .. Len(seq) + 1,
           NEW n \in 0 .. Len(seq)
    PROVE  /\ SubSeq(seq, m, n) \in Seq(S) /\ Distinct(SubSeq(seq, m, n))
           /\ Elems(SubSeq(seq, m, n)) = {seq[k] : k \in m .. n}
<1> DEFINE sub == SubSeq(seq, m, n)
<1>1. /\ Len(seq) \in Nat /\ DOMAIN seq = 1 .. Len(seq)
      /\ m \in Nat /\ n \in Nat /\ m > 0 /\ n <= Len(seq)
      /\ sub \in Seq(S)
      /\ DOMAIN sub = 1 .. n - m + 1
      /\ \A i \in 1 .. n - m + 1 : sub[i] = seq[m + i - 1]
  OBVIOUS
<1> HIDE DEF sub
<1>2. \A k \in m .. n : /\ k \in DOMAIN seq /\ k - m + 1 \in DOMAIN sub
                        /\ sub[k - m + 1] = seq[k]
  BY <1>1
<1>3. \A i \in DOMAIN sub : m + i - 1 \in m .. n /\ m + i - 1 \in DOMAIN seq
  BY <1>1
<1>4. Distinct(sub)
  <2> SUFFICES ASSUME NEW i \in DOMAIN sub, NEW j \in DOMAIN sub,
                      sub[i] = sub[j]
               PROVE  i = j
    BY DEF Distinct
  <2>1. m + i - 1 = m + j - 1
    BY <1>1, <1>3, ZenonT(30) DEF Distinct
  <2> QED
    BY <1>1, <2>1
<1>5. Elems(sub) = {seq[k] : k \in m .. n}
  <2>1. Elems(sub) \subseteq {seq[k] : k \in m .. n}
    BY <1>1, <1>3 DEF Elems
  <2>2. {seq[k] : k \in m .. n} \subseteq Elems(sub)
    BY <1>2 DEF Elems
  <2> QED
    BY <2>1, <2>2
<1> QED
  BY <1>1, <1>4, <1>5 DEF sub

\* The list after wait() has taken a child out of it.
LEMMA WithoutList ==
    ASSUME NEW seq \in Seq(Slot), Distinct(seq), NEW i \in DOMAIN seq
    PROVE  /\ Without(seq, i) \in Seq(Slot) /\ Distinct(Without(seq, i))
           /\ Elems(Without(seq, i)) = Elems(seq) \ {seq[i]}
<1> DEFINE a == SubSeq(seq, 1, i - 1)
           b == SubSeq(seq, i + 1, Len(seq))
<1>1. /\ Len(seq) \in Nat /\ DOMAIN seq = 1 .. Len(seq) /\ i \in 1 .. Len(seq)
      /\ 1 \in 1 .. Len(seq) + 1 /\ i - 1 \in 0 .. Len(seq)
      /\ i + 1 \in 1 .. Len(seq) + 1 /\ Len(seq) \in 0 .. Len(seq)
  OBVIOUS
<1>2. /\ a \in Seq(Slot) /\ Distinct(a)
      /\ Elems(a) = {seq[k] : k \in 1 .. i - 1}
  BY <1>1, SubList
<1>3. /\ b \in Seq(Slot) /\ Distinct(b)
      /\ Elems(b) = {seq[k] : k \in i + 1 .. Len(seq)}
  BY <1>1, SubList
<1>4. Without(seq, i) = a \o b
  BY DEF Without
<1> HIDE DEF a, b
<1>5. Elems(a) \cap Elems(b) = {}
  BY <1>1, <1>2, <1>3 DEF Distinct
<1>6. Elems(a) \cup Elems(b) = Elems(seq) \ {seq[i]}
  <2>1. \A k \in DOMAIN seq : k = i \/ k \in 1 .. i - 1 \/ k \in i + 1 .. Len(seq)
    BY <1>1
  <2>2. \A k \in 1 .. i - 1 : k \in DOMAIN seq /\ seq[k] # seq[i]
    BY <1>1 DEF Distinct
  <2>3. \A k \in i + 1 .. Len(seq) : k \in DOMAIN seq /\ seq[k] # seq[i]
    BY <1>1 DEF Distinct
  <2>4. Elems(seq) \ {seq[i]} \subseteq Elems(a) \cup Elems(b)
    BY <1>2, <1>3, <2>1, ZenonT(30) DEF Elems
  <2>5. Elems(a) \cup Elems(b) \subseteq Elems(seq) \ {seq[i]}
    BY <1>2, <1>3, <2>2, <2>3, ZenonT(30) DEF Elems
  <2> QED
    BY <2>4, <2>5
<1>7. /\ a \o b \in Seq(Slot) /\ Distinct(a \o b)
      /\ Elems(a \o b) = Elems(a) \cup Elems(b)
  <2>1. a \in Seq(Slot) /\ b \in Seq(Slot) /\ Distinct(a) /\ Distinct(b)
    BY <1>2, <1>3
  <2> QED
    BY <1>5, <2>1, ConcatList
<1> QED
  BY <1>4, <1>6, <1>7

\* The zombies of a list, as a set.
ZombieSet(st, seq) == {u \in Elems(seq) : st[u] = "ZOMBIE"}

\* In a list without repetitions, they are as many as their positions.
LEMMA ZombieCount ==
    ASSUME CountingLaws, NEW st, NEW seq \in Seq(Slot), Distinct(seq)
    PROVE  /\ IsFiniteSet(ZombieSet(st, seq))
           /\ Cardinality(ZombieSet(st, seq)) \in Nat
           /\ Cardinality({i \in DOMAIN seq : st[seq[i]] = "ZOMBIE"})
                = Cardinality(ZombieSet(st, seq))
<1> DEFINE I == {i \in DOMAIN seq : st[seq[i]] = "ZOMBIE"}
           Z == ZombieSet(st, seq)
           F == [i \in I |-> seq[i]]
<1>1. IsFiniteSet(I)
  <2>1. DOMAIN seq = 1 .. Len(seq) /\ Len(seq) \in Nat
    OBVIOUS
  <2>2. IsFiniteSet(1 .. Len(seq))
    BY <2>1 DEF CountingLaws, NumberLaws
  <2> QED
    BY <2>1, <2>2 DEF CountingLaws, ChangeLaws
<1>2. IsFiniteSet(Z) /\ Cardinality(Z) = Cardinality(I)
  <2>1. F \in [I -> Z]
    BY DEF ZombieSet, Elems
  <2>2. \A i, j \in I : F[i] = F[j] => i = j
    BY DEF Distinct
  <2>3. \A u \in Z : \E i \in I : F[i] = u
    BY DEF ZombieSet, Elems
  <2> HIDE DEF F, I, Z
  <2> QED
    BY <1>1, <2>1, <2>2, <2>3, ZenonT(30) DEF CountingLaws, NumberLaws
<1> HIDE DEF I, Z
<1>3. Cardinality(Z) \in Nat
  BY <1>2 DEF CountingLaws, SizeLaws
<1> QED
  BY <1>2, <1>3 DEF I, Z

\* wait() finds the first zombie of a list that has one.
LEMMA FirstZombieFound ==
    ASSUME CountingLaws, NEW seq \in Seq(Slot), NEW k \in DOMAIN seq,
           IsZombie(seq[k])
    PROVE  /\ FirstZombie(seq) \in DOMAIN seq
           /\ IsZombie(seq[FirstZombie(seq)])
<1> DEFINE I == {i \in DOMAIN seq : IsZombie(seq[i])}
<1>1. I \subseteq Nat /\ I # {}
  OBVIOUS
<1>2. PICK m \in I : \A y \in I : m <= y
  BY <1>1, ZenonT(30) DEF CountingLaws, NumberLaws
<1>3. \A j \in 1 .. m - 1 : ~IsZombie(seq[j])
  BY <1>1, <1>2
<1> QED
  BY <1>3 DEF FirstZombie

-----------------------------------------------------------------------------
(***************************************************************************)
(* The initial state, and steps that leave the tree and the pids alone.    *)
(***************************************************************************)

\* A pool with every number in it.
LEMMA FullPoolList ==
    /\ FullPool \in Seq(Pid) /\ Distinct(FullPool) /\ FullPool # <<>>
    /\ Len(FullPool) = PID_NUM
<1>1. PID_NUM \in Nat /\ PID_NUM >= 2
  BY ProcessAssumption
<1>2. /\ FullPool \in [1 .. PID_NUM -> Pid] /\ DOMAIN FullPool = 1 .. PID_NUM
      /\ \A i \in 1 .. PID_NUM : FullPool[i] = i - 1
  BY <1>1 DEF FullPool, Pid
<1>3. FullPool \in Seq(Pid) /\ Len(FullPool) = PID_NUM
  BY <1>1, <1>2
<1>4. Distinct(FullPool)
  BY <1>1, <1>2 DEF Distinct
<1> QED
  BY <1>1, <1>3, <1>4

\* Where a process can be outside the making of another one.
Plain == {"run", "wait_sem", "wait_reap", "kill_alert"}

\* Steps that change no list, no pid and no container, make nobody a zombie and
\* move processes between plain places only.
LEMMA QuietInv ==
    ASSUME ProcInv,
           UNCHANGED <<allocated, parent, children, pidVars, contVars>>,
           state' \in [Slot -> {"UNUSED", "ACTIVE", "ZOMBIE"}],
           \A s \in Slot : (state'[s] = "ZOMBIE") <=> (state[s] = "ZOMBIE"),
           killed' \in [Slot -> BOOLEAN], childexit' \in [Slot -> Nat],
           pc' \in [Slot -> PC], target' \in [Slot -> Slot \cup {None}],
           \A t \in Slot : \/ pc'[t] = pc[t]
                           \/ t \in Live /\ pc[t] \in Plain /\ pc'[t] \in Plain,
           \A t \in Making : target'[t] = target[t],
           \A t \in Slot : pc'[t] = "kill_alert" => target'[t] \in Slot,
           \A s \in Live :
              childexit'[s] + (IF pc'[s] = "wait_reap" THEN 1 ELSE 0)
                = childexit[s] + (IF pc[s] = "wait_reap" THEN 1 ELSE 0),
           panic' \in {"no", "unstarted", "exit"}
    PROVE  ProcInv'
<1>0. /\ TypeOK /\ RootInv /\ ControlInv /\ ContainerInv /\ MakingInv /\ ParentInv
      /\ LoopInv /\ TreeConsistent /\ PidPool /\ LocalPidsDistinct
      /\ ChildexitExact /\ WaitFindsZombie
  BY DEF ProcInv
<1>1. /\ allocated' = allocated /\ parent' = parent /\ children' = children
      /\ pid' = pid /\ localpid' = localpid /\ global_pids' = global_pids
      /\ pids' = pids /\ container' = container /\ rootproc' = rootproc
  BY DEF pidVars, contVars
<1>2. Live' = Live
  BY <1>0, <1>1 DEF Live, TypeOK
<1>3. \A t \in Slot : \/ pc'[t] = pc[t]
                      \/ /\ t \in Live /\ pc[t] # "unstarted" /\ pc'[t] # "unstarted"
                         /\ pc[t] \notin {"created", "cont_parent", "cont_start"}
                         /\ pc'[t] \notin {"created", "cont_parent", "cont_start"}
  BY DEF Plain
<1>4. \A t \in Slot : (pc'[t] = "unstarted") <=> (pc[t] = "unstarted")
  BY <1>3
<1>5. Making' = Making /\ \A t \in Making : pc'[t] = pc[t]
  BY <1>3 DEF Making
<1>6. allocated \subseteq Slot /\ RootProc \in Slot /\ None \notin Slot
  BY <1>0, ProcessAssumption DEF TypeOK
<1>7. TypeOK'
  BY <1>0, <1>1 DEF TypeOK
<1>8. RootInv'
  BY <1>0, <1>1, <1>2, <1>4, <1>6 DEF RootInv
<1>9. ControlInv'
  BY <1>0, <1>1, <1>2, <1>3, <1>6 DEF ControlInv, IsZombie, Live
<1>10. ContainerInv'
  BY <1>0, <1>1, <1>2 DEF ContainerInv
<1>11. MakingInv'
  <2>1. \A t \in Making : target[t] \in Slot
    BY <1>0, <1>6 DEF MakingInv
  <2> QED
    BY <1>0, <1>1, <1>4, <1>5, <2>1 DEF MakingInv
<1>12. ParentInv' /\ LoopInv'
  BY <1>0, <1>1, <1>2, <1>4, <1>6, ZenonT(30) DEF ParentInv, LoopInv
<1>13. TreeConsistent'
  BY <1>0, <1>1, <1>6, ZenonT(30) DEF TreeConsistent, IsZombie
<1>14. PidPool'
  BY <1>0, <1>1, <1>2 DEF PidPool
<1>15. LocalPidsDistinct'
  <2>1. \A c \in Container : LocalHolders(c)' = LocalHolders(c)
    BY <1>1, <1>4, <1>6 DEF LocalHolders
  <2> QED
    BY <1>0, <1>1, <2>1 DEF LocalPidsDistinct
<1>16. ChildexitExact'
  <2> SUFFICES ASSUME NEW s \in Live
               PROVE  childexit'[s] + (IF pc'[s] = "wait_reap" THEN 1 ELSE 0)
                        = Zombies(children[s])'
    BY <1>2 DEF ChildexitExact
  <2>1. s \in Slot /\ children[s] \in Seq(Slot)
    BY <1>0, <1>6 DEF Live, TypeOK
  <2>2. \A i \in DOMAIN children[s] : children[s][i] \in Slot
    BY <2>1
  <2>3. {i \in DOMAIN children'[s] : state'[children'[s][i]] = "ZOMBIE"}
          = {i \in DOMAIN children[s] : state[children[s][i]] = "ZOMBIE"}
    BY <1>1, <2>2
  <2>4. Zombies(children[s])' = Zombies(children[s])
    BY <2>3, ZenonT(30) DEF Zombies, IsZombie
  <2> QED
    BY <1>0, <2>4 DEF ChildexitExact
<1>17. WaitFindsZombie'
  BY DEF WaitFindsZombie
<1> QED
  BY <1>7, <1>8, <1>9, <1>10, <1>11, <1>12, <1>13, <1>14, <1>15, <1>16, <1>17
  DEF ProcInv

\* The boot code starts with the root process in the root container.
LEMMA InitProcInv ==
    ASSUME CountingLaws, Init
    PROVE  ProcInv
<1>0. /\ RootProc \in Slot /\ RootContainer \in Container /\ None \notin Slot
      /\ PID_NUM \in Nat /\ PID_NUM >= 2
  BY ProcessAssumption
<1>1. /\ allocated = {RootProc} /\ state[RootProc] = "ACTIVE"
      /\ pid[RootProc] = 1 /\ localpid[RootProc] = 0
      /\ parent[RootProc] = RootProc /\ container[RootProc] = RootContainer
      /\ children[RootProc] = <<>> /\ childexit[RootProc] = 0
      /\ pc[RootProc] = "run"
      /\ \A s \in Slot : pc[s] \in {"run", "unstarted"}
      /\ \A c \in Container : rootproc[c] # None => c = RootContainer
      /\ rootproc[RootContainer] = RootProc
  BY <1>0 DEF Init
<1>2. Live = {RootProc}
  BY <1>1 DEF Live
<1>3. /\ FullPool \in Seq(Pid) /\ Distinct(FullPool) /\ FullPool # <<>>
      /\ \A i \in 1 .. PID_NUM : FullPool[i] = i - 1
  BY <1>0, FullPoolList DEF FullPool
<1>4. /\ global_pids \in Seq(Pid) /\ Distinct(global_pids)
      /\ 1 \notin Elems(global_pids)
      /\ \A i \in Pid \ {0, 1} : i \in Elems(global_pids)
  <2>1. 3 \in 1 .. Len(FullPool) + 1 /\ PID_NUM \in 0 .. Len(FullPool)
    BY <1>0, FullPoolList
  <2>2. /\ global_pids \in Seq(Pid) /\ Distinct(global_pids)
        /\ Elems(global_pids) = {FullPool[k] : k \in 3 .. PID_NUM}
    BY <1>3, <2>1, SubList DEF Init
  <2>3. \A k \in 3 .. PID_NUM : FullPool[k] # 1
    BY <1>0, <1>3
  <2>4. \A i \in Pid \ {0, 1} : i + 1 \in 3 .. PID_NUM /\ FullPool[i + 1] = i
    BY <1>0, <1>3 DEF Pid
  <2> QED
    BY <2>2, <2>3, <2>4
<1>5. /\ Tail(FullPool) \in Seq(Pid) /\ Distinct(Tail(FullPool))
      /\ 0 \notin Elems(Tail(FullPool))
  <2>1. Head(FullPool) = 0
    BY <1>0, <1>3
  <2> QED
    BY <1>3, <2>1, TailList
<1>6. \A c \in Container : pids[c] \in Seq(Pid) /\ Distinct(pids[c])
  BY <1>3, <1>5 DEF Init, TakePid
<1>7. TypeOK
  <2>1. pids \in [Container -> Seq(Pid)]
    BY <1>6 DEF Init
  <2>2. pid \in [Slot -> Pid] /\ localpid \in [Slot -> Pid]
    BY <1>0 DEF Init, Pid
  <2>3. /\ state \in [Slot -> {"UNUSED", "ACTIVE", "ZOMBIE"}]
        /\ pc \in [Slot -> PC]
    BY DEF Init, PC
  <2>4. /\ killed \in [Slot -> BOOLEAN]
    BY DEF Init
  <2>5. /\ parent \in [Slot -> Slot \cup {None}]
        /\ target \in [Slot -> Slot \cup {None}]
        /\ container \in [Slot -> Container]
        /\ rootproc \in [Container -> Slot \cup {None}]
    BY <1>0 DEF Init
  <2>6. children \in [Slot -> Seq(Slot)] /\ childexit \in [Slot -> Nat]
    <3>1. <<>> \in Seq(Slot)
      OBVIOUS
    <3> QED
      BY <3>1 DEF Init
  <2>7. allocated \subseteq Slot /\ panic \in {"no", "unstarted", "exit", "wait"}
    BY <1>0 DEF Init
  <2> QED
    BY <1>4, <2>1, <2>2, <2>3, <2>4, <2>5, <2>6, <2>7 DEF TypeOK
<1>8. Making = {}
  BY <1>1 DEF Making
<1>9. Elems(children[RootProc]) = {}
  BY <1>1 DEF Elems
<1>10. RootInv /\ ControlInv /\ ContainerInv /\ ParentInv
  BY <1>0, <1>1, <1>2
  DEF RootInv, ControlInv, ContainerInv, ParentInv, IsZombie
<1>11. MakingInv
  BY <1>8 DEF MakingInv
<1>12. LoopInv
  BY <1>1 DEF LoopInv
<1>13. TreeConsistent
  BY <1>1, <1>9 DEF TreeConsistent, Distinct, IsZombie
<1>14. PidPool
  <2>1. \A i \in Pid \ {0} :
           i \in Elems(global_pids) \/ \E s \in Live : pid[s] = i
    BY <1>1, <1>2, <1>4
  <2> QED
    BY <1>1, <1>2, <1>4, <2>1 DEF PidPool
<1>15. LocalPidsDistinct
  <2>1. \A c \in Container : LocalHolders(c) \subseteq {RootProc}
    BY <1>1 DEF LocalHolders
  <2>2. \A c \in Container : RootProc \in LocalHolders(c) => c = RootContainer
    BY <1>1 DEF LocalHolders
  <2>3. 0 \notin Elems(pids[RootContainer])
    BY <1>0, <1>5 DEF Init, TakePid
  <2> QED
    BY <1>1, <1>6, <2>1, <2>2, <2>3 DEF LocalPidsDistinct
<1>16. ChildexitExact
  <2>1. {i \in DOMAIN children[RootProc] : IsZombie(children[RootProc][i])} = {}
    BY <1>1
  <2>2. Zombies(children[RootProc]) = 0
    BY <2>1 DEF Zombies, CountingLaws, SizeLaws
  <2> QED
    BY <1>1, <1>2, <2>2 DEF ChildexitExact
<1>17. WaitFindsZombie
  BY DEF Init, WaitFindsZombie
<1> QED
  BY <1>7, <1>10, <1>11, <1>12, <1>13, <1>14, <1>15, <1>16, <1>17 DEF ProcInv

\* A process that runs kernel code is alive.
LEMMA AtHolds ==
    ASSUME TypeOK, NEW t \in Slot, NEW l, At(t, l)
    PROVE  t \in Live /\ pc[t] = l /\ panic = "no"
  BY DEF At, Live

\* A panic, the steps of wait() up to the reaping, and kill().
LEMMA QuietSteps ==
    ASSUME ProcInv, NEW t \in Slot,
           \/ RunUnstarted(t) \/ ExitRoot(t) \/ WaitStart(t) \/ WaitGranted(t)
           \/ WaitInterrupted(t) \/ KillAlert(t) \/ \E id \in KillIds : Kill(t, id)
    PROVE  ProcInv'
<1>0. TypeOK /\ ControlInv /\ WaitFindsZombie
  BY DEF ProcInv
<1>1. UNCHANGED <<allocated, parent, children, pidVars, contVars>>
  BY DEF RunUnstarted, ExitRoot, WaitStart, WaitGranted, WaitInterrupted,
         KillAlert, Kill, treeVars
<1>2. ASSUME UNCHANGED <<state, killed, childexit, pc, target>>,
             panic' \in {"unstarted", "exit"}
      PROVE  ProcInv'
  <2>1. /\ state' = state /\ killed' = killed /\ childexit' = childexit
        /\ pc' = pc /\ target' = target
    BY <1>2
  <2> QED
    BY <1>0, <1>1, <1>2, <2>1, QuietInv DEF TypeOK, ControlInv
<1>3. CASE RunUnstarted(t) \/ ExitRoot(t)
  BY <1>2, <1>3, ZenonT(30) DEF RunUnstarted, ExitRoot, treeVars
<1>4. ASSUME NEW l \in Plain, pc[t] \in Plain, t \in Live, Goto(t, l),
             panic' = panic, panic = "no",
             state' \in [Slot -> {"UNUSED", "ACTIVE", "ZOMBIE"}],
             \A s \in Slot : (state'[s] = "ZOMBIE") <=> (state[s] = "ZOMBIE"),
             killed' \in [Slot -> BOOLEAN], childexit' \in [Slot -> Nat],
             NEW k \in Slot \cup {None}, target' = [target EXCEPT ![t] = k],
             l = "kill_alert" => k \in Slot,
             \A s \in Slot \ {t} : childexit'[s] = childexit[s],
             childexit'[t] + (IF l = "wait_reap" THEN 1 ELSE 0)
                = childexit[t] + (IF pc[t] = "wait_reap" THEN 1 ELSE 0)
      PROVE  ProcInv'
  <2>1. /\ pc' \in [Slot -> PC] /\ pc'[t] = l
        /\ \A s \in Slot \ {t} : pc'[s] = pc[s]
    BY <1>0, <1>4 DEF TypeOK, Goto, Plain, PC
  <2>2. /\ target' \in [Slot -> Slot \cup {None}] /\ target'[t] = k
        /\ \A s \in Slot \ {t} : target'[s] = target[s]
    BY <1>0, <1>4 DEF TypeOK
  <2>3. \A s \in Slot : \/ pc'[s] = pc[s]
                        \/ s \in Live /\ pc[s] \in Plain /\ pc'[s] \in Plain
    BY <1>4, <2>1, ZenonT(30)
  <2>4. \A s \in Making : target'[s] = target[s]
    BY <1>4, <2>2, ZenonT(30) DEF Making, Plain
  <2>5. \A s \in Slot : pc'[s] = "kill_alert" => target'[s] \in Slot
    <3>1. \A s \in Slot : pc[s] = "kill_alert" => target[s] \in Slot
      BY <1>0 DEF ControlInv
    <3> QED
      BY <1>4, <2>1, <2>2, <3>1
  <2>6. \A s \in Live :
           childexit'[s] + (IF pc'[s] = "wait_reap" THEN 1 ELSE 0)
             = childexit[s] + (IF pc[s] = "wait_reap" THEN 1 ELSE 0)
    BY <1>0, <1>4, <2>1, ZenonT(30) DEF Live, TypeOK
  <2>7. panic' \in {"no", "unstarted", "exit"}
    BY <1>4, ZenonT(30)
  <2> QED
    BY <1>1, <1>4, <2>1, <2>2, <2>3, <2>4, <2>5, <2>6, <2>7, QuietInv,
       ZenonT(30)
<1>5. target \in [Slot -> Slot \cup {None}] /\ target = [target EXCEPT ![t] = target[t]]
  BY <1>0 DEF TypeOK
<1>6. target[t] \in Slot \cup {None} /\ childexit[t] \in Nat
  BY <1>0 DEF TypeOK
<1>7. CASE WaitStart(t) \/ WaitInterrupted(t)
  <2>1. /\ state' = state /\ killed' = killed /\ childexit' = childexit
        /\ target' = target /\ panic' = panic
    BY <1>7, ZenonT(30) DEF WaitStart, WaitInterrupted, treeVars
  <2>2. PICK l \in {"wait_sem", "run"} : Goto(t, l)
    BY <1>7, ZenonT(30) DEF WaitStart, WaitInterrupted
  <2>3. t \in Live /\ pc[t] \in {"run", "wait_sem"} /\ panic = "no"
    BY <1>0, <1>7, AtHolds DEF WaitStart, WaitInterrupted
  <2>4. /\ l \in Plain /\ pc[t] \in Plain /\ l # "kill_alert"
        /\ l # "wait_reap" /\ pc[t] # "wait_reap"
    BY <2>3 DEF Plain
  <2> QED
    BY <1>0, <1>4, <1>5, <1>6, <2>1, <2>2, <2>3, <2>4, ZenonT(30) DEF TypeOK
<1>8. CASE WaitGranted(t)
  <2>1. /\ state' = state /\ killed' = killed /\ target' = target
        /\ panic' = panic /\ Goto(t, "wait_reap")
        /\ childexit' = [childexit EXCEPT ![t] = @ - 1] /\ childexit[t] > 0
    BY <1>8 DEF WaitGranted
  <2>2. t \in Live /\ pc[t] = "wait_sem" /\ panic = "no"
    BY <1>0, <1>8, AtHolds DEF WaitGranted
  <2>3. /\ childexit' \in [Slot -> Nat] /\ childexit'[t] = childexit[t] - 1
        /\ \A s \in Slot \ {t} : childexit'[s] = childexit[s]
    BY <1>0, <1>6, <2>1 DEF TypeOK
  <2>4. /\ "wait_reap" \in Plain /\ pc[t] \in Plain
        /\ "wait_reap" = "kill_alert" => target[t] \in Slot
    BY <2>2 DEF Plain
  <2>5. childexit'[t] + (IF "wait_reap" = "wait_reap" THEN 1 ELSE 0)
          = childexit[t] + (IF pc[t] = "wait_reap" THEN 1 ELSE 0)
    BY <1>6, <2>2, <2>3
  <2>6. /\ state' \in [Slot -> {"UNUSED", "ACTIVE", "ZOMBIE"}]
        /\ killed' \in [Slot -> BOOLEAN]
        /\ target' = [target EXCEPT ![t] = target[t]]
    BY <1>0, <1>5, <2>1 DEF TypeOK
  <2> QED
    BY <1>4, <1>6, <2>1, <2>2, <2>3, <2>4, <2>5, <2>6, ZenonT(30)
<1>9. CASE KillAlert(t)
  <2>1. /\ killed' = killed /\ childexit' = childexit /\ panic' = panic
        /\ Goto(t, "run") /\ target' = [target EXCEPT ![t] = None]
        /\ state' = [state EXCEPT ![target[t]] = IF @ = "UNUSED" THEN "ACTIVE" ELSE @]
    BY <1>9 DEF KillAlert, treeVars
  <2>2. t \in Live /\ pc[t] = "kill_alert" /\ panic = "no"
    BY <1>0, <1>9, AtHolds DEF KillAlert
  <2>3. /\ state' \in [Slot -> {"UNUSED", "ACTIVE", "ZOMBIE"}]
        /\ \A s \in Slot : (state'[s] = "ZOMBIE") <=> (state[s] = "ZOMBIE")
    BY <1>0, <2>1, ZenonT(30) DEF TypeOK
  <2>4. "run" \in Plain /\ pc[t] \in Plain /\ None \in Slot \cup {None}
    BY <2>2 DEF Plain
  <2> QED
    BY <1>0, <1>4, <2>1, <2>2, <2>3, <2>4, ZenonT(30) DEF TypeOK
<1>10. ASSUME NEW id \in KillIds, Kill(t, id) PROVE ProcInv'
  <2> DEFINE k == Dfs(id)
  <2>1. /\ k \in Slot /\ killed' = [killed EXCEPT ![k] = TRUE]
        /\ target' = [target EXCEPT ![t] = k] /\ Goto(t, "kill_alert")
        /\ state' = state /\ childexit' = childexit /\ panic' = panic
    BY <1>10 DEF Kill, treeVars
  <2>2. t \in Live /\ pc[t] = "run" /\ panic = "no"
    BY <1>0, <1>10, AtHolds DEF Kill
  <2> HIDE DEF k
  <2>3. killed' \in [Slot -> BOOLEAN]
    BY <1>0, <2>1 DEF TypeOK
  <2>4. "kill_alert" \in Plain /\ pc[t] \in Plain /\ k \in Slot \cup {None}
    BY <2>1, <2>2 DEF Plain
  <2> QED
    BY <1>0, <1>4, <2>1, <2>2, <2>3, <2>4, ZenonT(30) DEF TypeOK
<1> QED
  BY <1>3, <1>7, <1>8, <1>9, <1>10

-----------------------------------------------------------------------------
(***************************************************************************)
(* A process that is made, and gets a parent.                              *)
(***************************************************************************)

\* The zombies of a list are counted the same when no state in it changes.
LEMMA ZombiesSame ==
    ASSUME NEW s, children'[s] = children[s], children[s] \in Seq(Slot),
           \A u \in Elems(children[s]) :
              (state'[u] = "ZOMBIE") <=> (state[u] = "ZOMBIE")
    PROVE  Zombies(children[s])' = Zombies(children[s])
<1>1. \A i \in DOMAIN children[s] : children[s][i] \in Elems(children[s])
  BY DEF Elems
<1>2. {i \in DOMAIN children'[s] : state'[children'[s][i]] = "ZOMBIE"}
        = {i \in DOMAIN children[s] : state[children[s][i]] = "ZOMBIE"}
  BY <1>1
<1> QED
  BY <1>2, ZenonT(30) DEF Zombies, IsZombie

\* An empty list of children has no zombie.
LEMMA NoZombies ==
    ASSUME CountingLaws, NEW s, children[s]' = <<>>
    PROVE  Zombies(children[s])' = 0
<1>1. {i \in DOMAIN children'[s] : IsZombie(children[s][i])'} = {}
  OBVIOUS
<1> QED
  BY <1>1 DEF Zombies, CountingLaws, SizeLaws

\* A struct proc that is not in use appears nowhere.
LEMMA UnusedNowhere ==
    ASSUME ProcInv, NEW s \in Slot, s \notin allocated
    PROVE  /\ s \notin Live /\ s \notin Making /\ s # RootProc
           /\ \A u \in allocated : s \notin Elems(children[u]) /\ parent[u] # s
           /\ \A c \in Container : rootproc[c] # s
           /\ \A t \in Making : target[t] # s
<1>1. s \notin Live /\ s # RootProc
  BY DEF ProcInv, RootInv, Live
<1>2. s \notin Making
  BY <1>1 DEF ProcInv, ControlInv, Making
<1>3. \A u \in allocated : s \notin Elems(children[u])
  BY DEF ProcInv, TreeConsistent
<1>4. \A u \in allocated : parent[u] # s
  BY <1>1, ProcessAssumption DEF ProcInv, ParentInv
<1>5. \A c \in Container : rootproc[c] # s
  BY <1>1, ProcessAssumption DEF ProcInv, ContainerInv
<1>6. \A t \in Making : target[t] # s
  BY DEF ProcInv, MakingInv
<1> QED
  BY <1>1, <1>2, <1>3, <1>4, <1>5, <1>6

\* The new struct proc has left the pools in order.
LEMMA TakenPid ==
    ASSUME ProcInv, NEW s \in Slot, s \notin allocated, global_pids # <<>>
    PROVE  /\ Head(global_pids) \in Pid /\ Tail(global_pids) \in Seq(Pid)
           /\ Distinct(Tail(global_pids))
           /\ Head(global_pids) \notin Elems(Tail(global_pids))
           /\ Elems(global_pids) = Elems(Tail(global_pids)) \cup {Head(global_pids)}
           /\ \A u \in Live : /\ pid[u] # Head(global_pids)
                              /\ pid[u] \notin Elems(Tail(global_pids))
<1>1. global_pids \in Seq(Pid) /\ PidPool
  BY DEF ProcInv, TypeOK
<1>2. /\ Head(global_pids) \in Pid /\ Tail(global_pids) \in Seq(Pid)
      /\ Head(global_pids) \notin Elems(Tail(global_pids))
      /\ Distinct(Tail(global_pids))
      /\ Elems(global_pids) = Elems(Tail(global_pids)) \cup {Head(global_pids)}
  BY <1>1, TailList DEF PidPool
<1> QED
  BY <1>1, <1>2 DEF PidPool

\* The zombies of a list, before and after a step, counted as sets.
LEMMA ZombieNumbers ==
    ASSUME CountingLaws, NEW u, children[u] \in Seq(Slot),
           Distinct(children[u]),
           children'[u] \in Seq(Slot), Distinct(children'[u])
    PROVE  /\ Zombies(children[u]) = Cardinality(ZombieSet(state, children[u]))
           /\ Zombies(children[u])' = Cardinality(ZombieSet(state', children'[u]))
           /\ IsFiniteSet(ZombieSet(state, children[u]))
           /\ IsFiniteSet(ZombieSet(state', children'[u]))
<1>1. /\ Zombies(children[u]) = Cardinality(ZombieSet(state, children[u]))
      /\ IsFiniteSet(ZombieSet(state, children[u]))
  BY ZombieCount DEF Zombies, IsZombie
<1>2. /\ Zombies(children[u])' = Cardinality(ZombieSet(state', children'[u]))
      /\ IsFiniteSet(ZombieSet(state', children'[u]))
  BY ZombieCount, ZenonT(30) DEF Zombies, IsZombie
<1> QED
  BY <1>1, <1>2

\* set_parent_to_this and start_proc put a process into the list of p.
Adopts(s, p) ==
    /\ parent' = [parent EXCEPT ![s] = p]
    /\ children' = [children EXCEPT ![p] = <<s>> \o @]
    /\ allocated' = allocated
    /\ \A u \in Slot : (state'[u] = "ZOMBIE") <=> (state[u] = "ZOMBIE")

\* Adopting a live process without a parent keeps the tree and adds no zombie.
LEMMA AdoptTree ==
    ASSUME CountingLaws, ProcInv, NEW s \in allocated, NEW p \in Live,
           s # RootProc,
           parent[s] = None, state[s] # "ZOMBIE", Adopts(s, p)
    PROVE  /\ TreeConsistent' /\ children' \in [Slot -> Seq(Slot)]
           /\ \A u \in allocated : Zombies(children[u])' = Zombies(children[u])
<1>0. /\ TypeOK /\ TreeConsistent /\ allocated \subseteq Slot /\ None \notin Slot
      /\ s \in Slot /\ p \in allocated /\ p \in Slot /\ state[p] # "ZOMBIE"
  BY ProcessAssumption, ZenonT(30) DEF ProcInv, TypeOK, Live
<1>1. \A u \in allocated : s \notin Elems(children[u])
  BY <1>0 DEF TreeConsistent
<1>2. children[p] \in Seq(Slot) /\ Distinct(children[p]) /\ s \notin Elems(children[p])
  BY <1>0, <1>1, ZenonT(30) DEF TypeOK, TreeConsistent
<1>3. /\ <<s>> \o children[p] \in Seq(Slot) /\ Distinct(<<s>> \o children[p])
      /\ Elems(<<s>> \o children[p]) = Elems(children[p]) \cup {s}
  BY <1>0, <1>2, ConsList
<1>4. /\ children' \in [Slot -> Seq(Slot)]
      /\ \A u \in Slot \ {p} : children'[u] = children[u]
      /\ children'[p] = <<s>> \o children[p]
  BY <1>0, <1>3 DEF TypeOK, Adopts
<1>5. /\ parent'[s] = p
      /\ \A u \in Slot \ {s} : parent'[u] = parent[u]
  BY <1>0 DEF TypeOK, Adopts
<1>z. /\ allocated' = allocated
      /\ \A u \in Slot : (state'[u] = "ZOMBIE") <=> (state[u] = "ZOMBIE")
  BY DEF Adopts
<1>6. TreeConsistent'
  <2>1. ASSUME NEW u \in allocated, NEW v \in Slot
        PROVE  v \in Elems(children'[u]) <=> /\ v \in allocated /\ v # RootProc
                                             /\ parent'[v] = u
    <3>1. v \in Elems(children[u]) <=> v \in allocated /\ v # RootProc /\ parent[v] = u
      BY <1>0 DEF TreeConsistent
    <3>2. CASE u = p
      BY <1>0, <1>1, <1>3, <1>4, <1>5, <3>1, <3>2, ZenonT(30)
    <3>3. CASE u # p
      BY <1>0, <1>1, <1>4, <1>5, <3>1, <3>3, ZenonT(30)
    <3> QED
      BY <3>2, <3>3
  <2>2. \A u \in allocated : Distinct(children'[u])
    BY <1>0, <1>3, <1>4, ZenonT(30) DEF TreeConsistent
  <2>3. \A u \in allocated : state'[u] = "ZOMBIE" => children'[u] = <<>>
    BY <1>0, <1>4, <1>z, ZenonT(30) DEF TreeConsistent, IsZombie
  <2> QED
    BY <1>z, <2>1, <2>2, <2>3 DEF TreeConsistent, IsZombie
<1>7. ASSUME NEW u \in allocated
      PROVE  Zombies(children[u])' = Zombies(children[u])
  <2>1. /\ children[u] \in Seq(Slot) /\ Distinct(children[u])
        /\ children'[u] \in Seq(Slot) /\ Distinct(children'[u]) /\ u \in Slot
    <3>1. u \in Slot /\ children[u] \in Seq(Slot) /\ Distinct(children[u])
      BY <1>0 DEF TypeOK, TreeConsistent
    <3> QED
      BY <1>3, <1>4, <3>1, ZenonT(30)
  <2>2. Elems(children[u]) \subseteq Slot
    BY <2>1, ElemsIn
  <2>3. Elems(children'[u]) \in {Elems(children[u]), Elems(children[u]) \cup {s}}
    BY <1>3, <1>4, <2>1, ZenonT(30)
  <2>4. ZombieSet(state', children'[u]) = ZombieSet(state, children[u])
    <3>1. \A v \in Elems(children[u]) : (state'[v] = "ZOMBIE") <=> (state[v] = "ZOMBIE")
      BY <1>z, <2>2
    <3>2. state'[s] # "ZOMBIE" /\ state[s] # "ZOMBIE"
      BY <1>0, <1>z
    <3> QED
      BY <2>3, <3>1, <3>2 DEF ZombieSet
  <2> QED
    BY <2>1, <2>4, ZombieNumbers, ZenonT(30)
<1> QED
  BY <1>4, <1>6, <1>7

\* What is known of a process that is being made.
LEMMA MadeProcess ==
    ASSUME ProcInv, NEW t \in Slot, NEW l \in {"created", "cont_parent",
           "cont_start"},
           At(t, l)
    PROVE  /\ t \in Live /\ t \in allocated /\ t \in Making /\ pc[t] = l
           /\ target[t] \in allocated /\ target[t] \in Slot /\ target[t] # t
           /\ target[t] # RootProc /\ target[t] \in Live
           /\ pc[target[t]] = "unstarted" /\ state[target[t]] # "ZOMBIE"
           /\ target[t] \notin Making
           /\ \A u \in Making \ {t} : target[u] # target[t]
<1>0. /\ TypeOK /\ RootInv /\ ControlInv /\ MakingInv /\ allocated \subseteq Slot
  BY ZenonT(30) DEF ProcInv, TypeOK
<1>1. t \in Live /\ t \in allocated /\ t \in Making /\ pc[t] = l
  BY <1>0, AtHolds, ZenonT(30) DEF Live, Making
<1>2. target[t] \in allocated /\ target[t] \in Slot /\ pc[target[t]] = "unstarted"
  BY <1>0, <1>1 DEF MakingInv
<1>3. target[t] # t /\ target[t] # RootProc /\ target[t] \notin Making
  BY <1>0, <1>1, <1>2 DEF RootInv, Making
<1>4. state[target[t]] # "ZOMBIE" /\ target[t] \in Live
  BY <1>0, <1>2 DEF ControlInv, IsZombie, Live
<1>5. \A u \in Making \ {t} : target[u] # target[t]
  BY <1>0, <1>1 DEF MakingInv
<1> QED
  BY <1>1, <1>2, <1>3, <1>4, <1>5

\* set_parent_to_this.
LEMMA SetParentInv ==
    ASSUME CountingLaws, ProcInv, NEW t \in Slot, SetParentToThis(t)
    PROVE  ProcInv'
<1> DEFINE s == target[t]
<1>0. /\ TypeOK /\ RootInv /\ ControlInv /\ ContainerInv /\ MakingInv /\ ParentInv
      /\ LoopInv /\ TreeConsistent /\ PidPool /\ LocalPidsDistinct
      /\ ChildexitExact /\ WaitFindsZombie
      /\ None \notin Slot /\ allocated \subseteq Slot
  BY ProcessAssumption, ZenonT(30) DEF ProcInv, TypeOK
<1>1. /\ allocated' = allocated /\ state' = state /\ killed' = killed
      /\ childexit' = childexit /\ pid' = pid /\ localpid' = localpid
      /\ global_pids' = global_pids /\ pids' = pids /\ container' = container
      /\ rootproc' = rootproc /\ target' = target /\ panic' = panic
      /\ parent[s] = None /\ parent' = [parent EXCEPT ![s] = t]
      /\ children' = [children EXCEPT ![t] = <<s>> \o @]
  BY DEF SetParentToThis, pidVars, contVars
<1>2. PICK k \in {"created", "cont_parent"} :
        At(t, k) /\ Goto(t, IF k = "created" THEN "created" ELSE "cont_start")
  BY DEF SetParentToThis, At
<1>3. /\ t \in Live /\ t \in allocated /\ t \in Making /\ pc[t] = k
      /\ s \in allocated /\ s \in Slot /\ s # t
      /\ s # RootProc /\ s \in Live
      /\ pc[s] = "unstarted" /\ state[s] # "ZOMBIE" /\ s \notin Making
      /\ \A u \in Making \ {t} : target[u] # s
  BY <1>2, MadeProcess
<1> HIDE DEF s
<1>4. /\ pc' \in [Slot -> PC]
      /\ pc'[t] = (IF k = "created" THEN "created" ELSE "cont_start")
      /\ \A u \in Slot \ {t} : pc'[u] = pc[u]
      /\ pc'[t] \in {"created", "cont_start"}
  BY <1>0, <1>2 DEF TypeOK, Goto, PC
<1>5. /\ parent' \in [Slot -> Slot \cup {None}] /\ parent'[s] = t
      /\ \A u \in Slot \ {s} : parent'[u] = parent[u]
  BY <1>0, <1>1, <1>3 DEF TypeOK
<1>6. /\ TreeConsistent' /\ children' \in [Slot -> Seq(Slot)]
      /\ \A u \in allocated : Zombies(children[u])' = Zombies(children[u])
  <2>1. Adopts(s, t)
    BY <1>1, ZenonT(30) DEF Adopts
  <2> QED
    BY <1>1, <1>3, <2>1, AdoptTree, ZenonT(30)
<1>7. Live' = Live /\ Making' = Making
  BY <1>1, <1>3, <1>4 DEF Live, Making
<1>8. TypeOK'
  BY <1>0, <1>1, <1>4, <1>5, <1>6, ZenonT(30) DEF TypeOK
<1>9. RootInv'
  BY <1>0, <1>1, <1>3, <1>4, <1>5, <1>7, ZenonT(30) DEF RootInv, Live
<1>10. ControlInv'
  BY <1>0, <1>1, <1>3, <1>4, <1>7, ZenonT(30) DEF ControlInv, IsZombie, Live
<1>11. ContainerInv'
  BY <1>0, <1>1, <1>7 DEF ContainerInv
<1>12. MakingInv'
  <2>1. ASSUME NEW u \in Making, u # t
        PROVE  /\ target[u] \in Slot /\ pc'[u] = pc[u]
               /\ parent'[target[u]] = parent[target[u]]
               /\ pc'[target[u]] = "unstarted"
    <3>1. /\ target[u] \in Slot /\ u \in Slot /\ pc[target[u]] = "unstarted"
      BY <1>0 DEF MakingInv, Making
    <3>2. target[u] # s /\ target[u] # t
      BY <1>3, <2>1, <3>1
    <3> QED
      BY <1>4, <1>5, <2>1, <3>1, <3>2
  <2>2. target[t] = s /\ pc'[s] = "unstarted"
    BY <1>3, <1>4, ZenonT(30) DEF s
  <2>3. \A u \in Making' : /\ target'[u] \in allocated'
                           /\ pc'[target'[u]] = "unstarted"
                           /\ parent'[target'[u]] \in {None, u}
    BY <1>0, <1>1, <1>3, <1>5, <1>7, <2>1, <2>2, ZenonT(30) DEF MakingInv
  <2>4. \A u, v \in Making' : target'[u] = target'[v] => u = v
    BY <1>0, <1>1, <1>7 DEF MakingInv
  <2>5. \A u \in Making : (pc'[u] = "created") <=> (pc[u] = "created")
    BY <1>3, <1>4, <2>1, ZenonT(30)
  <2>6. \A u \in Making' : pc'[u] = "created" =>
           \A c \in Container : rootproc'[c] # target'[u]
    BY <1>0, <1>1, <1>7, <2>5 DEF MakingInv
  <2>7. \A u \in Making' : pc'[u] # "created" =>
           /\ rootproc'[container'[target'[u]]] = target'[u]
           /\ container'[u] # container'[target'[u]]
    BY <1>0, <1>1, <1>7, <2>5, ZenonT(30) DEF MakingInv
  <2>8. \A u \in Making' : pc'[u] = "cont_start" => parent'[target'[u]] = u
    BY <1>0, <1>1, <1>5, <1>7, <2>1, <2>2 DEF MakingInv
  <2>9. \A u \in Making' : pc'[u] = "cont_parent" => parent'[target'[u]] = None
    BY <1>0, <1>1, <1>4, <1>7, <2>1 DEF MakingInv
  <2> QED
    BY <2>3, <2>4, <2>6, <2>7, <2>8, <2>9 DEF MakingInv
<1>13. ParentInv'
  BY <1>0, <1>1, <1>3, <1>4, <1>5, <1>7 DEF ParentInv
<1>14. LoopInv'
  <2>1. \A u \in allocated' \ {RootProc} : parent'[u] # u
    BY <1>0, <1>1, <1>3, <1>5 DEF LoopInv
  <2>2. ASSUME NEW c \in Container \ {RootContainer},
               rootproc[c] # None, parent'[rootproc[c]] # None
        PROVE  container[parent'[rootproc[c]]] # c
    <3>0. rootproc[c] \in Slot /\ container[rootproc[c]] = c
      BY <1>0, <2>2 DEF ContainerInv, Live
    <3>1. CASE rootproc[c] = s
      <4>1. target[t] = s /\ pc[t] # "created"
        BY <1>0, <1>3, <3>1 DEF MakingInv, s
      <4>2. container[t] # container[s]
        BY <1>0, <1>3, <4>1, ZenonT(30) DEF MakingInv
      <4> QED
        BY <1>5, <3>0, <3>1, <4>2, ZenonT(30)
    <3>2. CASE rootproc[c] # s
      BY <1>0, <1>5, <2>2, <3>0, <3>2, ZenonT(30) DEF LoopInv
    <3> QED
      BY <3>1, <3>2
  <2>3. ASSUME NEW u \in allocated, pc'[u] = "unstarted",
               \A c \in Container : rootproc[c] # u
        PROVE  children'[u] = <<>>
    <3>1. u # t /\ u \in Slot
      BY <1>0, <1>4, <2>3
    <3>2. children'[u] = children[u] /\ pc[u] = "unstarted"
      BY <1>0, <1>1, <1>4, <2>3, <3>1 DEF TypeOK
    <3> QED
      BY <1>0, <2>3, <3>2 DEF LoopInv
  <2> QED
    BY <1>1, <2>1, <2>2, <2>3, ZenonT(30) DEF LoopInv
<1>15. PidPool'
  BY <1>0, <1>1, <1>7 DEF PidPool
<1>16. LocalPidsDistinct'
  <2>1. \A c \in Container : LocalHolders(c)' = LocalHolders(c)
    BY <1>0, <1>1, <1>3, <1>4, ZenonT(30) DEF LocalHolders
  <2> QED
    BY <1>0, <1>1, <2>1, ZenonT(30) DEF LocalPidsDistinct
<1>17. ChildexitExact'
  <2>1. \A u \in Live : /\ u \in allocated
                        /\ (pc'[u] = "wait_reap") <=> (pc[u] = "wait_reap")
    BY <1>0, <1>3, <1>4 DEF Live
  <2> QED
    BY <1>0, <1>1, <1>6, <1>7, <2>1, ZenonT(30) DEF ChildexitExact
<1>18. WaitFindsZombie'
  BY <1>0, <1>1 DEF WaitFindsZombie
<1> QED
  BY <1>6, <1>8, <1>9, <1>10, <1>11, <1>12, <1>13, <1>14, <1>15, <1>16, <1>17,
     <1>18
  DEF ProcInv
=============================================================================
