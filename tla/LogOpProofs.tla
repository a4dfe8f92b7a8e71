---------------------------- MODULE LogOpProofs -----------------------------
(***************************************************************************)
(* TLAPS proofs about Log, first part: the inductive invariant, and that   *)
(* the initial state and the steps of the running operations, from         *)
(* bcache_begin_op to bcache_end_op, have it.                              *)
(***************************************************************************)
EXTENDS Log, FiniteSetTheorems, TLAPS

\* A leaf that names no prover is tried by Z3 twice, by Zenon, and by Z3 again.
USE SMTT(10), Z3T(10), ZenonT(30), SMTT(30)

-----------------------------------------------------------------------------
(***************************************************************************)
(* The inductive invariant.                                                *)
(***************************************************************************)
Distinct(h) == \A i, j \in 1..Len(h) : h[i] = h[j] => i = j
Open == {p \in Proc : pc[p] = "op"}

\* Until init_bcache is done no process runs, and the cache shows the disk.
BootInv ==
    /\ pc[Boot] \in BootPC
    /\ \A p \in Proc : pc[p] \in PC
    /\ pc[Boot] = "read_header" => tail[Boot] = 1
    /\ ~Up => /\ \A p \in Proc : pc[p] = "idle"
              /\ ~committing
              /\ data = home

\* outstanding counts the running operations.
CountInv == IsFiniteSet(Open) /\ outstanding = Cardinality(Open)

\* committing is set while somebody commits, and then nothing else runs.
CommitInv ==
    /\ \A p \in Proc : pc[p] \in CommitPC => committing
    /\ \A p, q \in Proc : pc[p] \in CommitPC /\ pc[q] \in CommitPC => p = q
    /\ committing => Open = {}

\* An operation has logged its own blocks, and each of them has used at most
\* one of the OpMax blocks it reserved.
ReserveInv ==
    /\ \A p \in Proc : /\ rm[p] \in 0..OpMax
                       /\ pc[p] # "op" => rm[p] = 0
                       /\ pc[p] # "panic"
    /\ \A p \in Open : /\ mine[p] \subseteq Logged(header)
                       /\ IsFiniteSet(mine[p])
                       /\ OpMax <= rm[p] + Cardinality(mine[p])
    /\ IsFiniteSet(Reservations)
    /\ SpaceReserved

\* A header names a block once, and what is on disk fits into the log.
HeaderInv ==
    /\ Distinct(header) /\ Distinct(dheader)
    /\ Len(dheader) <= LogMax

\* The first n slots of the log hold what is cached, or what is in place, for
\* the blocks that header h names.
SlotsCached(n) == \A i \in 1..n : slot[i] = data[header[i]]
SlotsInPlace(h, n) == \A i \in 1..n : home[h[i]] = slot[i]

\* What the disk holds, at each point of commit and of recovery.
DiskInv ==
    /\ \A t \in Thread :
        /\ pc[t] = "write_log" =>
              tail[t] \in 1..Len(header) /\ SlotsCached(tail[t] - 1)
        /\ pc[t] = "write_header" =>
              Len(header) > 0 /\ tail[t] = 1 /\ SlotsCached(Len(header))
        /\ pc[t] = "install" =>
              /\ dheader = header /\ tail[t] \in 1..Len(header)
              /\ SlotsInPlace(header, tail[t] - 1)
              /\ t \in Proc => SlotsCached(Len(header))
        /\ pc[t] = "clear" =>
              /\ dheader = header
              /\ SlotsInPlace(header, Len(header))
              /\ t \in Proc => SlotsCached(Len(header))
        /\ pc[t] = "clear_header" =>
              header = <<>> /\ SlotsInPlace(dheader, Len(dheader))
    /\ Up /\ (\A p \in Proc : pc[p] \notin {"install", "clear", "clear_header"})
          => dheader = <<>>

\* Until they are installed, the blocks that the header names are pinned.
PinInv ==
    Up /\ (\A p \in Proc : pc[p] \notin {"install", "clear"})
        => Logged(header) \subseteq pinned

LogInv ==
    /\ TypeOK /\ BootInv /\ CountInv /\ CommitInv /\ ReserveInv /\ HeaderInv
    /\ DiskInv /\ PinInv /\ DirtyPinned

-----------------------------------------------------------------------------
(***************************************************************************)
(* Headers and reservations.                                               *)
(***************************************************************************)

\* cache_sync's append of a block that the header does not name.
LEMMA AppendHeader ==
    ASSUME NEW h \in Seq(Block), NEW b \in Block, Distinct(h),
           b \notin Logged(h)
    PROVE  /\ Append(h, b) \in Seq(Block)
           /\ Len(Append(h, b)) = Len(h) + 1
           /\ Distinct(Append(h, b))
           /\ Logged(Append(h, b)) = Logged(h) \cup {b}
<1>1. /\ Append(h, b) \in Seq(Block) /\ Len(Append(h, b)) = Len(h) + 1
      /\ \A i \in 1..Len(h) : Append(h, b)[i] = h[i]
      /\ Append(h, b)[Len(h) + 1] = b
      /\ Len(h) \in Nat
  OBVIOUS
<1>2. \A i \in 1..Len(h) : h[i] # b
  BY DEF Logged
<1>3. Distinct(Append(h, b))
  BY <1>1, <1>2 DEF Distinct
<1>4. Logged(Append(h, b)) = Logged(h) \cup {b}
  <2>1. ASSUME NEW x \in Logged(Append(h, b)) PROVE x \in Logged(h) \cup {b}
    BY <1>1 DEF Logged
  <2>2. ASSUME NEW x \in Logged(h) \cup {b} PROVE x \in Logged(Append(h, b))
    <3>1. CASE x = b
      BY <1>1, <3>1 DEF Logged
    <3>2. CASE x \in Logged(h)
      BY <1>1, <3>2 DEF Logged
    <3> QED
      BY <3>1, <3>2
  <2> QED
    BY <2>1, <2>2
<1> QED
  BY <1>1, <1>3, <1>4

\* The blocks reserved when each process p has f[p] of them left.
Reserved(f) == {r \in Proc \X (1..OpMax) : r[2] <= f[r[1]]}

\* A process that changes what it has left from f[p] to n changes the number
\* of reserved blocks by as much.
LEMMA ReservedChange ==
    ASSUME NEW f \in [Proc -> Nat], NEW p \in Proc, NEW n \in 0..OpMax,
           f[p] \in 0..OpMax, IsFiniteSet(Reserved(f)),
           NEW g, g = [f EXCEPT ![p] = n]
    PROVE  /\ IsFiniteSet(Reserved(g))
           /\ Cardinality(Reserved(g)) = Cardinality(Reserved(f)) - f[p] + n
<1> DEFINE Others == {r \in Reserved(f) : r[1] # p}
           Own(k) == {p} \X (1..k)
<1>1. ASSUME NEW k \in 0..OpMax
      PROVE  IsFiniteSet(Own(k)) /\ Cardinality(Own(k)) = k
  <2> DEFINE F == [i \in 1..k |-> <<p, i>>]
  <2>0. k \in Nat
    BY LogAssumption
  <2>1. F \in Bijection(1..k, Own(k))
    <3>1. F \in [1..k -> Own(k)]
      OBVIOUS
    <3>2. \A i, j \in 1..k : F[i] = F[j] => i = j
      OBVIOUS
    <3>3. \A r \in Own(k) : r[2] \in 1..k /\ F[r[2]] = r
      OBVIOUS
    <3> HIDE DEF F, Own
    <3> QED
      BY <3>1, <3>2, <3>3 DEF Bijection, Injection, Surjection, IsInjective
  <2>2. ExistsBijection(1..k, Own(k))
    BY <2>1, ZenonT(30) DEF ExistsBijection
  <2>3. IsFiniteSet(1..k) /\ Cardinality(1..k) = k
    BY <2>0, FS_Interval
  <2> HIDE DEF Own
  <2> QED
    BY <2>2, <2>3, FS_Bijection
<1>2. ASSUME NEW k \in 0..OpMax
      PROVE  /\ IsFiniteSet(Others \cup Own(k))
             /\ Cardinality(Others \cup Own(k)) = Cardinality(Others) + k
             /\ Cardinality(Others) \in Nat
  <2>1. IsFiniteSet(Others) /\ Cardinality(Others) \in Nat
    BY FS_Subset, FS_CardinalityType
  <2>2. Others \cap Own(k) = {}
    OBVIOUS
  <2>3. Cardinality({}) = 0
    BY FS_EmptySet
  <2>4. k \in Nat
    BY LogAssumption
  <2>5. IsFiniteSet(Own(k)) /\ Cardinality(Own(k)) = k
    BY <1>1
  <2> HIDE DEF Others, Own
  <2>6. /\ IsFiniteSet(Others \cup Own(k))
        /\ Cardinality(Others \cup Own(k))
             = Cardinality(Others) + k - Cardinality({})
    BY <2>1, <2>2, <2>5, FS_Union, ZenonT(30)
  <2> QED
    BY <2>1, <2>3, <2>4, <2>6
<1>3. Reserved(f) = Others \cup Own(f[p])
  BY LogAssumption DEF Reserved
<1>4. Reserved(g) = Others \cup Own(n)
  BY LogAssumption DEF Reserved
<1>5. f[p] \in Nat /\ n \in Nat
  BY LogAssumption
<1> HIDE DEF Others, Own
<1>6. Cardinality(Reserved(f)) = Cardinality(Others) + f[p]
  BY <1>2, <1>3
<1>7. /\ IsFiniteSet(Reserved(g))
      /\ Cardinality(Reserved(g)) = Cardinality(Others) + n
      /\ Cardinality(Others) \in Nat
  BY <1>2, <1>4, ZenonT(30)
<1> QED
  BY <1>5, <1>6, <1>7

-----------------------------------------------------------------------------
(***************************************************************************)
(* The initial state, and steps that only move a process.                  *)
(***************************************************************************)
DiskPC == {"write_log", "write_header", "install", "clear", "clear_header"}
Passive == {"idle", "retry", "wait_s1", "in_s1", "wait_s2", "in_s2", "wait_s3",
            "in_s3", "post_s1", "post1", "post2", "post3"}

\* At most one thread writes to the disk.
LEMMA Alone ==
    ASSUME LogInv, NEW t \in Thread, NEW u \in Thread,
           pc[t] \in DiskPC, pc[u] \in DiskPC
    PROVE  t = u
<1>1. BootInv /\ CommitInv
  BY DEF LogInv
<1>2. \A x \in Thread : (x \in Proc /\ x # Boot) \/ x = Boot
  BY LogAssumption DEF Thread
<1>3. \A x \in Proc : pc[x] \in DiskPC => Up /\ pc[x] \in CommitPC
  BY <1>1 DEF BootInv, DiskPC, CommitPC
<1>4. pc[Boot] \in DiskPC => ~Up
  BY DEF Up, DiskPC
<1> QED
  BY <1>1, <1>2, <1>3, <1>4 DEF CommitInv

\* The kernel starts in a state of the inductive invariant.
LEMMA InitLogInv == Init => LogInv
<1> SUFFICES ASSUME Init PROVE LogInv
  OBVIOUS
<1>1. /\ Boot \in Thread /\ pc[Boot] = "read_header"
      /\ \A p \in Proc : p \in Thread /\ p # Boot /\ pc[p] = "idle"
      /\ ~Up
  BY LogAssumption DEF Init, Thread, Up
<1>2. TypeOK
  <2>1. pc \in [Thread -> PC \cup BootPC]
    BY DEF Init, PC, BootPC
  <2>2. home \in [Block -> Val] /\ data \in [Block -> Val]
    BY LogAssumption DEF Init
  <2>3. slot \in [1..LogMax -> Val]
    BY LogAssumption DEF Init
  <2>4. tail \in [Thread -> Nat \ {0}]
    BY DEF Init
  <2>5. rm \in [Proc -> Nat] /\ mine \in [Proc -> SUBSET Block]
    BY DEF Init
  <2>6. dheader \in Seq(Block) /\ header \in Seq(Block)
    BY DEF Init
  <2>7. pinned \in SUBSET Block /\ outstanding \in Nat /\ op_reserved \in Int
    BY DEF Init
  <2>8. committing \in BOOLEAN
    BY ZenonT(30) DEF Init
  <2> QED
    BY <2>1, <2>2, <2>3, <2>4, <2>5, <2>6, <2>7, <2>8 DEF TypeOK
<1>3. Open = {} /\ Reservations = {}
  BY <1>1 DEF Open, Reservations, Init
<1>4. BootInv /\ CommitInv
  BY <1>1, <1>3 DEF Init, BootInv, CommitInv, BootPC, PC, CommitPC, Up
<1>5. CountInv /\ ReserveInv
  BY <1>1, <1>3, FS_EmptySet, LogAssumption
  DEF Init, CountInv, ReserveInv, SpaceReserved
<1>6. HeaderInv
  BY LogAssumption DEF Init, HeaderInv, Distinct
<1>7. \A t \in Thread : pc[t] \in {"read_header", "idle"}
  BY DEF Init
<1>8. DiskInv /\ PinInv /\ DirtyPinned
  BY <1>1, <1>7 DEF DiskInv, PinInv, DirtyPinned, Up
<1> QED
  BY <1>2, <1>4, <1>5, <1>6, <1>8 DEF LogInv

\* Processes that move between points outside operations and commits, once the
\* kernel is up, keep the invariant.
LEMMA PassiveInv ==
    ASSUME LogInv, pc' \in [Thread -> PC \cup BootPC], pc'[Boot] = pc[Boot],
           Up, mine' \in [Proc -> SUBSET Block],
           \A p \in Proc : \/ pc'[p] = pc[p]
                           \/ pc[p] \in Passive /\ pc'[p] \in Passive,
           \A p \in Open : mine'[p] = mine[p],
           UNCHANGED <<diskState, logVars, cacheVars, rm, tail>>
    PROVE  LogInv'
<1>0. /\ TypeOK /\ BootInv /\ CountInv /\ CommitInv /\ ReserveInv /\ HeaderInv
      /\ DiskInv /\ PinInv /\ DirtyPinned
  BY DEF LogInv
<1>1. /\ home' = home /\ slot' = slot /\ dheader' = dheader
      /\ header' = header /\ committing' = committing
      /\ outstanding' = outstanding /\ op_reserved' = op_reserved
      /\ data' = data /\ pinned' = pinned /\ rm' = rm /\ tail' = tail
  BY DEF diskState, logVars, cacheVars
<1>2. Open' = Open
  BY DEF Open, Passive
<1>3. Up'
  BY DEF Up
<1>4. \A p \in Proc : \/ pc'[p] = pc[p]
                      \/ /\ pc[p] \notin CommitPC \cup {"op", "panic"}
                         /\ pc'[p] \notin CommitPC \cup {"op", "panic"}
                         /\ pc'[p] \in PC
  BY DEF Passive, CommitPC, PC
<1>5. TypeOK'
  BY <1>0, <1>1 DEF TypeOK
<1>6. BootInv'
  BY <1>0, <1>1, <1>3, <1>4 DEF BootInv, Up
<1>7. CountInv'
  BY <1>0, <1>1, <1>2 DEF CountInv
<1>8. CommitInv'
  BY <1>0, <1>1, <1>2, <1>4 DEF CommitInv
<1>9. ReserveInv'
  <2>1. Reservations' = Reservations
    BY <1>1 DEF Reservations
  <2> QED
    BY <1>0, <1>1, <1>2, <1>4, <2>1 DEF ReserveInv, SpaceReserved
<1>10. HeaderInv'
  BY <1>0, <1>1, ZenonT(30) DEF HeaderInv
<1>11. DiskInv'
  <2>1. \A t \in Thread : pc'[t] \in DiskPC => pc'[t] = pc[t]
    BY <1>4 DEF Thread, DiskPC, CommitPC
  <2>2. \A p \in Proc : pc[p] \in {"install", "clear", "clear_header"}
                          => pc'[p] = pc[p]
    BY <1>4 DEF CommitPC
  <2> QED
    BY <1>0, <1>1, <1>3, <2>1, <2>2
    DEF DiskInv, DiskPC, SlotsCached, SlotsInPlace, Up
<1>12. PinInv' /\ DirtyPinned'
  BY <1>0, <1>1, <1>3, <1>4 DEF PinInv, DirtyPinned, Up, CommitPC
<1> QED
  BY <1>5, <1>6, <1>7, <1>8, <1>9, <1>10, <1>11, <1>12 DEF LogInv

\* cache_end_op and cache_begin_op block, and post_all_sem wakes.
LEMMA WaitSemInv ==
    ASSUME LogInv, NEW p \in Proc, WaitSem(p)
    PROVE  LogInv'
<1>0. TypeOK /\ BootInv /\ p \in Thread /\ p # Boot
  BY LogAssumption DEF LogInv, Thread
<1>1. PICK s \in {<<"wait_s1", "in_s1">>, <<"wait_s2", "in_s2">>,
                  <<"wait_s3", "in_s3">>} : pc[p] = s[1] /\ Goto(p, s[2])
  BY DEF WaitSem
<1>2. pc[p] \in Passive /\ s[2] \in Passive /\ s[2] \in PC /\ pc[p] # "idle"
  BY <1>1 DEF Passive, PC
<1>3. /\ pc' \in [Thread -> PC \cup BootPC]
      /\ pc'[Boot] = pc[Boot]
      /\ \A q \in Proc : pc'[q] = pc[q] \/ (q = p /\ pc'[q] = s[2])
  BY <1>0, <1>1, <1>2 DEF TypeOK, Goto, Thread
<1>4. Up
  BY <1>0, <1>2 DEF BootInv
<1>5. mine' = mine /\ UNCHANGED <<diskState, logVars, cacheVars, rm, tail>>
  BY DEF WaitSem
<1>6. mine' \in [Proc -> SUBSET Block]
  BY <1>0, <1>5 DEF TypeOK
<1> QED
  BY <1>2, <1>3, <1>4, <1>5, <1>6, PassiveInv

\* A post moves the sleepers of a semaphore to where they check again.
LEMMA WakeInv ==
    ASSUME LogInv, NEW p \in Proc, NEW s \in Passive, NEW l \in Passive,
           NEW k \in Passive, pc[p] \in Passive \ {"idle"},
           pc' = [Woken(s, l) EXCEPT ![p] = k],
           UNCHANGED <<diskState, logVars, cacheVars, rm, tail, mine>>
    PROVE  LogInv'
<1>0. TypeOK /\ BootInv /\ p \in Thread /\ p # Boot
  BY LogAssumption DEF LogInv, Thread
<1>1. Passive \subseteq PC
  BY DEF Passive, PC
<1>2. Up
  BY <1>0 DEF BootInv
<1>3. /\ pc' \in [Thread -> PC \cup BootPC]
      /\ pc'[Boot] = pc[Boot]
      /\ \A q \in Proc : \/ pc'[q] = pc[q]
                         \/ pc[q] \in Passive /\ pc'[q] \in Passive
  <2>1. pc' = [t \in Thread |-> IF t = p THEN k
                                ELSE IF pc[t] = s THEN l ELSE pc[t]]
    BY <1>0, ZenonT(30) DEF Woken
  <2>2. pc[Boot] \notin Passive
    BY <1>0 DEF BootInv, BootPC, Passive
  <2> QED
    BY <1>0, <1>1, <2>1, <2>2, ZenonT(30) DEF TypeOK, Thread
<1>4. mine' = mine /\ UNCHANGED <<diskState, logVars, cacheVars, rm, tail>>
  OBVIOUS
<1>5. mine' \in [Proc -> SUBSET Block]
  BY <1>0, <1>4 DEF TypeOK
<1> QED
  BY <1>2, <1>3, <1>4, <1>5, PassiveInv

\* The posts of begin_op, end_op and commit wake sleepers and change nothing else.
LEMMA PostInv ==
    ASSUME LogInv, NEW p \in Proc, PostSpace(p) \/ PostAll(p)
    PROVE  LogInv'
<1>1. UNCHANGED <<diskState, logVars, cacheVars, rm, tail, mine>>
  BY ZenonT(30) DEF PostSpace, PostAll
<1>2. CASE PostSpace(p)
  BY <1>1, <1>2, WakeInv, ZenonT(30) DEF PostSpace, Passive
<1>3. CASE PostAll(p)
  <2>1. CASE /\ pc[p] = "post1"
             /\ pc' = [Woken("in_s1", "retry") EXCEPT ![p] = "post2"]
    BY <1>1, <2>1, WakeInv, ZenonT(30) DEF Passive
  <2>2. CASE /\ pc[p] = "post2"
             /\ pc' = [Woken("in_s2", "idle") EXCEPT ![p] = "post3"]
    BY <1>1, <2>2, WakeInv, ZenonT(30) DEF Passive
  <2>3. CASE /\ pc[p] = "post3"
             /\ pc' = [Woken("in_s3", "retry") EXCEPT ![p] = "idle"]
    BY <1>1, <2>3, WakeInv, ZenonT(30) DEF Passive
  <2> QED
    BY <1>3, <2>1, <2>2, <2>3 DEF PostAll
<1> QED
  BY <1>2, <1>3

-----------------------------------------------------------------------------
(***************************************************************************)
(* Operations: begin_op, sync and end_op.                                  *)
(***************************************************************************)

\* While nothing commits, no thread is at a point where it writes to the disk.
LEMMA NobodyWrites ==
    ASSUME LogInv, Up, ~committing
    PROVE  \A t \in Thread : pc[t] \notin DiskPC
<1>1. CommitInv
  BY DEF LogInv
<1>2. pc[Boot] \notin DiskPC
  BY DEF Up, DiskPC
<1>3. \A p \in Proc : pc[p] \notin DiskPC
  BY <1>1 DEF CommitInv, CommitPC, DiskPC
<1> QED
  BY <1>2, <1>3 DEF Thread

\* cache_begin_op lets an operation in.
LEMMA AdmitInv ==
    ASSUME LogInv, NEW p \in Proc, Up, pc[p] \in {"idle", "retry"},
           ~committing, ~Full, Admit(p), mine' = [mine EXCEPT ![p] = {}],
           UNCHANGED <<diskState, cacheVars, tail>>
    PROVE  LogInv'
<1>0. /\ TypeOK /\ BootInv /\ CountInv /\ CommitInv /\ ReserveInv /\ HeaderInv
      /\ DiskInv /\ PinInv /\ DirtyPinned
      /\ p \in Thread /\ p # Boot
  BY LogAssumption DEF LogInv, Thread
<1>1. /\ home' = home /\ slot' = slot /\ dheader' = dheader
      /\ header' = header /\ committing' = committing
      /\ data' = data /\ pinned' = pinned /\ tail' = tail
      /\ outstanding' = outstanding + 1 /\ op_reserved' = op_reserved + OpMax
      /\ rm' = [rm EXCEPT ![p] = OpMax]
      /\ pc' = [pc EXCEPT ![p] = "op"]
  BY DEF Admit, Reserve, Goto, diskState, cacheVars
<1>2. /\ pc'[p] = "op"
      /\ \A t \in Thread : t # p => pc'[t] = pc[t]
      /\ \A q \in Proc : q # p => pc'[q] = pc[q]
      /\ pc'[Boot] = pc[Boot]
  BY <1>0, <1>1 DEF TypeOK, Thread
<1>3. Up'
  BY <1>2 DEF Up
<1>4. p \notin Open /\ Open' = Open \cup {p}
  BY <1>2, ZenonT(30) DEF Open
<1>5. TypeOK'
  <2>1. pc' \in [Thread -> PC \cup BootPC]
    BY <1>0, <1>1 DEF TypeOK, PC
  <2>2. rm' \in [Proc -> Nat]
    BY <1>0, <1>1, LogAssumption DEF TypeOK
  <2>3. mine' \in [Proc -> SUBSET Block]
    BY <1>0 DEF TypeOK
  <2>4. outstanding' \in Nat /\ op_reserved' \in Int
    BY <1>0, <1>1, LogAssumption DEF TypeOK
  <2> QED
    BY <1>0, <1>1, <2>1, <2>2, <2>3, <2>4, ZenonT(30) DEF TypeOK
<1>6. BootInv'
  BY <1>0, <1>1, <1>2, <1>3 DEF BootInv, PC, Up
<1>7. CountInv'
  <2>1. IsFiniteSet(Open) /\ Cardinality(Open) = outstanding
    BY <1>0 DEF CountInv
  <2>2. IsFiniteSet(Open') /\ Cardinality(Open') = outstanding + 1
    BY <1>4, <2>1, FS_AddElement
  <2> QED
    BY <1>1, <2>2 DEF CountInv
<1>8. CommitInv'
  BY <1>0, <1>1, <1>2, ZenonT(30) DEF CommitInv, CommitPC
<1>9. ReserveInv'
  <2>1. /\ rm[p] = 0 /\ rm \in [Proc -> Nat]
        /\ rm[p] \in 0..OpMax /\ OpMax \in 0..OpMax
    BY <1>0, <1>2, LogAssumption DEF ReserveInv, TypeOK
  <2>2. Reservations = Reserved(rm) /\ Reservations' = Reserved(rm')
    BY DEF Reservations, Reserved
  <2>3. /\ IsFiniteSet(Reservations)
        /\ op_reserved = Cardinality(Reservations)
    BY <1>0 DEF ReserveInv, SpaceReserved
  <2>4. /\ IsFiniteSet(Reservations')
        /\ Cardinality(Reservations') = Cardinality(Reservations) - rm[p] + OpMax
    BY <1>1, <2>1, <2>2, <2>3, ReservedChange, ZenonT(30)
  <2>5. SpaceReserved'
    BY <1>0, <1>1, <2>1, <2>3, <2>4, LogAssumption
       DEF SpaceReserved, TypeOK, Full
  <2>6. \A q \in Proc : /\ rm'[q] \in 0..OpMax
                        /\ pc'[q] # "op" => rm'[q] = 0
                        /\ pc'[q] # "panic"
    BY <1>0, <1>1, <1>2, <2>1 DEF ReserveInv, TypeOK
  <2>7. /\ mine'[p] = {} /\ rm'[p] = OpMax
        /\ \A q \in Proc : q # p => mine'[q] = mine[q] /\ rm'[q] = rm[q]
    BY <1>0, <1>1 DEF TypeOK
  <2>8. ASSUME NEW q \in Open'
        PROVE  /\ mine'[q] \subseteq Logged(header')
               /\ IsFiniteSet(mine'[q])
               /\ OpMax <= rm'[q] + Cardinality(mine'[q])
    <3>1. CASE q = p
      BY <2>7, <3>1, FS_EmptySet, LogAssumption
    <3>2. CASE q # p
      BY <1>0, <1>1, <1>4, <2>7, <3>2 DEF ReserveInv, Open
    <3> QED
      BY <3>1, <3>2
  <2> QED
    BY <2>4, <2>5, <2>6, <2>8, ZenonT(30) DEF ReserveInv
<1>10. HeaderInv'
  BY <1>0, <1>1 DEF HeaderInv
<1>11. DiskInv'
  <2>1. \A t \in Thread : pc[t] \notin DiskPC
    BY NobodyWrites
  <2>2. \A t \in Thread : pc'[t] \notin DiskPC
    BY <1>2, <2>1, ZenonT(30) DEF DiskPC
  <2>3. dheader = <<>>
    BY <1>0, <2>1, ZenonT(30) DEF DiskInv, DiskPC, Thread
  <2> QED
    BY <1>1, <2>2, <2>3 DEF DiskInv, DiskPC
<1>12. PinInv' /\ DirtyPinned'
  BY <1>0, <1>1, <1>2 DEF PinInv, DirtyPinned, Up
<1> QED
  BY <1>5, <1>6, <1>7, <1>8, <1>9, <1>10, <1>11, <1>12 DEF LogInv

\* A turn of cache_begin_op's loop.
LEMMA BeginInv ==
    ASSUME LogInv, NEW p \in Proc, Begin(p)
    PROVE  LogInv'
<1>0. TypeOK /\ p \in Thread /\ p # Boot
  BY LogAssumption DEF LogInv, Thread
<1>1. /\ Up /\ pc[p] \in {"idle", "retry"}
      /\ mine' = [mine EXCEPT ![p] = {}]
      /\ UNCHANGED <<diskState, cacheVars, tail>>
  BY DEF Begin
<1>2. CASE ~Closed /\ ~Full /\ Admit(p)
  BY <1>1, <1>2, AdmitInv, ZenonT(30) DEF Closed
<1>3. ASSUME NEW l \in {"wait_s1", "wait_s3"}, Goto(p, l),
             UNCHANGED <<logVars, rm>>
      PROVE  LogInv'
  <2>1. /\ pc' \in [Thread -> PC \cup BootPC]
        /\ pc'[Boot] = pc[Boot]
        /\ \A q \in Proc : \/ pc'[q] = pc[q]
                           \/ pc[q] \in Passive /\ pc'[q] \in Passive
    BY <1>0, <1>1, <1>3 DEF TypeOK, Goto, Thread, PC, Passive
  <2>2. /\ mine' \in [Proc -> SUBSET Block]
        /\ \A q \in Open : mine'[q] = mine[q]
    BY <1>0, <1>1 DEF TypeOK, Open
  <2>3. UNCHANGED <<diskState, logVars, cacheVars, rm, tail>>
    BY <1>1, <1>3
  <2> QED
    BY <1>1, <2>1, <2>2, <2>3, PassiveInv
<1> QED
  BY <1>2, <1>3 DEF Begin

\* What is known when an operation is running.
LEMMA Running ==
    ASSUME LogInv, NEW p \in Proc, pc[p] = "op"
    PROVE  /\ Up /\ ~committing /\ p \in Open
           /\ dheader = <<>> /\ Logged(header) \subseteq pinned
           /\ \A t \in Thread : pc[t] \notin DiskPC
<1>1. BootInv /\ CommitInv /\ DiskInv /\ PinInv
  BY DEF LogInv
<1>2. Up /\ ~committing /\ p \in Open
  BY <1>1 DEF BootInv, CommitInv, Open
<1>3. \A t \in Thread : pc[t] \notin DiskPC
  BY <1>2, NobodyWrites
<1>4. \A q \in Proc : pc[q] \notin {"install", "clear", "clear_header"}
  BY <1>3, ZenonT(30) DEF DiskPC, Thread
<1> QED
  BY <1>1, <1>2, <1>3, <1>4 DEF DiskInv, PinInv

\* The space an operation may still use, when it writes one more block.
LEMMA MineGrows ==
    ASSUME LogInv, NEW p \in Proc, pc[p] = "op", NEW b \in Block,
           Cardinality(mine[p] \cup {b}) <= OpMax
    PROVE  /\ IsFiniteSet(mine[p] \cup {b})
           /\ OpMax <= rm[p] + Cardinality(mine[p] \cup {b})
           /\ b \notin Logged(header) =>
                 /\ rm[p] > 0
                 /\ OpMax <= rm[p] - 1 + Cardinality(mine[p] \cup {b})
<1>1. /\ p \in Open /\ mine[p] \subseteq Logged(header)
      /\ IsFiniteSet(mine[p]) /\ OpMax <= rm[p] + Cardinality(mine[p])
      /\ rm[p] \in Nat
  BY ZenonT(30) DEF LogInv, ReserveInv, Open, TypeOK
<1>2. Cardinality(mine[p]) \in Nat
  BY <1>1, FS_CardinalityType
<1>3. CASE b \in mine[p]
  <2>1. mine[p] \cup {b} = mine[p]
    BY <1>3
  <2> QED
    BY <1>1, <1>3, <2>1, ZenonT(30)
<1>4. CASE b \notin mine[p]
  <2>1. /\ IsFiniteSet(mine[p] \cup {b})
        /\ Cardinality(mine[p] \cup {b}) = Cardinality(mine[p]) + 1
    BY <1>1, <1>4, FS_AddElement, ZenonT(30)
  <2> QED
    BY <1>1, <1>2, <2>1, LogAssumption
<1> QED
  BY <1>3, <1>4, ZenonT(30)

\* cache_sync in a running operation.
LEMMA UpdateInv ==
    ASSUME LogInv, NEW p \in Proc, NEW b \in Block, NEW v \in Val,
           Update(p, b, v)
    PROVE  LogInv'
<1>0. /\ TypeOK /\ BootInv /\ CountInv /\ CommitInv /\ ReserveInv /\ HeaderInv
      /\ DiskInv /\ PinInv /\ DirtyPinned
      /\ p \in Thread /\ p # Boot /\ pc[p] = "op"
  BY LogAssumption DEF LogInv, Thread, Update
<1>1. /\ home' = home /\ slot' = slot /\ dheader' = dheader
      /\ committing' = committing /\ outstanding' = outstanding /\ tail' = tail
      /\ data' = [data EXCEPT ![b] = v]
      /\ mine' = [mine EXCEPT ![p] = @ \cup {b}]
  BY DEF Update, diskState
<1>2. /\ Up /\ ~committing /\ p \in Open
      /\ dheader = <<>> /\ Logged(header) \subseteq pinned
      /\ \A t \in Thread : pc[t] \notin DiskPC
  BY <1>0, Running, ZenonT(30)
<1>3. /\ IsFiniteSet(mine[p] \cup {b})
      /\ OpMax <= rm[p] + Cardinality(mine[p] \cup {b})
      /\ b \notin Logged(header) =>
            /\ rm[p] > 0
            /\ OpMax <= rm[p] - 1 + Cardinality(mine[p] \cup {b})
  BY <1>0, MineGrows, ZenonT(30) DEF Update
<1>4. /\ pc' = pc /\ pinned' = pinned \cup {b}
      /\ header' \in Seq(Block) /\ Distinct(header')
      /\ Logged(header') = Logged(header) \cup {b}
      /\ rm' \in [Proc -> Nat] /\ rm'[p] <= rm[p]
      /\ \A q \in Proc : q # p => rm'[q] = rm[q]
      /\ OpMax <= rm'[p] + Cardinality(mine[p] \cup {b})
      /\ op_reserved' \in Int
      /\ IsFiniteSet(Reservations') /\ SpaceReserved'
  <2>0. /\ header \in Seq(Block) /\ Distinct(header)
        /\ rm \in [Proc -> Nat] /\ rm[p] \in 0..OpMax
        /\ op_reserved \in Int /\ IsFiniteSet(Reservations) /\ SpaceReserved
    BY <1>0, ZenonT(30) DEF TypeOK, HeaderInv, ReserveInv
  <2>1. CASE b \in Logged(header)
    <3>1. /\ header' = header /\ pinned' = pinned /\ rm' = rm
          /\ op_reserved' = op_reserved /\ pc' = pc
      BY <2>1 DEF Update
    <3>2. pinned = pinned \cup {b} /\ Logged(header) = Logged(header) \cup {b}
      BY <1>2, <2>1
    <3>3. Reservations' = Reservations
      BY <3>1 DEF Reservations
    <3>4. SpaceReserved'
      BY <2>0, <3>1, <3>3, ZenonT(30) DEF SpaceReserved
    <3> QED
      BY <1>3, <2>0, <3>1, <3>2, <3>3, <3>4
  <2>2. CASE b \notin Logged(header)
    <3>1. rm[p] > 0 /\ OpMax <= rm[p] - 1 + Cardinality(mine[p] \cup {b})
      BY <1>3, <2>2, ZenonT(30)
    <3>2. /\ header' = Append(header, b) /\ pinned' = pinned \cup {b}
          /\ rm' = [rm EXCEPT ![p] = rm[p] - 1]
          /\ op_reserved' = op_reserved - 1 /\ pc' = pc
      BY <2>2, <3>1 DEF Update, LogBlock
    <3>3. /\ header' \in Seq(Block) /\ Distinct(header')
          /\ Logged(header') = Logged(header) \cup {b}
          /\ Len(header') = Len(header) + 1 /\ Len(header) \in Nat
      BY <2>0, <2>2, <3>2, AppendHeader
    <3>4. rm[p] - 1 \in 0..OpMax
      BY <2>0, <3>1, LogAssumption
    <3>5. Reservations = Reserved(rm) /\ Reservations' = Reserved(rm')
      BY DEF Reservations, Reserved
    <3>6. /\ IsFiniteSet(Reservations')
          /\ Cardinality(Reservations')
               = Cardinality(Reservations) - rm[p] + (rm[p] - 1)
      BY <2>0, <3>2, <3>4, <3>5, ReservedChange, ZenonT(30)
    <3>7. SpaceReserved'
      BY <2>0, <3>2, <3>3, <3>6, LogAssumption DEF SpaceReserved
    <3>8. /\ rm' \in [Proc -> Nat] /\ rm'[p] = rm[p] - 1
          /\ \A q \in Proc : q # p => rm'[q] = rm[q]
      BY <2>0, <3>2, <3>4, LogAssumption
    <3>9. rm'[p] <= rm[p] /\ op_reserved' \in Int
      BY <2>0, <3>2, <3>8
    <3> QED
      BY <3>1, <3>2, <3>3, <3>6, <3>7, <3>8, <3>9, ZenonT(30)
  <2> QED
    BY <2>1, <2>2
<1>5. TypeOK'
  <2>1. data' \in [Block -> Val] /\ mine' \in [Proc -> SUBSET Block]
    BY <1>0, <1>1 DEF TypeOK
  <2>2. pinned' \in SUBSET Block
    BY <1>0, <1>4, ZenonT(30) DEF TypeOK
  <2> QED
    BY <1>0, <1>1, <1>4, <2>1, <2>2, ZenonT(30) DEF TypeOK
<1>6. Open' = Open
  BY <1>4, ZenonT(30) DEF Open
<1>7. BootInv' /\ CountInv' /\ CommitInv'
  BY <1>0, <1>1, <1>2, <1>4, <1>6, ZenonT(30)
     DEF BootInv, CountInv, CommitInv, Up
<1>8. ReserveInv'
  <2>1. \A q \in Proc : /\ rm'[q] \in 0..OpMax
                        /\ pc'[q] # "op" => rm'[q] = 0
                        /\ pc'[q] # "panic"
    <3>1. rm'[p] \in 0..OpMax
      BY <1>0, <1>4, LogAssumption DEF ReserveInv
    <3> QED
      BY <1>0, <1>4, <3>1, ZenonT(30) DEF ReserveInv
  <2>2. ASSUME NEW q \in Open'
        PROVE  /\ mine'[q] \subseteq Logged(header')
               /\ IsFiniteSet(mine'[q])
               /\ OpMax <= rm'[q] + Cardinality(mine'[q])
    <3>0. q \in Open /\ q \in Proc
      BY <1>6, ZenonT(30) DEF Open
    <3>1. CASE q = p
      <4>1. mine'[q] = mine[p] \cup {b}
        BY <1>0, <1>1, <3>1, ZenonT(30) DEF TypeOK
      <4>2. mine[p] \subseteq Logged(header)
        BY <1>0, <1>2, ZenonT(30) DEF ReserveInv
      <4> QED
        BY <1>3, <1>4, <3>1, <4>1, <4>2, ZenonT(30)
    <3>2. CASE q # p
      <4>1. mine'[q] = mine[q] /\ rm'[q] = rm[q]
        BY <1>0, <1>1, <1>4, <3>0, <3>2, ZenonT(30) DEF TypeOK
      <4> QED
        BY <1>0, <1>4, <3>0, <4>1, ZenonT(30) DEF ReserveInv
    <3> QED
      BY <3>1, <3>2, ZenonT(30)
  <2> QED
    BY <1>4, <2>1, <2>2, ZenonT(30) DEF ReserveInv
<1>9. HeaderInv'
  BY <1>0, <1>1, <1>4, ZenonT(30) DEF HeaderInv
<1>10. DiskInv'
  BY <1>1, <1>2, <1>4, ZenonT(30) DEF DiskInv, DiskPC
<1>11. PinInv' /\ DirtyPinned'
  <2>1. Logged(header') \subseteq pinned'
    BY <1>2, <1>4, ZenonT(30)
  <2>2. ASSUME NEW c \in Block, data'[c] # home'[c]
        PROVE  c \in pinned' \cap Logged(header')
    BY <1>0, <1>1, <1>2, <1>4, <2>2 DEF DirtyPinned, TypeOK
  <2> QED
    BY <2>1, <2>2, ZenonT(30) DEF PinInv, DirtyPinned
<1> QED
  BY <1>5, <1>7, <1>8, <1>9, <1>10, <1>11 DEF LogInv

\* cache_end_op gives back what the operation reserved and did not use.
LEMMA FreeRestInv ==
    ASSUME LogInv, NEW p \in Proc, FreeRest(p), UNCHANGED header
    PROVE  /\ rm' \in [Proc -> Nat] /\ rm'[p] = 0
           /\ \A q \in Proc : q # p => rm'[q] = rm[q]
           /\ op_reserved' \in Int
           /\ IsFiniteSet(Reservations') /\ SpaceReserved'
<1>0. /\ header \in Seq(Block) /\ rm \in [Proc -> Nat] /\ rm[p] \in 0..OpMax
      /\ op_reserved \in Int /\ IsFiniteSet(Reservations) /\ SpaceReserved
  BY DEF LogInv, TypeOK, ReserveInv
<1>1. rm' = [rm EXCEPT ![p] = 0] /\ op_reserved' = op_reserved - rm[p]
  BY DEF FreeRest
<1>2. Reservations = Reserved(rm) /\ Reservations' = Reserved(rm')
  BY DEF Reservations, Reserved
<1>3. 0 \in 0..OpMax
  BY LogAssumption
<1>4. /\ IsFiniteSet(Reservations')
      /\ Cardinality(Reservations') = Cardinality(Reservations) - rm[p] + 0
  BY <1>0, <1>1, <1>2, <1>3, ReservedChange, ZenonT(30)
<1>5. op_reserved' \in Int /\ SpaceReserved'
  BY <1>0, <1>1, <1>4, LogAssumption DEF SpaceReserved
<1>6. /\ rm' \in [Proc -> Nat] /\ rm'[p] = 0
      /\ \A q \in Proc : q # p => rm'[q] = rm[q]
  BY <1>0, <1>1
<1> QED
  BY <1>4, <1>5, <1>6, ZenonT(30)

\* The operation that leaves outstanding = 0 is the only one.
LEMMA CountEnd ==
    ASSUME LogInv, NEW p \in Open
    PROVE  /\ IsFiniteSet(Open \ {p})
           /\ outstanding - 1 = Cardinality(Open \ {p})
           /\ outstanding - 1 \in Nat
           /\ outstanding = 1 => Open \ {p} = {}
<1>1. IsFiniteSet(Open) /\ outstanding = Cardinality(Open)
  BY DEF LogInv, CountInv
<1>2. /\ IsFiniteSet(Open \ {p})
      /\ Cardinality(Open \ {p}) = Cardinality(Open) - 1
  BY <1>1, FS_RemoveElement
<1>3. Cardinality(Open \ {p}) \in Nat
  BY <1>2, FS_CardinalityType
<1>4. outstanding = 1 => Open \ {p} = {}
  BY <1>1, <1>2, FS_EmptySet
<1> QED
  BY <1>1, <1>2, <1>3, <1>4

\* cache_end_op under log.lock.
LEMMA EndOpInv ==
    ASSUME LogInv, NEW p \in Proc, EndOp(p)
    PROVE  LogInv'
<1>0. /\ TypeOK /\ BootInv /\ CountInv /\ CommitInv /\ ReserveInv /\ HeaderInv
      /\ DiskInv /\ PinInv /\ DirtyPinned
      /\ p \in Thread /\ p # Boot /\ pc[p] = "op"
  BY LogAssumption DEF LogInv, Thread, EndOp
<1>1. /\ home' = home /\ slot' = slot /\ dheader' = dheader
      /\ header' = header /\ data' = data /\ pinned' = pinned /\ mine' = mine
      /\ outstanding' = outstanding - 1
  BY DEF EndOp, diskState, cacheVars
<1>2. /\ Up /\ ~committing /\ p \in Open
      /\ dheader = <<>> /\ Logged(header) \subseteq pinned
      /\ \A t \in Thread : pc[t] \notin DiskPC
  BY <1>0, Running, ZenonT(30)
<1>3. /\ rm' \in [Proc -> Nat] /\ rm'[p] = 0
      /\ \A q \in Proc : q # p => rm'[q] = rm[q]
      /\ op_reserved' \in Int
      /\ IsFiniteSet(Reservations') /\ SpaceReserved'
  BY <1>1, FreeRestInv DEF EndOp
<1>4. PICK l \in {"post_s1", "commit_end", "write_log"} :
        /\ Goto(p, l)
        /\ \/ l = "post_s1" /\ committing' = committing /\ tail' = tail
           \/ /\ l \in {"commit_end", "write_log"} /\ outstanding = 1
              /\ committing' = TRUE
              /\ tail' = [tail EXCEPT ![p] = 1]
              /\ l = "write_log" => header # <<>>
  BY ZenonT(30) DEF EndOp
<1>5. /\ pc' \in [Thread -> PC \cup BootPC] /\ pc'[p] = l
      /\ \A t \in Thread : t # p => pc'[t] = pc[t]
      /\ \A q \in Proc : q # p => pc'[q] = pc[q]
      /\ pc'[Boot] = pc[Boot] /\ Up'
  BY <1>0, <1>2, <1>4 DEF TypeOK, Goto, Thread, PC, CommitPC, Up
<1>6. Open' = Open \ {p}
  BY <1>5, ZenonT(30) DEF Open
<1>7. TypeOK'
  <2>1. tail' \in [Thread -> Nat \ {0}]
    BY <1>0, <1>4 DEF TypeOK
  <2>2. committing' \in BOOLEAN
    BY <1>0, <1>4, ZenonT(30) DEF TypeOK
  <2>3. outstanding' \in Nat
    BY <1>1, <1>2, CountEnd, ZenonT(30)
  <2> QED
    BY <1>0, <1>1, <1>3, <1>5, <2>1, <2>2, <2>3, ZenonT(30) DEF TypeOK
<1>8. BootInv'
  BY <1>0, <1>2, <1>5 DEF BootInv, PC, CommitPC, Up
<1>9. CountInv'
  BY <1>1, <1>2, <1>6, CountEnd DEF CountInv
<1>10. CommitInv'
  <2>1. \A q \in Proc : q # p => pc'[q] \notin CommitPC
    BY <1>0, <1>2, <1>5 DEF CommitInv
  <2>2. pc'[p] \in CommitPC => committing'
    BY <1>4, <1>5 DEF CommitPC
  <2>3. committing' => Open' = {}
    BY <1>2, <1>4, <1>6, CountEnd, ZenonT(30)
  <2> QED
    BY <2>1, <2>2, <2>3, ZenonT(30) DEF CommitInv
<1>11. ReserveInv'
  <2>1. \A q \in Proc : /\ rm'[q] \in 0..OpMax
                        /\ pc'[q] # "op" => rm'[q] = 0
                        /\ pc'[q] # "panic"
    BY <1>0, <1>3, <1>5, LogAssumption DEF ReserveInv
  <2>2. \A q \in Open' : /\ mine'[q] \subseteq Logged(header')
                         /\ IsFiniteSet(mine'[q])
                         /\ OpMax <= rm'[q] + Cardinality(mine'[q])
    BY <1>0, <1>1, <1>3, <1>6 DEF ReserveInv, Open
  <2> QED
    BY <1>3, <2>1, <2>2 DEF ReserveInv
<1>12. HeaderInv'
  BY <1>0, <1>1, ZenonT(30) DEF HeaderInv
<1>13. DiskInv'
  <2>1. \A t \in Thread : t # p => pc'[t] \notin DiskPC
    BY <1>2, <1>5, ZenonT(30)
  <2>2. pc'[p] = "write_log" =>
           tail'[p] \in 1..Len(header) /\ \A i \in 1..(tail'[p] - 1) : FALSE
    BY <1>0, <1>4, <1>5 DEF TypeOK
  <2>3. pc'[p] \notin {"write_header", "install", "clear", "clear_header"}
    BY <1>5, ZenonT(30)
  <2> QED
    BY <1>1, <1>2, <2>1, <2>2, <2>3, ZenonT(30) DEF DiskInv, DiskPC, SlotsCached
<1>14. PinInv' /\ DirtyPinned'
  BY <1>0, <1>1, <1>2 DEF PinInv, DirtyPinned
<1> QED
  BY <1>7, <1>8, <1>9, <1>10, <1>11, <1>12, <1>13, <1>14, ZenonT(30) DEF LogInv
=============================================================================
