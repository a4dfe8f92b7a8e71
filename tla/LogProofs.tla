----------------------------- MODULE LogProofs ------------------------------
(***************************************************************************)
(* TLAPS proofs about Log: the invariants of the write-ahead log and its   *)
(* refinement of AtomicDisk, for any processes, blocks, contents and sizes *)
(* and with a crash between any two steps.                                 *)
(***************************************************************************)
EXTENDS LogOpProofs

\* A leaf that names no prover is tried by Z3 twice, by Zenon, and by Z3 again.
USE SMTT(10), Z3T(10), ZenonT(30), SMTT(30)

-----------------------------------------------------------------------------
(***************************************************************************)
(* Commit and recovery.                                                    *)
(***************************************************************************)

\* The header in memory fits into the log.
LEMMA HeaderFits ==
    ASSUME LogInv
    PROVE  /\ header \in Seq(Block) /\ Distinct(header)
           /\ Len(header) \in Nat /\ Len(header) <= LogMax
           /\ \A i \in 1..Len(header) : header[i] \in Block /\ i \in 1..LogMax
<1>1. /\ header \in Seq(Block) /\ Distinct(header)
      /\ op_reserved = Cardinality(Reservations) /\ IsFiniteSet(Reservations)
      /\ Len(header) + op_reserved <= LogMax
  BY DEF LogInv, TypeOK, HeaderInv, ReserveInv, SpaceReserved
<1>2. op_reserved \in Nat
  BY <1>1, FS_CardinalityType
<1> QED
  BY <1>1, <1>2, LogAssumption

\* A step of the thread that commits or recovers: nobody else is writing, no
\* operation is running, and the counters of the log are right as they are.
LEMMA WriterControl ==
    ASSUME LogInv, NEW t \in Thread, pc[t] \in DiskPC, NEW l,
           t \in Proc => l \in CommitPC,
           t = Boot => l \in BootPC \ {"read_header"},
           Goto(t, l), UNCHANGED <<committing, outstanding, op_reserved, rm>>,
           header' \in {header, <<>>},
           t = Boot /\ l # "done" => data' = home'
    PROVE  /\ pc' \in [Thread -> PC \cup BootPC] /\ pc'[t] = l
           /\ \A u \in Thread \ {t} : pc'[u] = pc[u] /\ pc[u] \notin DiskPC
           /\ t \in Proc => Up /\ Up'
           /\ t = Boot => ~Up /\ (Up' <=> l = "done")
           /\ Open = {} /\ Open' = {}
           /\ BootInv' /\ CountInv' /\ CommitInv' /\ ReserveInv'
<1>0. TypeOK /\ BootInv /\ CountInv /\ CommitInv /\ ReserveInv
  BY DEF LogInv
<1>1. /\ committing' = committing /\ outstanding' = outstanding
      /\ op_reserved' = op_reserved /\ rm' = rm
  OBVIOUS
<1>2. /\ Boot \in Thread /\ Boot \notin Proc /\ Proc \subseteq Thread
      /\ t \in Proc \/ t = Boot
  BY LogAssumption DEF Thread
<1>3. /\ pc' \in [Thread -> PC \cup BootPC] /\ pc'[t] = l
      /\ \A u \in Thread \ {t} : pc'[u] = pc[u]
  BY <1>0, <1>2 DEF TypeOK, Goto, PC
<1>4. \A u \in Thread \ {t} : pc[u] \notin DiskPC
  BY Alone
<1>5. t \in Proc => Up /\ Up' /\ pc[t] \in CommitPC /\ committing
  BY <1>0, <1>2, <1>3 DEF BootInv, CommitInv, Up, DiskPC, CommitPC
<1>6. t = Boot => ~Up /\ (Up' <=> l = "done")
  BY <1>3 DEF Up, DiskPC
<1>7. Open = {}
  BY <1>0, <1>2, <1>5, <1>6 DEF Open, BootInv, CommitInv
<1>8. Open' = {}
  BY <1>2, <1>3, <1>7 DEF Open, CommitPC
<1>9. BootInv'
  <2>1. CASE t \in Proc
    BY <1>0, <1>2, <1>3, <1>5, <2>1 DEF BootInv, Up, PC
  <2>2. CASE t = Boot
    BY <1>0, <1>1, <1>2, <1>3, <1>6, <2>2 DEF BootInv
  <2> QED
    BY <1>2, <2>1, <2>2
<1>10. CountInv'
  BY <1>0, <1>1, <1>7, <1>8 DEF CountInv
<1>11. CommitInv'
  <2>1. CASE t \in Proc
    BY <1>0, <1>1, <1>2, <1>3, <1>5, <1>8, <2>1 DEF CommitInv
  <2>2. CASE t = Boot
    BY <1>0, <1>1, <1>2, <1>3, <1>8, <2>2 DEF CommitInv
  <2> QED
    BY <1>2, <2>1, <2>2
<1>12. ReserveInv'
  <2>1. Reservations' = Reservations
    BY <1>1 DEF Reservations
  <2>2. SpaceReserved'
    <3>1. Len(header) \in Nat /\ Len(header') \in {Len(header), 0}
      BY <1>0 DEF TypeOK
    <3> QED
      BY <1>0, <1>1, <2>1, <3>1, LogAssumption
      DEF SpaceReserved, ReserveInv, TypeOK
  <2>3. \A p \in Proc : /\ rm'[p] \in 0..OpMax
                        /\ pc'[p] # "op" => rm'[p] = 0
                        /\ pc'[p] # "panic"
    BY <1>0, <1>1, <1>2, <1>3, <1>7 DEF ReserveInv, Open, CommitPC
  <2> QED
    BY <1>0, <1>8, <2>1, <2>2, <2>3 DEF ReserveInv
<1> QED
  BY <1>3, <1>4, <1>5, <1>6, <1>7, <1>8, <1>9, <1>10, <1>11, <1>12

\* One turn of write_log.
LEMMA WriteLogInv ==
    ASSUME LogInv, NEW p \in Proc, WriteLog(p)
    PROVE  LogInv'
<1>0. /\ TypeOK /\ HeaderInv /\ DiskInv /\ PinInv /\ DirtyPinned
      /\ p \in Thread /\ p # Boot /\ pc[p] = "write_log"
  BY LogAssumption DEF LogInv, Thread, WriteLog
<1> DEFINE n == tail[p]
<1>1. /\ home' = home /\ dheader' = dheader /\ header' = header
      /\ committing' = committing /\ outstanding' = outstanding
      /\ op_reserved' = op_reserved /\ data' = data /\ pinned' = pinned
      /\ rm' = rm /\ mine' = mine
      /\ slot' = [slot EXCEPT ![n] = data[header[n]]]
  BY DEF WriteLog, logVars, cacheVars
<1>2. PICK l \in {"write_log", "write_header"} :
        /\ Goto(p, l)
        /\ \/ l = "write_log" /\ n < Len(header)
              /\ tail' = [tail EXCEPT ![p] = n + 1]
           \/ l = "write_header" /\ ~(n < Len(header))
              /\ tail' = [tail EXCEPT ![p] = 1]
  BY DEF WriteLog, NextTurn
<1>3. /\ n \in 1..Len(header) /\ SlotsCached(n - 1) /\ n \in Nat
      /\ Len(header) \in Nat /\ n \in 1..LogMax /\ header[n] \in Block
  BY <1>0, HeaderFits DEF DiskInv
<1>4. /\ pc' \in [Thread -> PC \cup BootPC] /\ pc'[p] = l
      /\ \A u \in Thread \ {p} : pc'[u] = pc[u] /\ pc[u] \notin DiskPC
      /\ Up /\ Up'
      /\ BootInv' /\ CountInv' /\ CommitInv' /\ ReserveInv'
  BY <1>0, <1>1, <1>2, WriterControl DEF DiskPC, CommitPC
<1>5. /\ slot' \in [1..LogMax -> Val] /\ slot'[n] = data[header[n]]
      /\ \A i \in 1..LogMax : i # n => slot'[i] = slot[i]
  BY <1>0, <1>1, <1>3 DEF TypeOK
<1>6. tail' \in [Thread -> Nat \ {0}]
  BY <1>0, <1>2, <1>3 DEF TypeOK
<1>7. TypeOK'
  BY <1>0, <1>1, <1>4, <1>5, <1>6, ZenonT(30) DEF TypeOK
<1>8. HeaderInv'
  BY <1>0, <1>1 DEF HeaderInv
<1>9. \A i \in 1..n : slot'[i] = data'[header'[i]]
  BY <1>1, <1>3, <1>5, HeaderFits DEF SlotsCached
<1>10. DiskInv'
  <2>1. \A u \in Thread \ {p} : pc'[u] \notin DiskPC
    BY <1>4
  <2>2. pc'[p] = "write_log" => tail'[p] = n + 1 /\ n + 1 \in 1..Len(header')
    BY <1>0, <1>1, <1>2, <1>3, <1>4 DEF TypeOK
  <2>3. pc'[p] = "write_header" =>
           tail'[p] = 1 /\ n = Len(header') /\ Len(header') > 0
    BY <1>0, <1>1, <1>2, <1>3, <1>4 DEF TypeOK
  <2>4. \A q \in Proc : pc[q] \notin {"install", "clear", "clear_header"}
    BY <1>0, <1>4 DEF DiskPC, Thread
  <2>5. dheader' = <<>>
    BY <1>0, <1>1, <1>4, <2>4 DEF DiskInv
  <2>6. pc'[p] \notin {"install", "clear", "clear_header"}
    BY <1>4
  <2>7. pc'[p] = "write_log" => \A i \in 1..(tail'[p] - 1) : i \in 1..n
    BY <1>3, <2>2
  <2>8. pc'[p] = "write_header" => \A i \in 1..Len(header') : i \in 1..n
    BY <2>3
  <2> HIDE DEF n
  <2> QED
    BY <1>1, <1>9, <2>1, <2>2, <2>3, <2>5, <2>6, <2>7, <2>8, ZenonT(30)
    DEF DiskInv, DiskPC, SlotsCached
<1>11. PinInv' /\ DirtyPinned'
  <2>1. \A q \in Proc : pc[q] \notin {"install", "clear"}
    BY <1>0, <1>4 DEF DiskPC, Thread
  <2> QED
    BY <1>0, <1>1, <1>4, <2>1 DEF PinInv, DirtyPinned
<1> QED
  BY <1>4, <1>7, <1>8, <1>10, <1>11 DEF LogInv

\* The commit point: write_header after write_log.
LEMMA WriteHeaderInv ==
    ASSUME LogInv, NEW p \in Proc, WriteHeader(p)
    PROVE  LogInv'
<1>0. /\ TypeOK /\ HeaderInv /\ DiskInv /\ PinInv /\ DirtyPinned
      /\ p \in Thread /\ p # Boot /\ pc[p] = "write_header"
  BY LogAssumption DEF LogInv, Thread, WriteHeader
<1>1. /\ home' = home /\ slot' = slot /\ dheader' = header /\ header' = header
      /\ committing' = committing /\ outstanding' = outstanding
      /\ op_reserved' = op_reserved /\ data' = data /\ pinned' = pinned
      /\ rm' = rm /\ tail' = tail
      /\ mine' = [q \in Proc |-> {}]
      /\ Goto(p, "install")
  BY DEF WriteHeader, logVars, cacheVars
<1>2. /\ header \in Seq(Block) /\ Distinct(header)
      /\ Len(header) \in Nat /\ Len(header) <= LogMax
  BY HeaderFits
<1>3. Len(header) > 0 /\ tail[p] = 1 /\ SlotsCached(Len(header))
  BY <1>0 DEF DiskInv
<1>4. /\ pc' \in [Thread -> PC \cup BootPC] /\ pc'[p] = "install"
      /\ \A u \in Thread \ {p} : pc'[u] = pc[u] /\ pc[u] \notin DiskPC
      /\ Up /\ Up'
      /\ BootInv' /\ CountInv' /\ CommitInv' /\ ReserveInv'
  BY <1>0, <1>1, WriterControl DEF DiskPC, CommitPC
<1>5. mine' \in [Proc -> SUBSET Block]
  BY <1>1
<1>6. TypeOK'
  BY <1>0, <1>1, <1>4, <1>5 DEF TypeOK
<1>7. HeaderInv'
  BY <1>1, <1>2, ZenonT(30) DEF HeaderInv
<1>8. DiskInv'
  <2>1. \A u \in Thread \ {p} : pc'[u] \notin DiskPC
    BY <1>4
  <2>2. tail'[p] \in 1..Len(header') /\ \A i \in 1..(tail'[p] - 1) : FALSE
    BY <1>1, <1>2, <1>3
  <2>3. SlotsCached(Len(header))'
    BY <1>1, <1>3 DEF SlotsCached
  <2> QED
    BY <1>0, <1>1, <1>4, <2>1, <2>2, <2>3 DEF DiskInv, DiskPC, SlotsInPlace
<1>9. PinInv' /\ DirtyPinned'
  BY <1>0, <1>1, <1>4 DEF PinInv, DirtyPinned
<1> QED
  BY <1>4, <1>6, <1>7, <1>8, <1>9 DEF LogInv

\* One turn of install_trans, in commit or in recovery.
LEMMA InstallInv ==
    ASSUME LogInv, NEW t \in Thread, Install(t)
    PROVE  LogInv'
<1> DEFINE n == tail[t]
           b == header[n]
<1>0. /\ TypeOK /\ BootInv /\ HeaderInv /\ DiskInv /\ DirtyPinned
      /\ pc[t] = "install"
  BY DEF LogInv, Install
<1>1. /\ slot' = slot /\ dheader' = dheader /\ header' = header
      /\ committing' = committing /\ outstanding' = outstanding
      /\ op_reserved' = op_reserved /\ rm' = rm /\ mine' = mine
      /\ data' = [data EXCEPT ![b] = slot[n]]
      /\ home' = [home EXCEPT ![b] = slot[n]]
      /\ pinned' = pinned \ {b}
  BY DEF Install, logVars
<1>2. PICK l \in {"install", "clear"} :
        /\ Goto(t, l)
        /\ \/ l = "install" /\ n < Len(header)
              /\ tail' = [tail EXCEPT ![t] = n + 1]
           \/ l = "clear" /\ ~(n < Len(header))
              /\ tail' = [tail EXCEPT ![t] = 1]
  BY DEF Install, NextTurn
<1>3. /\ dheader = header /\ n \in 1..Len(header) /\ n \in Nat
      /\ Len(header) \in Nat /\ n \in 1..LogMax /\ b \in Block
      /\ \A i \in 1..Len(header) : header[i] \in Block /\ i \in 1..LogMax
      /\ \A i, j \in 1..Len(header) : header[i] = header[j] => i = j
      /\ \A i \in 1..(n - 1) : home[header[i]] = slot[i]
      /\ t \in Proc => \A i \in 1..Len(header) : slot[i] = data[header[i]]
  BY <1>0, HeaderFits DEF DiskInv, SlotsInPlace, SlotsCached, Distinct
<1>4. /\ data' \in [Block -> Val] /\ home' \in [Block -> Val]
      /\ data'[b] = slot[n] /\ home'[b] = slot[n]
      /\ \A c \in Block : c # b => data'[c] = data[c] /\ home'[c] = home[c]
  BY <1>0, <1>1, <1>3, ZenonT(30) DEF TypeOK
<1>5. t = Boot => data' = home'
  BY <1>0, <1>1, ZenonT(30) DEF BootInv, Up
<1>6. /\ pc' \in [Thread -> PC \cup BootPC] /\ pc'[t] = l
      /\ \A u \in Thread \ {t} : pc'[u] = pc[u] /\ pc[u] \notin DiskPC
      /\ t \in Proc => Up
      /\ t = Boot => ~Up'
      /\ BootInv' /\ CountInv' /\ CommitInv' /\ ReserveInv'
  <2>1. l \in CommitPC /\ l \in BootPC \ {"read_header"} /\ l # "done"
    BY DEF CommitPC, BootPC
  <2> HIDE DEF n, b
  <2> QED
    BY <1>0, <1>1, <1>2, <1>5, <2>1, WriterControl, ZenonT(30) DEF DiskPC
<1>7. tail' \in [Thread -> Nat \ {0}] /\ pinned' \in SUBSET Block
  BY <1>0, <1>1, <1>2, <1>3 DEF TypeOK
<1>8. TypeOK'
  BY <1>0, <1>1, <1>4, <1>6, <1>7, ZenonT(30) DEF TypeOK
<1>9. HeaderInv'
  BY <1>0, <1>1 DEF HeaderInv
<1>10. \A i \in 1..n : home'[header'[i]] = slot'[i]
  BY <1>1, <1>3, <1>4
<1>11. t \in Proc => \A i \in 1..Len(header') : slot'[i] = data'[header'[i]]
  BY <1>1, <1>3, <1>4, ZenonT(30)
<1>12. DiskInv'
  <2>1. \A u \in Thread \ {t} : pc'[u] \notin DiskPC
    BY <1>6, ZenonT(30)
  <2>2. pc'[t] = "install" =>
           /\ tail'[t] \in 1..Len(header')
           /\ \A i \in 1..(tail'[t] - 1) : i \in 1..n
    BY <1>0, <1>1, <1>2, <1>3, <1>6 DEF TypeOK
  <2>3. pc'[t] = "clear" => \A i \in 1..Len(header') : i \in 1..n
    BY <1>1, <1>2, <1>3, <1>6
  <2>4. Up' => t \in Proc
    BY <1>6, ZenonT(30) DEF Thread
  <2>5. dheader' = header' /\ pc'[t] \in {"install", "clear"}
    BY <1>1, <1>3, <1>6, ZenonT(30)
  <2> HIDE DEF n
  <2> QED
    BY <1>10, <1>11, <2>1, <2>2, <2>3, <2>4, <2>5, ZenonT(30)
    DEF DiskInv, DiskPC, SlotsCached, SlotsInPlace
<1>13. PinInv' /\ DirtyPinned'
  <2>1. Up' => t \in Proc /\ Up
    BY <1>6 DEF Thread
  <2>2. pc'[t] \in {"install", "clear"}
    BY <1>6, ZenonT(30)
  <2>3. ASSUME Up', NEW c \in Block, data'[c] # home'[c]
        PROVE  c \in pinned' \cap Logged(header')
    BY <1>0, <1>1, <1>4, <2>1, <2>3 DEF DirtyPinned
  <2> QED
    BY <2>1, <2>2, <2>3 DEF PinInv, DirtyPinned
<1> QED
  BY <1>6, <1>8, <1>9, <1>12, <1>13 DEF LogInv

\* After install_trans, log.header.num_blocks = 0.
LEMMA ClearInv ==
    ASSUME LogInv, NEW t \in Thread, Clear(t)
    PROVE  LogInv'
<1>0. /\ TypeOK /\ BootInv /\ HeaderInv /\ DiskInv /\ DirtyPinned
      /\ pc[t] = "clear"
  BY DEF LogInv, Clear
<1>1. /\ home' = home /\ slot' = slot /\ dheader' = dheader /\ header' = <<>>
      /\ committing' = committing /\ outstanding' = outstanding
      /\ op_reserved' = op_reserved /\ data' = data /\ pinned' = pinned
      /\ rm' = rm /\ tail' = tail /\ mine' = mine
      /\ Goto(t, "clear_header")
  BY DEF Clear, diskState, cacheVars
<1>2. /\ dheader = header
      /\ \A i \in 1..Len(header) : home[header[i]] = slot[i]
      /\ t \in Proc => \A i \in 1..Len(header) : slot[i] = data[header[i]]
  BY <1>0 DEF DiskInv, SlotsInPlace, SlotsCached
<1>3. t = Boot => data' = home'
  BY <1>0, <1>1 DEF BootInv, Up
<1>4. /\ pc' \in [Thread -> PC \cup BootPC] /\ pc'[t] = "clear_header"
      /\ \A u \in Thread \ {t} : pc'[u] = pc[u] /\ pc[u] \notin DiskPC
      /\ t \in Proc => Up
      /\ t = Boot => ~Up'
      /\ BootInv' /\ CountInv' /\ CommitInv' /\ ReserveInv'
  BY <1>0, <1>1, <1>3, WriterControl DEF DiskPC, CommitPC, BootPC
<1>5. header' \in Seq(Block) /\ Distinct(header') /\ Logged(header') = {}
  BY <1>1 DEF Distinct, Logged
<1>6. TypeOK'
  BY <1>0, <1>1, <1>4, <1>5 DEF TypeOK
<1>7. HeaderInv'
  BY <1>0, <1>1, <1>5 DEF HeaderInv
<1>8. Up' => t \in Proc
  BY <1>4, ZenonT(30) DEF Thread
<1>9. DiskInv'
  <2>1. \A u \in Thread \ {t} : pc'[u] \notin DiskPC
    BY <1>4, ZenonT(30)
  <2>2. \A i \in 1..Len(dheader') : home'[dheader'[i]] = slot'[i]
    BY <1>1, <1>2
  <2> QED
    BY <1>1, <1>4, <1>8, <2>1, <2>2 DEF DiskInv, DiskPC, SlotsInPlace
<1>10. DirtyPinned'
  <2>1. ASSUME Up', NEW b \in Block, data'[b] # home'[b] PROVE FALSE
    <3>1. b \in Logged(header) /\ t \in Proc
      BY <1>0, <1>1, <1>4, <1>8, <2>1 DEF DirtyPinned
    <3>2. PICK i \in 1..Len(header) : header[i] = b
      BY <3>1 DEF Logged
    <3> QED
      BY <1>1, <1>2, <2>1, <3>1, <3>2, ZenonT(30)
  <2> QED
    BY <2>1 DEF DirtyPinned
<1>11. PinInv'
  BY <1>5 DEF PinInv
<1> QED
  BY <1>4, <1>6, <1>7, <1>9, <1>10, <1>11 DEF LogInv

\* write_header of the empty header: commit or recovery is over.
LEMMA ClearHeaderInv ==
    ASSUME LogInv, NEW t \in Thread, ClearHeader(t)
    PROVE  LogInv'
<1>0. /\ TypeOK /\ BootInv /\ HeaderInv /\ DiskInv /\ PinInv /\ DirtyPinned
      /\ pc[t] = "clear_header" /\ Boot \notin Proc
  BY LogAssumption DEF LogInv, ClearHeader
<1> DEFINE l == IF t = Boot THEN "done" ELSE "commit_end"
<1>1. /\ home' = home /\ slot' = slot /\ dheader' = header /\ header' = header
      /\ committing' = committing /\ outstanding' = outstanding
      /\ op_reserved' = op_reserved /\ data' = data /\ pinned' = pinned
      /\ rm' = rm /\ tail' = tail /\ mine' = mine
      /\ Goto(t, l)
  BY DEF ClearHeader, logVars, cacheVars
<1>2. header = <<>> /\ Logged(header) = {} /\ Len(header) = 0
  BY <1>0 DEF DiskInv, Logged
<1>3. /\ l \in {"done", "commit_end"}
      /\ t \in Proc => l \in CommitPC
      /\ t = Boot => l \in BootPC \ {"read_header"} /\ l = "done"
  BY <1>0 DEF CommitPC, BootPC
<1> HIDE DEF l
<1>4. /\ pc' \in [Thread -> PC \cup BootPC] /\ pc'[t] = l
      /\ \A u \in Thread \ {t} : pc'[u] = pc[u] /\ pc[u] \notin DiskPC
      /\ t \in Proc => Up
      /\ t = Boot => ~Up
      /\ BootInv' /\ CountInv' /\ CommitInv' /\ ReserveInv'
  BY <1>0, <1>1, <1>3, WriterControl, ZenonT(30) DEF DiskPC
<1>5. TypeOK'
  BY <1>0, <1>1, <1>4 DEF TypeOK
<1>6. HeaderInv'
  BY <1>0, <1>1, <1>2, LogAssumption DEF HeaderInv
<1>7. DiskInv'
  <2>1. \A u \in Thread : pc'[u] \notin DiskPC
    BY <1>3, <1>4 DEF DiskPC
  <2> QED
    BY <1>1, <1>2, <2>1 DEF DiskInv, DiskPC
<1>8. PinInv'
  BY <1>1, <1>2 DEF PinInv
<1>9. DirtyPinned'
  <2>1. CASE t \in Proc
    BY <1>0, <1>1, <1>4, <2>1, ZenonT(30) DEF DirtyPinned
  <2>2. CASE t = Boot
    BY <1>0, <1>1, <1>4, <2>2 DEF BootInv, DirtyPinned
  <2> QED
    BY <2>1, <2>2, ZenonT(30) DEF Thread
<1> QED
  BY <1>4, <1>5, <1>6, <1>7, <1>8, <1>9 DEF LogInv

\* The end of a commit: operations are let in again.
LEMMA CommitEndInv ==
    ASSUME LogInv, NEW p \in Proc, CommitEnd(p)
    PROVE  LogInv'
<1>0. /\ TypeOK /\ BootInv /\ CountInv /\ CommitInv /\ ReserveInv /\ HeaderInv
      /\ DiskInv /\ PinInv /\ DirtyPinned
      /\ p \in Thread /\ p # Boot /\ pc[p] = "commit_end"
  BY LogAssumption DEF LogInv, Thread, CommitEnd
<1>1. /\ home' = home /\ slot' = slot /\ dheader' = dheader
      /\ header' = header /\ committing' = FALSE
      /\ outstanding' = outstanding /\ op_reserved' = op_reserved
      /\ data' = data /\ pinned' = pinned /\ rm' = rm /\ tail' = tail
      /\ mine' = mine /\ Goto(p, "post1")
  BY DEF CommitEnd, diskState, cacheVars
<1>2. /\ pc' \in [Thread -> PC \cup BootPC] /\ pc'[p] = "post1"
      /\ \A u \in Thread \ {p} : pc'[u] = pc[u]
      /\ pc'[Boot] = pc[Boot]
  BY <1>0, <1>1 DEF TypeOK, Goto, Thread, PC
<1>3. Up /\ Up'
  BY <1>0, <1>2 DEF BootInv, Up
<1>4. \A q \in Proc \ {p} : pc[q] \notin CommitPC /\ pc'[q] = pc[q]
  BY <1>0, <1>2 DEF CommitInv, CommitPC, Thread
<1>5. Open' = Open
  BY <1>0, <1>2, <1>4 DEF Open
<1>6. TypeOK'
  BY <1>0, <1>1, <1>2, ZenonT(30) DEF TypeOK
<1>7. BootInv'
  BY <1>0, <1>2, <1>3, <1>4 DEF BootInv, PC, Up
<1>8. CountInv' /\ CommitInv'
  BY <1>0, <1>1, <1>2, <1>4, <1>5 DEF CountInv, CommitInv, CommitPC
<1>9. ReserveInv'
  <2>1. Reservations' = Reservations
    BY <1>1 DEF Reservations
  <2> QED
    BY <1>0, <1>1, <1>2, <1>4, <1>5, <2>1 DEF ReserveInv, SpaceReserved
<1>10. HeaderInv'
  BY <1>0, <1>1 DEF HeaderInv
<1>11. \A u \in Thread : pc'[u] \notin DiskPC
  BY <1>2, <1>3, <1>4 DEF Thread, DiskPC, CommitPC, Up
<1>12. \A q \in Proc : pc[q] \notin {"install", "clear", "clear_header"}
  BY <1>0, <1>4, ZenonT(30) DEF CommitPC
<1>13. DiskInv'
  BY <1>0, <1>1, <1>3, <1>11, <1>12, ZenonT(30) DEF DiskInv, DiskPC
<1>14. PinInv' /\ DirtyPinned'
  BY <1>0, <1>1, <1>3, <1>12 DEF PinInv, DirtyPinned
<1> QED
  BY <1>6, <1>7, <1>8, <1>9, <1>10, <1>13, <1>14 DEF LogInv

\* A crash at any point: memory is lost, the disk is what it was.
LEMMA CrashInv ==
    ASSUME LogInv, Crash
    PROVE  LogInv'
<1>0. TypeOK /\ HeaderInv
  BY DEF LogInv
<1>1. /\ home' = home /\ slot' = slot /\ dheader' = dheader
      /\ header' = <<>> /\ data' = home /\ pinned' = {}
      /\ outstanding' = 0 /\ op_reserved' = 0
      /\ pc' = [t \in Thread |-> IF t = Boot THEN "read_header" ELSE "idle"]
      /\ rm' = [p \in Proc |-> 0]
      /\ tail' = [t \in Thread |-> 1]
      /\ mine' = [p \in Proc |-> {}]
  BY DEF Crash, diskState
<1>2. committing' = FALSE
  BY DEF Crash
<1>3. /\ pc'[Boot] = "read_header" /\ tail'[Boot] = 1 /\ ~Up'
      /\ \A p \in Proc : pc'[p] = "idle" /\ rm'[p] = 0
      /\ \A t \in Thread : pc'[t] \in {"read_header", "idle"}
  BY <1>1, LogAssumption DEF Thread, Up
<1>4. TypeOK'
  <2>1. pc' \in [Thread -> PC \cup BootPC]
    BY <1>1 DEF PC, BootPC
  <2>2. tail' \in [Thread -> Nat \ {0}]
    BY <1>1
  <2>3. rm' \in [Proc -> Nat] /\ mine' \in [Proc -> SUBSET Block]
    BY <1>1
  <2>4. header' \in Seq(Block)
    BY <1>1
  <2>5. pinned' \in SUBSET Block /\ outstanding' \in Nat /\ op_reserved' \in Int
    BY <1>1
  <2>6. committing' \in BOOLEAN
    BY <1>2, ZenonT(30)
  <2> QED
    BY <1>0, <1>1, <2>1, <2>2, <2>3, <2>4, <2>5, <2>6, ZenonT(30) DEF TypeOK
<1>5. Open' = {} /\ Reservations' = {}
  BY <1>3 DEF Open, Reservations
<1>6. BootInv'
  BY <1>1, <1>2, <1>3 DEF BootInv, BootPC, PC
<1>7. CommitInv'
  BY <1>2, <1>3 DEF CommitInv, CommitPC
<1>8. CountInv' /\ ReserveInv'
  BY <1>1, <1>3, <1>5, FS_EmptySet, LogAssumption
  DEF CountInv, ReserveInv, SpaceReserved
<1>9. HeaderInv'
  BY <1>0, <1>1 DEF HeaderInv, Distinct
<1>10. DiskInv' /\ PinInv' /\ DirtyPinned'
  BY <1>3 DEF DiskInv, PinInv, DirtyPinned
<1> QED
  BY <1>4, <1>6, <1>7, <1>8, <1>9, <1>10 DEF LogInv

\* recover_from_log reads the header that a crash left on the disk.
LEMMA ReadHeaderInv ==
    ASSUME LogInv, ReadHeader
    PROVE  LogInv'
<1>0. /\ TypeOK /\ BootInv /\ CountInv /\ CommitInv /\ ReserveInv /\ HeaderInv
      /\ DiskInv /\ pc[Boot] = "read_header" /\ ~Up
      /\ Boot \in Thread /\ Boot \notin Proc
  BY LogAssumption DEF LogInv, Thread, ReadHeader, Up
<1>1. /\ home' = home /\ slot' = slot /\ dheader' = dheader
      /\ header' = dheader /\ committing' = committing
      /\ outstanding' = outstanding /\ op_reserved' = op_reserved
      /\ data' = data /\ pinned' = pinned /\ rm' = rm /\ tail' = tail
      /\ mine' = mine
  BY DEF ReadHeader, diskState, cacheVars
<1>2. PICK l \in {"clear", "install"} :
        Goto(Boot, l) /\ (l = "clear" <=> dheader = <<>>)
  BY DEF ReadHeader
<1>3. /\ pc' \in [Thread -> PC \cup BootPC] /\ pc'[Boot] = l /\ ~Up'
      /\ \A p \in Proc : pc'[p] = pc[p] /\ pc[p] = "idle"
  BY <1>0, <1>2, ZenonT(30) DEF TypeOK, BootInv, Goto, Thread, BootPC, Up
<1>4. TypeOK'
  BY <1>0, <1>1, <1>3, ZenonT(30) DEF TypeOK
<1>5. BootInv'
  BY <1>0, <1>1, <1>3 DEF BootInv, BootPC
<1>6. Open' = {} /\ Open = {}
  BY <1>3 DEF Open
<1>7. CountInv' /\ CommitInv'
  BY <1>0, <1>1, <1>3, <1>6, ZenonT(30) DEF CountInv, CommitInv, CommitPC
<1>8. ReserveInv'
  <2>1. Reservations = {}
    BY <1>0, <1>3 DEF Reservations, ReserveInv
  <2>2. Reservations' = Reservations
    BY <1>1 DEF Reservations
  <2>3. op_reserved = 0
    BY <1>0, <2>1, FS_EmptySet, ZenonT(30) DEF ReserveInv, SpaceReserved
  <2>4. SpaceReserved'
    BY <1>0, <1>1, <2>1, <2>2, <2>3, FS_EmptySet
       DEF SpaceReserved, HeaderInv, TypeOK
  <2> QED
    BY <1>0, <1>1, <1>3, <1>6, <2>2, <2>4, ZenonT(30) DEF ReserveInv
<1>9. HeaderInv'
  BY <1>0, <1>1, ZenonT(30) DEF HeaderInv
<1>10. DiskInv'
  <2>1. \A t \in Thread \ {Boot} : pc'[t] = "idle"
    BY <1>3, ZenonT(30) DEF Thread
  <2>2. tail'[Boot] = 1 /\ \A i \in 1..(tail'[Boot] - 1) : FALSE
    BY <1>0, <1>1 DEF BootInv
  <2>3. pc'[Boot] = "install" => 1 \in 1..Len(header')
    BY <1>0, <1>1, <1>2, <1>3 DEF TypeOK
  <2>4. pc'[Boot] = "clear" => \A i \in 1..Len(header') : FALSE
    BY <1>1, <1>2, <1>3
  <2> QED
    BY <1>0, <1>1, <1>3, <2>1, <2>2, <2>3, <2>4, ZenonT(30)
       DEF DiskInv, SlotsInPlace
<1>11. PinInv' /\ DirtyPinned'
  BY <1>3 DEF PinInv, DirtyPinned
<1> QED
  BY <1>4, <1>5, <1>7, <1>8, <1>9, <1>10, <1>11 DEF LogInv

-----------------------------------------------------------------------------
(***************************************************************************)
(* The invariants of the log.                                              *)
(***************************************************************************)
LEMMA NextLogInv == LogInv /\ [Next]_vars => LogInv'
<1> SUFFICES ASSUME LogInv, [Next]_vars PROVE LogInv'
  OBVIOUS
<1>1. ASSUME NEW p \in Proc, Step(p) PROVE LogInv'
  BY <1>1, BeginInv, WaitSemInv, EndOpInv, PostInv, WriteLogInv, WriteHeaderInv,
     CommitEndInv, UpdateInv DEF Step
<1>2. ASSUME NEW t \in Thread, Install(t) \/ Clear(t) \/ ClearHeader(t)
      PROVE  LogInv'
  BY <1>2, InstallInv, ClearInv, ClearHeaderInv
<1>3. CASE Crash
  BY <1>3, CrashInv
<1>4. CASE ReadHeader
  BY <1>4, ReadHeaderInv, ZenonT(30)
<1>5. CASE UNCHANGED vars
  BY ZenonT(30), <1>5
     DEF vars, diskState, logVars, cacheVars, LogInv, TypeOK, BootInv,
              CountInv, CommitInv, ReserveInv, SpaceReserved, Reservations,
              HeaderInv, DiskInv, PinInv, DirtyPinned, Open, Up, SlotsCached,
              SlotsInPlace
<1> QED
  BY <1>1, <1>2, <1>3, <1>4, <1>5 DEF Next

\* The inductive invariant holds in every state the log can reach.
THEOREM LogInvariant == Spec => []LogInv
<1> QED
  BY InitLogInv, NextLogInv, PTL DEF Spec

\* The log's state keeps its types, on disk and in memory (struct log,
\* LogHeader, and OpContext in cache.c).
THEOREM LogTypeOK == Spec => []TypeOK
<1>1. LogInv => TypeOK
  BY DEF LogInv
<1> QED
  BY <1>1, LogInvariant, PTL

\* While a commit writes the log, no operation runs and no other commit is in
\* progress, however begin_op and end_op interleave.
THEOREM LogCommitAlone == Spec => []CommitAlone
<1>1. LogInv => CommitAlone
  BY DEF LogInv, CommitInv, CommitAlone, Open
<1> QED
  BY <1>1, LogInvariant, PTL

\* What the cache holds and the disk does not is pinned and in the header, so
\* eviction and the next commit keep it.
THEOREM LogDirtyPinned == Spec => []DirtyPinned
<1>1. LogInv => DirtyPinned
  BY DEF LogInv
<1> QED
  BY <1>1, LogInvariant, PTL

\* cache_sync never panics in an operation that keeps to OP_MAX_NUM_BLOCKS
\* blocks, whatever the other operations log.
THEOREM LogNeverPanics == Spec => []NoLogPanic
<1>1. LogInv => NoLogPanic
  BY DEF LogInv, ReserveInv, NoLogPanic
<1> QED
  BY <1>1, LogInvariant, PTL

\* op_reserved is what the running operations may still log, and that and the
\* header fit into the log.
THEOREM LogSpaceReserved == Spec => []SpaceReserved
<1>1. LogInv => SpaceReserved
  BY DEF LogInv, ReserveInv
<1> QED
  BY <1>1, LogInvariant, PTL

-----------------------------------------------------------------------------
(***************************************************************************)
(* What a restart finds: write-ahead, and the refinement of AtomicDisk.    *)
(***************************************************************************)

\* A block has one slot in the log.
LEMMA IndexInHeader ==
    ASSUME NEW h, Distinct(h), NEW i \in 1..Len(h)
    PROVE  IndexIn(h, h[i]) = i
  BY DEF IndexIn, Distinct

\* What recovery would find in a block: its slot if it is in the header on disk,
\* and its home block if it is not.
LEMMA RecoveredOf ==
    ASSUME LogInv, NEW b \in Block
    PROVE  /\ b \notin Logged(dheader) => Recovered[b] = home[b]
           /\ \A i \in 1..Len(dheader) : dheader[i] = b => Recovered[b] = slot[i]
<1>1. Distinct(dheader)
  BY DEF LogInv, HeaderInv
<1>2. b \notin Logged(dheader) => Recovered[b] = home[b]
  BY DEF Recovered
<1>3. ASSUME NEW i \in 1..Len(dheader), dheader[i] = b
      PROVE  Recovered[b] = slot[i]
  <2>1. b \in Logged(dheader)
    BY <1>3 DEF Logged
  <2>2. IndexIn(dheader, b) = i
    BY <1>1, <1>3, IndexInHeader, ZenonT(30)
  <2> QED
    BY <2>1, <2>2 DEF Recovered
<1> QED
  BY <1>2, <1>3

\* Two states that agree on every block have the same Recovered.
LEMMA RecoveredSame ==
    ASSUME \A b \in Block : Recovered'[b] = Recovered[b]
    PROVE  Recovered' = Recovered
  BY DEF Recovered

\* A turn of install_trans puts a logged block in its place.
LEMMA InstallWrites ==
    ASSUME LogInv, NEW t \in Thread, Install(t)
    PROVE  \A b \in Block : home'[b] # home[b] =>
              b \in Logged(dheader) /\ home'[b] = Recovered[b]
<1> DEFINE n == tail[t]
<1>1. /\ dheader = header /\ n \in 1..Len(header) /\ header[n] \in Block
      /\ home \in [Block -> Val]
  BY HeaderFits, ZenonT(30) DEF LogInv, TypeOK, DiskInv, Install
<1>2. home' = [home EXCEPT ![header[n]] = slot[n]]
  BY ZenonT(30) DEF Install
<1>3. ASSUME NEW b \in Block, home'[b] # home[b]
      PROVE  b = dheader[n] /\ home'[b] = slot[n]
  BY <1>1, <1>2, <1>3, ZenonT(30)
<1>4. \A b \in Block : dheader[n] = b => b \in Logged(dheader) /\ Recovered[b] = slot[n]
  BY <1>1, RecoveredOf DEF Logged
<1> QED
  BY <1>3, <1>4, ZenonT(30)

\* Every other step leaves the blocks outside the log alone.
LEMMA HomeKept ==
    ASSUME [Next]_vars, ~\E t \in Thread : Install(t)
    PROVE  home' = home
<1>1. ASSUME NEW p \in Proc, Step(p) PROVE home' = home
  BY ZenonT(30), <1>1
     DEF Step, Begin, WaitSem, EndOp, PostSpace, WriteLog, WriteHeader,
              CommitEnd, PostAll, Update, diskState
<1>2. ASSUME NEW t \in Thread, Clear(t) \/ ClearHeader(t) PROVE home' = home
  BY <1>2 DEF Clear, ClearHeader, diskState
<1>3. Crash \/ ReadHeader \/ UNCHANGED vars => home' = home
  BY DEF Crash, ReadHeader, vars, diskState
<1> QED
  BY <1>1, <1>2, <1>3, ZenonT(30) DEF Next

\* Write-ahead: nothing outside the log is overwritten before the log that is
\* committed on the disk holds what it is overwritten with.
THEOREM LogWriteAhead == Spec => WriteAhead
<1> DEFINE Ahead == \A b \in Block : home'[b] # home[b] =>
                       b \in Logged(dheader) /\ home'[b] = Recovered[b]
<1>1. LogInv /\ [Next]_vars => [Ahead]_vars
  <2> SUFFICES ASSUME LogInv, [Next]_vars PROVE Ahead
    OBVIOUS
  <2>1. CASE \E t \in Thread : Install(t)
    BY <2>1, InstallWrites
  <2>2. CASE ~\E t \in Thread : Install(t)
    BY <2>2, HomeKept
  <2> QED
    BY <2>1, <2>2
<1> QED
  BY <1>1, LogInvariant, PTL DEF Spec, WriteAhead

\* The cache's view once the kernel is up, what recovery will make of the disk
\* before: AtomicDisk's current.
View == IF Up THEN data ELSE Recovered

\* With the disk unchanged a restart finds the same; so it does while the log
\* is written and no header on the disk names it.
LEMMA SameDisk ==
    ASSUME home' = home, dheader' = dheader,
           slot' = slot \/ dheader = <<>>
    PROVE  Recovered' = Recovered
<1>1. CASE slot' = slot
  BY <1>1 DEF Recovered
<1>2. CASE dheader = <<>>
  <2>1. Logged(dheader) = {} /\ Logged(dheader') = {}
    BY <1>2 DEF Logged
  <2> QED
    BY <2>1 DEF Recovered
<1> QED
  BY <1>1, <1>2

\* A step that changes neither what a restart finds nor what operations see,
\* nor which operations run, is a stuttering step of AtomicDisk.
LEMMA Stutters ==
    ASSUME Recovered' = Recovered, View' = View, Open' = Open
    PROVE  UNCHANGED Abs!diskVars
  BY DEF Abs!diskVars, View, Open

\* A step of a process outside commits and operations.
LEMMA QuietStep ==
    ASSUME LogInv, NEW p \in Proc,
           \/ Begin(p) /\ pc'[p] # "op"
           \/ WaitSem(p) \/ PostSpace(p) \/ PostAll(p) \/ CommitEnd(p)
    PROVE  UNCHANGED Abs!diskVars
<1>0. TypeOK /\ BootInv /\ p \in Thread /\ p # Boot /\ Boot \in Thread
  BY LogAssumption, ZenonT(30) DEF LogInv, Thread
<1>1. home' = home /\ slot' = slot /\ dheader' = dheader /\ data' = data
  BY ZenonT(30)
     DEF Begin, WaitSem, PostSpace, PostAll, CommitEnd, diskState, cacheVars
<1>2. \E l \in PC \ {"op"} : \/ pc' = [pc EXCEPT ![p] = l]
                      \/ \E s, k \in PC \ {"op"} :
                            pc' = [Woken(s, k) EXCEPT ![p] = l]
  <2>1. CASE Begin(p) /\ pc'[p] # "op"
    <3>1. CASE Goto(p, "wait_s1") \/ Goto(p, "wait_s3")
      BY <3>1 DEF Goto, PC
    <3>2. CASE Admit(p)
      BY <1>0, <2>1, <3>2 DEF Admit, Reserve, Goto, TypeOK
    <3> QED
      BY <2>1, <3>1, <3>2 DEF Begin
  <2>2. CASE WaitSem(p)
    <3>1. PICK s \in {<<"wait_s1", "in_s1">>, <<"wait_s2", "in_s2">>,
                      <<"wait_s3", "in_s3">>} : Goto(p, s[2])
      BY <2>2 DEF WaitSem
    <3>2. s[2] \in {"in_s1", "in_s2", "in_s3"}
      OBVIOUS
    <3> QED
      BY <3>1, <3>2, ZenonT(30) DEF Goto, PC
  <2>3. CASE PostSpace(p)
    <3>1. pc' = [Woken("in_s1", "retry") EXCEPT ![p] = "wait_s2"]
      BY <2>3 DEF PostSpace
    <3> QED
      BY <3>1 DEF PC
  <2>4. CASE PostAll(p)
    BY <2>4 DEF PostAll, PC
  <2>5. CASE CommitEnd(p)
    BY <2>5, ZenonT(30) DEF CommitEnd, Goto, PC
  <2> QED
    BY <2>1, <2>2, <2>3, <2>4, <2>5, ZenonT(30)
<1>3. pc[p] # "op"
  BY DEF Begin, WaitSem, PostSpace, PostAll, CommitEnd
<1>4. PICK l \in PC \ {"op"}, s \in PC \ {"op"}, k \in PC \ {"op"} :
        \/ pc' = [pc EXCEPT ![p] = l]
        \/ pc' = [Woken(s, k) EXCEPT ![p] = l]
  BY <1>2
<1>5. \A q \in Proc : (pc'[q] = "op") <=> (pc[q] = "op")
  <2>1. CASE pc' = [pc EXCEPT ![p] = l]
    BY <1>0, <1>3, <2>1 DEF TypeOK, Thread
  <2>2. CASE pc' = [Woken(s, k) EXCEPT ![p] = l]
    <3>1. pc' = [t \in Thread |-> IF t = p THEN l
                                  ELSE IF pc[t] = s THEN k ELSE pc[t]]
      BY <1>0, <2>2, ZenonT(30) DEF Woken
    <3> QED
      BY <1>3, <3>1 DEF Thread
  <2> QED
    BY <1>4, <2>1, <2>2
<1>6. Open' = Open
  BY <1>5 DEF Open
<1>7. Up /\ Up'
  <2>1. Up
    BY <1>0 DEF BootInv, Begin, WaitSem, PostSpace, PostAll, CommitEnd
  <2>2. "done" \notin PC
    BY DEF PC, CommitPC
  <2>3. pc'[Boot] = pc[Boot]
    BY <1>0, <1>4, <2>1, <2>2, ZenonT(30) DEF Up, Woken, TypeOK
  <2> QED
    BY <2>1, <2>3 DEF Up
<1>8. Recovered' = Recovered
  BY <1>1, SameDisk
<1> QED
  BY <1>1, <1>6, <1>7, <1>8, Stutters, ZenonT(30) DEF View

\* begin_op, sync and end_op are AtomicDisk's BeginOp, Write and EndOp.
LEMMA OperationRefines ==
    ASSUME LogInv, NEW p \in Proc,
           \/ Begin(p) /\ pc'[p] = "op"
           \/ EndOp(p)
           \/ \E b \in Block, v \in Val : Update(p, b, v)
    PROVE  Abs!DNext
<1>0. TypeOK /\ p \in Thread /\ p # Boot /\ Boot \in Thread
  BY LogAssumption DEF LogInv, Thread
<1>1. home' = home /\ slot' = slot /\ dheader' = dheader
  BY ZenonT(30) DEF Begin, EndOp, Update, diskState
<1>2. Recovered' = Recovered
  BY <1>1, SameDisk
<1>3. CASE Begin(p) /\ pc'[p] = "op"
  <2>1. Up /\ pc[p] # "op" /\ data' = data
    BY <1>3 DEF Begin, cacheVars
  <2>2. \E l \in {"wait_s1", "wait_s3", "op"} : pc' = [pc EXCEPT ![p] = l]
    BY <1>3 DEF Begin, Admit, Reserve, Goto
  <2>3. pc' = [pc EXCEPT ![p] = "op"]
    BY <1>0, <1>3, <2>2, ZenonT(30) DEF TypeOK
  <2>4. p \notin Open /\ Open' = Open \cup {p} /\ Up'
    BY <1>0, <2>1, <2>3, ZenonT(30) DEF TypeOK, Open, Up, Thread
  <2>5. Abs!BeginOp(p)
    BY <1>2, <2>1, <2>4 DEF Abs!BeginOp, Open
  <2> QED
    BY <2>5 DEF Abs!DNext
<1>4. CASE EndOp(p)
  <2>1. pc[p] = "op" /\ Up /\ data' = data
    BY <1>4, Running, ZenonT(30) DEF EndOp, cacheVars
  <2>2. \E l \in {"commit_end", "write_log", "post_s1"} :
           pc' = [pc EXCEPT ![p] = l]
    BY <1>4, ZenonT(30) DEF EndOp, Goto
  <2>3. p \in Open /\ Open' = Open \ {p} /\ Up'
    BY <1>0, <2>1, <2>2, ZenonT(30) DEF TypeOK, Open, Up, Thread
  <2>4. Abs!EndOp(p)
    BY <1>2, <2>1, <2>3 DEF Abs!EndOp, Open
  <2> QED
    BY <2>4, ZenonT(30) DEF Abs!DNext
<1>5. ASSUME NEW b \in Block, NEW v \in Val, Update(p, b, v)
      PROVE  Abs!DNext
  <2>1. /\ pc[p] = "op" /\ Up /\ p \in Open
        /\ data' = [data EXCEPT ![b] = v]
    BY <1>5, Running, ZenonT(30) DEF Update
  <2>2. pc' = pc
    <3>1. b \notin Logged(header) => rm[p] > 0
      BY <1>5, <2>1, MineGrows, ZenonT(30) DEF Update
    <3> QED
      BY <1>5, <3>1, ZenonT(30) DEF Update, LogBlock
  <2>3. Open' = Open /\ Up'
    BY <2>1, <2>2, ZenonT(30) DEF Open, Up
  <2>4. Abs!Write(p, b, v)
    BY <1>2, <2>1, <2>3 DEF Abs!Write, Open
  <2> QED
    BY <2>4, ZenonT(30) DEF Abs!DNext
<1> QED
  BY <1>3, <1>4, <1>5

\* write_log changes nothing a restart finds, and write_header commits.
LEMMA WriteRefines ==
    ASSUME LogInv, NEW p \in Proc, WriteLog(p) \/ WriteHeader(p)
    PROVE  Abs!DNext \/ UNCHANGED Abs!diskVars
<1>0. /\ TypeOK /\ DiskInv /\ DirtyPinned /\ p \in Thread /\ p # Boot
      /\ pc[p] \in {"write_log", "write_header"}
  BY LogAssumption, ZenonT(30) DEF LogInv, Thread, WriteLog, WriteHeader
<1>1. /\ home' = home /\ header' = header /\ data' = data /\ rm' = rm
      /\ committing' = committing /\ outstanding' = outstanding
      /\ op_reserved' = op_reserved
  BY ZenonT(30) DEF WriteLog, WriteHeader, logVars, cacheVars
<1>2. PICK l \in {"write_log", "write_header", "install"} : Goto(p, l)
  BY ZenonT(30) DEF WriteLog, WriteHeader, NextTurn
<1>3. /\ Up /\ Up' /\ Open = {} /\ Open' = {}
      /\ \A u \in Thread \ {p} : pc[u] \notin DiskPC
  BY <1>0, <1>1, <1>2, WriterControl, ZenonT(30) DEF DiskPC, CommitPC
<1>4. dheader = <<>>
  <2>1. \A q \in Proc : pc[q] \notin {"install", "clear", "clear_header"}
    BY <1>0, <1>3 DEF DiskPC, Thread
  <2> QED
    BY <1>0, <1>3, <2>1, ZenonT(30) DEF DiskInv
<1>5. CASE WriteLog(p)
  <2>1. dheader' = dheader
    BY <1>5, ZenonT(30) DEF WriteLog
  <2>2. Recovered' = Recovered
    BY <1>1, <1>4, <2>1, SameDisk
  <2> QED
    BY <1>1, <1>3, <2>2, Stutters, ZenonT(30) DEF View
<1>6. CASE WriteHeader(p)
  <2>1. dheader' = header /\ slot' = slot
    BY <1>6, ZenonT(30) DEF WriteHeader
  <2>2. \A i \in 1..Len(header) : slot[i] = data[header[i]]
    BY <1>0, <1>6, ZenonT(30) DEF DiskInv, SlotsCached, WriteHeader
  <2>3. ASSUME NEW b \in Block PROVE Recovered'[b] = data[b]
    <3>2. CASE b \in Logged(header)
      <4>1. PICK i \in 1..Len(header) : header[i] = b
        BY <3>2 DEF Logged
      <4>2. IndexIn(header, b) = i
        BY <4>1, HeaderFits, IndexInHeader, ZenonT(30)
      <4>3. Recovered'[b] = slot'[IndexIn(dheader', b)]
        BY <2>1, <3>2, ZenonT(30) DEF Recovered
      <4> QED
        BY <2>1, <2>2, <4>1, <4>2, <4>3, ZenonT(30)
    <3>3. CASE b \notin Logged(header)
      BY <1>0, <1>1, <1>3, <2>1, <3>3, ZenonT(30) DEF DirtyPinned, Recovered
    <3> QED
      BY <3>2, <3>3, ZenonT(30)
  <2>4. Recovered' = data
    BY <1>0, <2>3, ZenonT(30) DEF Recovered, TypeOK
  <2>5. Abs!Commit
    BY <1>1, <1>3, <2>4 DEF Abs!Commit, Open
  <2> QED
    BY <2>5 DEF Abs!DNext
<1> QED
  BY <1>5, <1>6, ZenonT(30)

\* install_trans, and the header that empties the log: a restart finds the
\* same before and after, in a commit and in a recovery that is itself cut off.
LEMMA InstallRefines ==
    ASSUME LogInv, NEW t \in Thread, Install(t) \/ Clear(t) \/ ClearHeader(t)
    PROVE  UNCHANGED Abs!diskVars
<1>0. /\ TypeOK /\ BootInv /\ DiskInv /\ Boot \notin Proc
      /\ pc[t] \in {"install", "clear", "clear_header"}
  BY LogAssumption, ZenonT(30) DEF LogInv, Install, Clear, ClearHeader
<1>1. /\ committing' = committing /\ outstanding' = outstanding
      /\ op_reserved' = op_reserved /\ rm' = rm /\ slot' = slot
      /\ header' \in {header, <<>>}
      /\ Clear(t) \/ ClearHeader(t) => data' = data /\ home' = home
      /\ Install(t) \/ Clear(t) => dheader' = dheader
  BY ZenonT(30) DEF Install, Clear, ClearHeader, logVars, diskState, cacheVars
<1>2. PICK l \in {"install", "clear", "clear_header", "commit_end", "done"} :
        /\ Goto(t, l)
        /\ l = "commit_end" => t # Boot /\ ClearHeader(t)
        /\ l = "done" => t = Boot /\ ClearHeader(t)
        /\ ClearHeader(t) /\ t = Boot => l = "done"
  BY ZenonT(30) DEF Install, Clear, ClearHeader, NextTurn
<1>3. t = Boot => data = home /\ (data' = home')
  BY <1>0, ZenonT(30)
     DEF BootInv, Up, Install, Clear, ClearHeader, diskState, cacheVars
<1>4. t \in Proc => l \in CommitPC
  BY <1>0, <1>2, ZenonT(30) DEF CommitPC
<1>5. t = Boot => l \in BootPC \ {"read_header"}
  BY <1>0, <1>2, ZenonT(30) DEF BootPC
<1>6. /\ t \in Proc => Up /\ Up'
      /\ t = Boot => ~Up /\ (Up' <=> l = "done")
      /\ Open = {} /\ Open' = {}
  BY <1>0, <1>1, <1>2, <1>3, <1>4, <1>5, WriterControl, ZenonT(30) DEF DiskPC
<1>7. t \in Proc => data' = data
  <2>1. ASSUME Install(t), t \in Proc PROVE data' = data
    <3>1. /\ tail[t] \in 1..Len(header) /\ header[tail[t]] \in Block
          /\ slot[tail[t]] = data[header[tail[t]]]
      BY <1>0, <2>1, HeaderFits, ZenonT(30) DEF DiskInv, SlotsCached, Install
    <3>2. data' = [data EXCEPT ![header[tail[t]]] = slot[tail[t]]]
      BY <2>1, ZenonT(30) DEF Install
    <3> QED
      BY <1>0, <3>1, <3>2, ZenonT(30) DEF TypeOK
  <2> QED
    BY <1>1, <2>1, ZenonT(30)
<1>8. CASE Install(t)
  <2>1. \A b \in Block : b \notin Logged(dheader) => home'[b] = home[b]
    BY <1>8, InstallWrites, ZenonT(30)
  <2>2. Recovered' = Recovered
    BY <1>1, <1>8, <2>1, ZenonT(30) DEF Recovered
  <2>3. t = Boot => ~Up'
    BY <1>2, <1>6, <1>8, ZenonT(30) DEF Install, ClearHeader
  <2> QED
    BY <1>6, <1>7, <2>2, <2>3, Stutters, ZenonT(30) DEF View, Thread
<1>9. CASE Clear(t)
  <2>1. Recovered' = Recovered
    BY <1>1, <1>9, SameDisk, ZenonT(30)
  <2>2. t = Boot => ~Up'
    BY <1>2, <1>6, <1>9, ZenonT(30) DEF Clear, ClearHeader
  <2> QED
    BY <1>6, <1>7, <2>1, <2>2, Stutters DEF View, Thread
<1>10. CASE ClearHeader(t)
  <2>1. header = <<>> /\ \A i \in 1..Len(dheader) : home[dheader[i]] = slot[i]
    BY <1>0, <1>10, ZenonT(30) DEF DiskInv, SlotsInPlace, ClearHeader
  <2>2. ASSUME NEW b \in Block PROVE Recovered[b] = home[b]
    BY <2>1, RecoveredOf DEF Logged
  <2>3. Recovered = home
    BY <1>0, <2>2, ZenonT(30) DEF Recovered, TypeOK
  <2>4. Logged(dheader') = {} /\ home' = home
    BY <1>1, <1>10, <2>1 DEF ClearHeader, Logged
  <2>5. Recovered' = home
    BY <1>0, <2>4, ZenonT(30) DEF Recovered, TypeOK
  <2>6. t = Boot => View' = home /\ View = home
    BY <1>1, <1>2, <1>3, <1>6, <1>10, <2>3, ZenonT(30) DEF View
  <2>7. t \in Proc => View' = View
    BY <1>6, <1>7 DEF View
  <2> QED
    BY <1>6, <2>3, <2>5, <2>6, <2>7, Stutters, ZenonT(30) DEF Thread
<1> QED
  BY <1>8, <1>9, <1>10, ZenonT(30)

\* A crash is AtomicDisk's Restart, and read_header changes nothing.
LEMMA CrashRefines ==
    ASSUME LogInv, Crash \/ ReadHeader
    PROVE  Abs!DNext \/ UNCHANGED Abs!diskVars
<1>0. /\ TypeOK /\ Boot \in Thread /\ Boot \notin Proc
      /\ \A p \in Proc : p \in Thread
  BY LogAssumption, ZenonT(30) DEF LogInv, Thread
<1>1. Recovered' = Recovered
  BY SameDisk DEF Crash, ReadHeader, diskState
<1>2. CASE Crash
  <2>1. ~Up' /\ Open' = {}
    BY <1>0, <1>2 DEF Crash, Up, Open
  <2>2. Abs!Restart
    BY <1>1, <2>1 DEF Abs!Restart, Open
  <2> QED
    BY <2>2, ZenonT(30) DEF Abs!DNext
<1>3. CASE ReadHeader
  <2>1. PICK l \in {"clear", "install"} : pc' = [pc EXCEPT ![Boot] = l]
    BY <1>3, ZenonT(30) DEF ReadHeader, Goto
  <2>2. ~Up /\ ~Up' /\ Open' = Open
    BY <1>0, <1>3, <2>1 DEF ReadHeader, TypeOK, Up, Open
  <2> QED
    BY <1>1, <2>2, Stutters, ZenonT(30) DEF View
<1> QED
  BY <1>2, <1>3

\* The write-ahead log of cache.c implements the atomic disk: for any number of
\* processes and blocks, with crashes between any two disk writes and in the
\* middle of recovery, a restart finds whole operations only.
THEOREM LogImplementsAtomicDisk == Spec => ImplementsAtomicDisk
<1>1. Init => Abs!DInit
  <2> SUFFICES ASSUME Init PROVE Abs!DInit
    OBVIOUS
  <2>1. Recovered = [b \in Block |-> Blank]
    BY DEF Init, Recovered, Logged
  <2>2. ~Up /\ Open = {}
    BY LogAssumption DEF Init, Up, Open, Thread
  <2> QED
    BY <2>1, <2>2 DEF Abs!DInit, Open
<1>2. LogInv /\ [Next]_vars => [Abs!DNext]_(Abs!diskVars)
  <2> SUFFICES ASSUME LogInv, [Next]_vars
               PROVE  Abs!DNext \/ UNCHANGED Abs!diskVars
    OBVIOUS
  <2>1. ASSUME NEW p \in Proc, Step(p)
        PROVE  Abs!DNext \/ UNCHANGED Abs!diskVars
    BY <2>1, QuietStep, OperationRefines, WriteRefines DEF Step
  <2>2. CASE \E t \in Thread : Install(t) \/ Clear(t) \/ ClearHeader(t)
    BY <2>2, InstallRefines
  <2>3. CASE Crash \/ ReadHeader
    BY <2>3, CrashRefines, ZenonT(30)
  <2>4. CASE UNCHANGED vars
    BY <2>4, SameDisk, Stutters
    DEF vars, diskState, cacheVars, View, Open, Up
  <2> QED
    BY <2>1, <2>2, <2>3, <2>4 DEF Next
<1> QED
  BY <1>1, <1>2, LogInvariant, PTL DEF Spec, ImplementsAtomicDisk, Abs!DSpec
=============================================================================
