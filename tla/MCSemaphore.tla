---------------------------- MODULE MCSemaphore ----------------------------
(***************************************************************************)
(* Instances of Semaphore for TLC.                                         *)
(***************************************************************************)
EXTENDS SemaphoreImpl, TLC

\* One semaphore used as a lock, one as an event.
MCInitVal == [s \in Sem |-> IF s = AnySem THEN 1 ELSE 0]

\* Processes and CPUs are interchangeable.
Symmetry == Permutations(Proc) \cup Permutations(CPU)
=============================================================================
