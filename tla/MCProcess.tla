----------------------------- MODULE MCProcess -----------------------------
(***************************************************************************)
(* Instance of Process for TLC.                                            *)
(***************************************************************************)
EXTENDS Process, TLC

\* The struct procs other than root_proc are interchangeable.
SlotSymmetry == Permutations(Slot \ {RootProc})
=============================================================================
