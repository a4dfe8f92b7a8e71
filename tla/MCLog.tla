------------------------------- MODULE MCLog -------------------------------
(***************************************************************************)
(* Instances of Log for TLC.                                               *)
(***************************************************************************)
EXTENDS Log, TLC

Symmetry == Permutations(Proc) \cup Permutations(Block)
=============================================================================
