------------------------------ MODULE MCInode ------------------------------
(* Two processes, an image with one file, and a name for a second one. *)
EXTENDS Inode

MCFiles == <<[name |-> "f", data |-> << <<"data", "old">> >>]>>
Symmetry == Permutations(Proc)
=============================================================================
