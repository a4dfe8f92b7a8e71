------------------------------- MODULE MCIpc -------------------------------
(* Three processes, one entry for queues that hold two messages. *)
EXTENDS Ipc

Args(t, s, n) == [type |-> t, size |-> s, nowait |-> n]
MCSends == {Args(1, 1, FALSE), Args(2, 3, TRUE)}
MCReceives == {Args(0, 1, FALSE), Args(-2, 3, FALSE), Args(1, 3, TRUE)}
Symmetry == Permutations(Proc)
=============================================================================
