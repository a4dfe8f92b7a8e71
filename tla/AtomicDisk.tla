----------------------------- MODULE AtomicDisk -----------------------------
(***************************************************************************)
(* What the atomic operations of the block cache promise: the disk that a  *)
(* restart finds holds whole operations only.  Writes are collected in a   *)
(* current view; a commit makes the view durable in one step, and only     *)
(* when no operation is running, so it never splits one.                   *)
(***************************************************************************)
CONSTANTS Client, Block, Val, Blank

VARIABLES
    durable,    \* what a restart would find, per block
    current,    \* what the running operations see
    open        \* the clients with a running operation

diskVars == <<durable, current, open>>

DInit ==
    /\ durable = [b \in Block |-> Blank]
    /\ current = durable
    /\ open = {}

BeginOp(p) ==
    /\ p \notin open
    /\ open' = open \cup {p}
    /\ UNCHANGED <<durable, current>>

Write(p, b, v) ==
    /\ p \in open
    /\ current' = [current EXCEPT ![b] = v]
    /\ UNCHANGED <<durable, open>>

EndOp(p) ==
    /\ p \in open
    /\ open' = open \ {p}
    /\ UNCHANGED <<durable, current>>

Commit ==
    /\ open = {}
    /\ durable' = current
    /\ UNCHANGED <<current, open>>

\* Memory is lost: what was not committed is gone, what was is not.
Restart ==
    /\ current' = durable
    /\ open' = {}
    /\ UNCHANGED durable

DNext ==
    \/ \E p \in Client : BeginOp(p) \/ EndOp(p)
    \/ \E p \in Client, b \in Block, v \in Val : Write(p, b, v)
    \/ Commit \/ Restart

DSpec == DInit /\ [][DNext]_diskVars
=============================================================================
