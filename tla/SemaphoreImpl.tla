--------------------------- MODULE SemaphoreImpl ---------------------------
(***************************************************************************)
(* The semaphores of sem.c as an implementation of AbstractSemaphore.      *)
(***************************************************************************)
EXTENDS Semaphore

\* The counting semaphore read off the code's state: val where it is positive,
\* the sleeplist, and the waits marked up.
Positive(n) == IF n > 0 THEN n ELSE 0
Units == [s \in Sem |-> Positive(val[s])]
Chosen == {p \in Proc : up[p]}

Abs == INSTANCE AbstractSemaphore WITH
    Client <- Proc, InitCount <- InitVal,
    count <- Units, queue <- sleeplist, granted <- Chosen

\* sem.c implements a counting semaphore with first-come first-served waits:
\* whatever posts, waits, alerts and switches interleave, every unit posted is
\* taken once, and an interrupted wait neither loses nor creates one.
ImplementsSemaphore == Abs!ASpec
=============================================================================
